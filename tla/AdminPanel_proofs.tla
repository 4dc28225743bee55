--------------------------- MODULE AdminPanel_proofs ---------------------------
(***************************************************************************)
(* AdminPanel for any number of operators, sessions and requests, whatever  *)
(* the bounds on their day.                                                 *)
(***************************************************************************)
EXTENDS AdminPanel, SequenceTheorems, FiniteSetTheorems, TLAPS

UserRow == [exists : BOOLEAN, role : Role, active : BOOLEAN, pw : Nat, weak : BOOLEAN,
            must : BOOLEAN, failed : Nat, lock : {"none", "held", "lapsed"}]

SessionRow == [state : {"unused", "live", "revoked"}, user : Admins \cup {None},
               age : {"fresh", "idle", "expired"}, pw : Nat, since : Nat, made : Nat]

PastRow == [minted : Nat, revoked : Nat, guesses : Nat, crossed : BOOLEAN, undone : BOOLEAN]

\* A request holds rows of several tables, so it is known by its fields only.
Fields == {"pc", "op", "by", "s", "needs", "tgt", "arg", "seen", "right", "since", "crossed"}

AccountOps == {"create", "role", "status", "reset", "password"}
CliOps == {"bootstrap", "cli_reset", "unlock"}
Stages == {"idle", "counted", "admitted", "loaded", "changed"}

\* An edit of the catalog names what it edits.
CatalogTyped(q) ==
  /\ q.op = "plan" => q.tgt \in Plans
  /\ q.op \in {"draft", "activate"} => q.tgt \in Shelves
  /\ q.op = "flag" => q.tgt \in Switches /\ q.arg \in {"on", "off"}
  /\ q.op = "route" => q.tgt \in Routes /\ q.arg \in Prices

\* What a request may hold at each of its stages.
Typed(q) ==
  /\ q.pc \in Stages
  /\ q.pc = "counted" => q.op = "login" /\ q.tgt \in Admins
  /\ q.pc = "loaded" /\ q.op = "login" => q.tgt \in Admins /\ q.seen \in UserRow /\ q.since \in Nat
  /\ q.pc \in {"admitted", "loaded", "changed"} /\ q.op \notin CliOps \cup {"login"} => q.by \in Admins
  /\ q.pc = "admitted" => q.op \in AccountOps \cup EditOps /\ q.seen \in UserRow
  /\ q.pc = "changed" => q.op = "password"
  /\ q.pc \in {"admitted", "loaded"} /\ q.op \in AccountOps => q.tgt \in Admins
  /\ q.pc \in {"admitted", "loaded"} /\ q.op \in {"create", "role"} => q.arg \in Role
  /\ q.pc \in {"admitted", "loaded"} /\ q.op = "status" => q.arg \in BOOLEAN
  /\ q.pc = "loaded" /\ q.op \in AccountOps \cup CliOps => q.tgt \in Admins /\ q.seen \in UserRow
  /\ q.pc \in {"admitted", "loaded"} => CatalogTyped(q)

Rows == DOMAIN req = Requests /\ \A r \in Requests : DOMAIN req[r] = Fields

\* The tables; a live session is some operator's.
TablesOK ==
  /\ users \in [Admins -> UserRow]
  /\ sess \in [Sessions -> SessionRow]
  /\ \A s \in Sessions : sess[s].state = "live" => sess[s].user \in Admins
  /\ tries \in [Ips -> Nat]
  /\ past \in [Admins -> PastRow]
  /\ plans \in [Plans -> Nat]
  /\ shelf \in [Shelves -> Seq({"draft", "active", "retired"})]
  /\ mixed \subseteq Shelves
  /\ flags \in [Switches -> {"unset", "on", "off"}]
  /\ routes \in [Routes -> Prices \cup {"unset"}]

TypeInv == Rows /\ (\A r \in Requests : Typed(req[r])) /\ TablesOK

-----------------------------------------------------------------------------
(* What a step does to the requests.                                        *)

\* A request that others overtook is the same but for the marks they left.
Kept(q) ==
  /\ req'[q].pc = req[q].pc /\ req'[q].op = req[q].op /\ req'[q].by = req[q].by
  /\ req'[q].s = req[q].s /\ req'[q].needs = req[q].needs /\ req'[q].tgt = req[q].tgt
  /\ req'[q].arg = req[q].arg /\ req'[q].seen = req[q].seen /\ req'[q].right = req[q].right
  /\ req'[q].since = req[q].since
  /\ req[q].crossed \subseteq req'[q].crossed

LEMMA IdleIsTyped == Typed(IdleReq) /\ DOMAIN IdleReq = Fields /\ IdleReq.pc = "idle"
  BY DEF IdleReq, Typed, CatalogTyped, Fields, Stages

LEMMA SameIsKept ==
  ASSUME NEW q, req'[q] = req[q]
  PROVE  Kept(q)
  BY DEF Kept

LEMMA KeptIsTyped ==
  ASSUME NEW q, Kept(q), Typed(req[q])
  PROVE  Typed(req'[q])
  BY DEF Kept, Typed, CatalogTyped

\* A commit leaves its mark on every other request that is under way.
Marked(q, mark) == Kept(q) /\ (Busy(q) => mark \in req'[q].crossed)

LEMMA FinishMarks ==
  ASSUME Rows, NEW r \in Requests, NEW mark, Finish(r, mark)
  PROVE  /\ Rows'
         /\ req'[r] = IdleReq
         /\ \A q \in Requests \ {r} : Marked(q, mark)
<1>1. \A q \in Requests : req'[q] = IF q = r THEN IdleReq
                                    ELSE IF Busy(q) THEN [req[q] EXCEPT !.crossed = @ \cup {mark}]
                                    ELSE req[q]
  BY DEF Finish
<1>2. DOMAIN req' = Requests
  BY DEF Finish
<1>3. ASSUME NEW q \in Requests PROVE DOMAIN req'[q] = Fields
  BY <1>1, IdleIsTyped DEF Rows
<1>4. ASSUME NEW q \in Requests \ {r} PROVE Marked(q, mark)
  <2>1. CASE Busy(q)
    <3>1. req'[q] = [req[q] EXCEPT !.crossed = @ \cup {mark}] /\ DOMAIN req[q] = Fields
      BY <1>1, <2>1 DEF Rows
    <3> QED BY <3>1 DEF Marked, Kept, Fields
  <2>2. CASE ~Busy(q)
    BY <1>1, <2>2, SameIsKept DEF Marked
  <2> QED BY <2>1, <2>2
<1> QED BY <1>1, <1>2, <1>3, <1>4 DEF Rows

LEMMA DropKeeps ==
  ASSUME Rows, NEW r \in Requests, Drop(r)
  PROVE  /\ Rows'
         /\ req'[r] = IdleReq
         /\ \A q \in Requests \ {r} : req'[q] = req[q]
  BY IdleIsTyped DEF Rows, Drop

\* The request that starts with a session.
LEMMA AdmitStarts ==
  ASSUME Rows, NEW r \in Requests, NEW s, NEW op, NEW permission, NEW tgt, NEW arg,
         Admit(r, s, op, permission, tgt, arg)
  PROVE  /\ Rows'
         /\ req'[r].pc = "admitted" /\ req'[r].op = op /\ req'[r].by = sess[s].user
         /\ req'[r].s = s /\ req'[r].needs = permission /\ req'[r].tgt = tgt
         /\ req'[r].arg = arg /\ req'[r].seen = users[sess[s].user]
         /\ req'[r].crossed = {}
         /\ \A q \in Requests \ {r} : req'[q] = req[q]
  BY DEF Rows, Admit, IdleReq, Fields
-----------------------------------------------------------------------------
(* What a step does to the accounts and the sessions.                       *)

\* A commit that leaves `mark` ends request r.
Ends(r, mark) == Rows' /\ req'[r] = IdleReq /\ \A q \in Requests \ {r} : Marked(q, mark)

\* Only the row of u, and what is remembered of it, may have changed.
Touches(u) ==
  /\ users' \in [Admins -> UserRow] /\ past' \in [Admins -> PastRow]
  /\ \A v \in Admins \ {u} : users'[v] = users[v] /\ past'[v] = past[v]

SameRights(u) ==
  /\ users'[u].exists = users[u].exists /\ users'[u].role = users[u].role
  /\ users'[u].active = users[u].active
SameCount(u) == users'[u].failed = users[u].failed /\ users'[u].lock = users[u].lock
SameGuesses(u) == past'[u].guesses = past[u].guesses /\ past'[u].crossed = past[u].crossed
SamePassword(u) == users'[u].pw = users[u].pw /\ past'[u].undone = past[u].undone

\* The counter is cleared by a request that read seen.failed.
Clears(r, u) ==
  /\ users'[u].failed = Assign(req[r].seen.failed, 0, users[u].failed)
  /\ past'[u].guesses = (IF req[r].seen.failed = 0 THEN past[u].guesses ELSE 0)
  /\ past'[u].crossed = (past[u].crossed \/ Overtaken(r, u))

\* No session is opened, and of those that stay live only the age changes.
SessKept ==
  /\ sess' \in [Sessions -> SessionRow]
  /\ \A s \in Sessions : sess'[s].state = "live" =>
       /\ sess[s].state = "live" /\ sess'[s].user = sess[s].user
       /\ sess'[s].pw = sess[s].pw /\ sess'[s].since = sess[s].since
       /\ sess'[s].made = sess[s].made

SessRevoked(u) ==
  SessKept /\ \A s \in Sessions : sess'[s].state = "live" => sess'[s].user # u

LEMMA AgedSession ==
  ASSUME NEW row \in SessionRow, NEW age \in {"fresh", "idle", "expired"},
         NEW new, new = [row EXCEPT !.age = age]
  PROVE  /\ new \in SessionRow
         /\ new.state = row.state /\ new.user = row.user /\ new.pw = row.pw
         /\ new.since = row.since /\ new.made = row.made
  BY DEF SessionRow

LEMMA RevokedSession ==
  ASSUME NEW row \in SessionRow, NEW new, new = [row EXCEPT !.state = "revoked"]
  PROVE  new \in SessionRow /\ new.state = "revoked"
  BY DEF SessionRow

\* The request's own session was just seen.
LEMMA SeenRows ==
  ASSUME TablesOK, NEW r \in Requests, NEW rows, rows = Seen(r)
  PROVE  /\ rows \in [Sessions -> SessionRow]
         /\ \A s \in Sessions :
              /\ rows[s].state = sess[s].state /\ rows[s].user = sess[s].user
              /\ rows[s].pw = sess[s].pw /\ rows[s].since = sess[s].since
              /\ rows[s].made = sess[s].made
<1>1. ASSUME NEW s \in Sessions
      PROVE  /\ rows[s] \in SessionRow
             /\ rows[s].state = sess[s].state /\ rows[s].user = sess[s].user
             /\ rows[s].pw = sess[s].pw /\ rows[s].since = sess[s].since
             /\ rows[s].made = sess[s].made
  <2>1. sess[s] \in SessionRow
    BY DEF TablesOK
  <2>2. PICK age \in {"fresh", "idle", "expired"} :
          rows[s] = sess[s] \/ rows[s] = [sess[s] EXCEPT !.age = age]
    BY <2>1 DEF TablesOK, Seen, SessionRow
  <2> QED BY <2>1, <2>2, AgedSession
<1> QED BY <1>1 DEF Seen, TablesOK

LEMMA SeenKeeps ==
  ASSUME TablesOK, NEW r \in Requests, sess' = Seen(r)
  PROVE  SessKept
<1> DEFINE rows == Seen(r)
<1>1. rows \in [Sessions -> SessionRow]
      /\ \A s \in Sessions :
           /\ rows[s].state = sess[s].state /\ rows[s].user = sess[s].user
           /\ rows[s].pw = sess[s].pw /\ rows[s].since = sess[s].since
           /\ rows[s].made = sess[s].made
  BY SeenRows
<1>2. sess' = rows
  OBVIOUS
<1> HIDE DEF rows
<1> QED BY <1>1, <1>2 DEF SessKept

LEMMA RevokeAllRevokes ==
  ASSUME NEW u, NEW rows \in [Sessions -> SessionRow],
         \A s \in Sessions :
           /\ rows[s].state = sess[s].state /\ rows[s].user = sess[s].user
           /\ rows[s].pw = sess[s].pw /\ rows[s].since = sess[s].since
           /\ rows[s].made = sess[s].made,
         sess' = RevokeAll(u, rows)
  PROVE  SessRevoked(u)
<1>1. ASSUME NEW s \in Sessions
      PROVE  /\ sess'[s] \in SessionRow
             /\ sess'[s].state = "live" => sess'[s] = rows[s] /\ rows[s].user # u
  <2>1. CASE rows[s].state = "live" /\ rows[s].user = u
    <3>1. sess'[s] = [rows[s] EXCEPT !.state = "revoked"]
      BY <2>1 DEF RevokeAll
    <3> QED BY <3>1, RevokedSession
  <2>2. CASE ~(rows[s].state = "live" /\ rows[s].user = u)
    BY <2>2 DEF RevokeAll
  <2> QED BY <2>1, <2>2
<1>2. sess' \in [Sessions -> SessionRow]
  BY <1>1 DEF RevokeAll
<1> QED BY <1>1, <1>2 DEF SessRevoked, SessKept

LEMMA SeenAndRevoked ==
  ASSUME TablesOK, NEW u, NEW r \in Requests, sess' = RevokeAll(u, Seen(r))
  PROVE  SessRevoked(u)
<1> DEFINE rows == Seen(r)
<1>1. rows \in [Sessions -> SessionRow]
      /\ \A s \in Sessions :
           /\ rows[s].state = sess[s].state /\ rows[s].user = sess[s].user
           /\ rows[s].pw = sess[s].pw /\ rows[s].since = sess[s].since
           /\ rows[s].made = sess[s].made
  BY SeenRows
<1>2. sess' = RevokeAll(u, rows)
  OBVIOUS
<1> HIDE DEF rows
<1> QED BY <1>1, <1>2, RevokeAllRevokes
-----------------------------------------------------------------------------
(* The commits, field by field.                                             *)

LEMMA UserRows ==
  ASSUME TablesOK, NEW u \in Admins, NEW row, row \in UserRow,
         users' = [users EXCEPT ![u] = row]
  PROVE  /\ users' \in [Admins -> UserRow] /\ users'[u] = row
         /\ \A v \in Admins \ {u} : users'[v] = users[v]
  BY DEF TablesOK

LEMMA PastRows ==
  ASSUME TablesOK, NEW u \in Admins, NEW row, row \in PastRow,
         past' = [past EXCEPT ![u] = row]
  PROVE  /\ past' \in [Admins -> PastRow] /\ past'[u] = row
         /\ \A v \in Admins \ {u} : past'[v] = past[v]
  BY DEF TablesOK

LEMMA OpsDiffer ==
  /\ "login" \notin CliOps \cup AccountOps \cup EditOps
  /\ CliOps \cap (AccountOps \cup EditOps) = {} /\ AccountOps \cap EditOps = {}
  BY DEF CliOps, AccountOps, EditOps

LEMMA WrongPasswordDoes ==
  ASSUME TypeInv, NEW r \in Requests, WrongPassword(r), NEW u, u = req[r].tgt
  PROVE  /\ u \in Admins /\ Touches(u) /\ SameRights(u) /\ SamePassword(u)
         /\ Ends(r, <<"login", u>>)
         /\ req[r].seen.failed \in Nat
         /\ users'[u].failed = req[r].seen.failed + 1
         /\ users'[u].lock = (IF LocksAt(req[r].seen.failed + 1) THEN "held" ELSE users[u].lock)
         /\ past'[u].guesses = past[u].guesses + 1
         /\ past'[u].crossed = (past[u].crossed \/ Overtaken(r, u))
         /\ past'[u].revoked = past[u].revoked
         /\ sess' = sess
<1> DEFINE n == req[r].seen.failed + 1
           lock == IF LocksAt(n) THEN "held" ELSE users[u].lock
           row == [users[u] EXCEPT !.failed = n, !.lock = lock]
           crossed == past[u].crossed \/ Overtaken(r, u)
           guesses == past[u].guesses + 1
           old == [past[u] EXCEPT !.guesses = guesses, !.crossed = crossed]
<1>1. u \in Admins /\ req[r].seen \in UserRow /\ TablesOK /\ Rows
  BY DEF WrongPassword, TypeInv, Typed
<1>2. users[u] \in UserRow /\ past[u] \in PastRow
  BY <1>1 DEF TablesOK
<1>3. users' = [users EXCEPT ![u] = row]
  BY DEF WrongPassword
<1>4. past' = [past EXCEPT ![u] = old]
  BY <1>1 DEF WrongPassword, TablesOK
<1>5. n \in Nat /\ lock \in {"none", "held", "lapsed"}
  BY <1>1, <1>2 DEF UserRow
<1>6. row \in UserRow /\ row.failed = n /\ row.lock = lock
      /\ row.exists = users[u].exists /\ row.role = users[u].role
      /\ row.active = users[u].active /\ row.pw = users[u].pw
  <2> HIDE DEF n, lock
  <2> QED BY <1>2, <1>5 DEF UserRow
<1>7. old \in PastRow /\ old.guesses = guesses /\ old.crossed = crossed
      /\ old.revoked = past[u].revoked /\ old.undone = past[u].undone
  <2>1. crossed \in BOOLEAN /\ guesses \in Nat
    BY <1>2 DEF PastRow
  <2> HIDE DEF crossed, guesses
  <2> QED BY <1>2, <2>1 DEF PastRow
<1>8. Ends(r, <<"login", u>>)
  BY <1>1, FinishMarks DEF WrongPassword, Ends
<1>9. users' \in [Admins -> UserRow] /\ users'[u] = row
      /\ \A v \in Admins \ {u} : users'[v] = users[v]
  <2> HIDE DEF row
  <2> QED BY <1>1, <1>3, <1>6, UserRows
<1>10. past' \in [Admins -> PastRow] /\ past'[u] = old
       /\ \A v \in Admins \ {u} : past'[v] = past[v]
  <2> HIDE DEF old
  <2> QED BY <1>1, <1>4, <1>7, PastRows
<1>11. Touches(u) /\ SameRights(u) /\ SamePassword(u)
  <2> HIDE DEF row, old
  <2> QED BY <1>6, <1>7, <1>9, <1>10 DEF Touches, SameRights, SamePassword
<1>12. sess' = sess /\ req[r].seen.failed \in Nat
  BY <1>1 DEF WrongPassword, UserRow
<1> HIDE DEF row, old
<1> QED BY <1>1, <1>6, <1>7, <1>8, <1>9, <1>10, <1>11, <1>12

LEMMA RehashedRow ==
  ASSUME NEW r, NEW row \in UserRow, req[r].seen \in UserRow, NEW new, new = Rehashed(r, row)
  PROVE  /\ new \in UserRow
         /\ new.exists = row.exists /\ new.role = row.role /\ new.active = row.active
         /\ new.failed = row.failed /\ new.lock = row.lock
         /\ new.pw = (IF req[r].seen.weak THEN req[r].seen.pw ELSE row.pw)
<1>1. req[r].seen.pw \in Nat
  BY DEF UserRow
<1>2. CASE req[r].seen.weak
  <2>1. new = [row EXCEPT !.pw = req[r].seen.pw, !.weak = FALSE]
    BY <1>2 DEF Rehashed
  <2> QED BY <1>1, <1>2, <2>1 DEF UserRow
<1>3. CASE ~req[r].seen.weak
  BY <1>3 DEF Rehashed
<1> QED BY <1>2, <1>3

LEMMA AssignedLock ==
  ASSUME NEW seen \in UserRow, NEW row \in UserRow
  PROVE  /\ Assign(seen.failed, 0, row.failed) \in Nat
         /\ Assign(seen.lock, "none", row.lock) \in {"none", "held", "lapsed"}
  BY DEF UserRow, Assign

LEMMA SignInDoes ==
  ASSUME TypeInv, NEW r \in Requests, NEW s \in Sessions, SignIn(r, s),
         NEW u, u = req[r].tgt
  PROVE  /\ u \in Admins /\ Touches(u) /\ SameRights(u) /\ Clears(r, u)
         /\ Ends(r, <<"login", u>>)
         /\ users'[u].lock = Assign(req[r].seen.lock, "none", users[u].lock)
         /\ users'[u].pw = (IF req[r].seen.weak THEN req[r].seen.pw ELSE users[u].pw)
         /\ past'[u].undone = (past[u].undone \/ users'[u].pw # users[u].pw)
         /\ past'[u].revoked = past[u].revoked
         /\ sess' \in [Sessions -> SessionRow]
         /\ \A t \in Sessions \ {s} : sess'[t] = sess[t]
         /\ sess'[s].user = u /\ sess'[s].pw = req[r].seen.pw
         /\ sess'[s].since = req[r].since /\ sess'[s].made = past[u].revoked
         /\ req[r].since \in Nat
<1> DEFINE base == Rehashed(r, users[u])
           failed == Assign(req[r].seen.failed, 0, users[u].failed)
           lock == Assign(req[r].seen.lock, "none", users[u].lock)
           row == [base EXCEPT !.failed = failed, !.lock = lock]
           guesses == IF req[r].seen.failed = 0 THEN past[u].guesses ELSE 0
           crossed == past[u].crossed \/ Overtaken(r, u)
           undone == past[u].undone \/ base.pw # users[u].pw
           old == [past[u] EXCEPT !.guesses = guesses, !.crossed = crossed, !.undone = undone]
           new == [state |-> "live", user |-> u, age |-> "fresh", pw |-> req[r].seen.pw,
                   since |-> req[r].since, made |-> past[u].revoked]
<1>1. u \in Admins /\ req[r].seen \in UserRow /\ req[r].since \in Nat /\ TablesOK /\ Rows
  BY DEF SignIn, TypeInv, Typed
<1>2. users[u] \in UserRow /\ past[u] \in PastRow
  BY <1>1 DEF TablesOK
<1>3. base \in UserRow
      /\ base.exists = users[u].exists /\ base.role = users[u].role
      /\ base.active = users[u].active
      /\ base.failed = users[u].failed /\ base.lock = users[u].lock
      /\ base.pw = (IF req[r].seen.weak THEN req[r].seen.pw ELSE users[u].pw)
  BY <1>1, <1>2, RehashedRow
<1>4. failed \in Nat /\ lock \in {"none", "held", "lapsed"}
  BY <1>1, <1>2, AssignedLock
<1>5. row \in UserRow /\ row.failed = failed /\ row.lock = lock
      /\ row.exists = base.exists /\ row.role = base.role /\ row.active = base.active
      /\ row.pw = base.pw
  <2>1. row = [base EXCEPT !.failed = failed, !.lock = lock]
    OBVIOUS
  <2> HIDE DEF base, failed, lock, row
  <2> QED BY <1>3, <1>4, <2>1 DEF UserRow
<1>6. users' = [users EXCEPT ![u] = row]
  BY <1>3 DEF SignIn
<1>7. users' \in [Admins -> UserRow] /\ users'[u] = row
      /\ \A v \in Admins \ {u} : users'[v] = users[v]
  <2> HIDE DEF row
  <2> QED BY <1>1, <1>5, <1>6, UserRows
<1>8. past' = [past EXCEPT ![u] = old]
  BY <1>1 DEF SignIn, TablesOK
<1>9. old \in PastRow /\ old.guesses = guesses /\ old.crossed = crossed
      /\ old.revoked = past[u].revoked /\ old.undone = undone
  <2>1. crossed \in BOOLEAN /\ undone \in BOOLEAN /\ guesses \in Nat
    BY <1>2 DEF PastRow
  <2> HIDE DEF crossed, guesses, undone
  <2> QED BY <1>2, <2>1 DEF PastRow
<1>10. past' \in [Admins -> PastRow] /\ past'[u] = old
       /\ \A v \in Admins \ {u} : past'[v] = past[v]
  <2> HIDE DEF old
  <2> QED BY <1>1, <1>8, <1>9, PastRows
<1>11. sess' \in [Sessions -> SessionRow] /\ sess'[s] = new
       /\ \A t \in Sessions \ {s} : sess'[t] = sess[t]
  <2>1. new \in SessionRow
    BY <1>1, <1>2 DEF SessionRow, UserRow, PastRow
  <2>2. sess' = [sess EXCEPT ![s] = new]
    BY DEF SignIn
  <2> HIDE DEF new
  <2> QED BY <1>1, <2>1, <2>2 DEF TablesOK
<1>12. Ends(r, <<"login", u>>)
  BY <1>1, FinishMarks DEF SignIn, Ends
<1>13. Touches(u) /\ SameRights(u) /\ Clears(r, u)
  <2>1. users'[u].failed = failed /\ past'[u].guesses = guesses /\ past'[u].crossed = crossed
    BY <1>5, <1>7, <1>9, <1>10
  <2> HIDE DEF row, old, base
  <2> QED BY <2>1, <1>3, <1>5, <1>7, <1>9, <1>10 DEF Touches, SameRights, Clears
<1>14. past'[u].undone = (past[u].undone \/ users'[u].pw # users[u].pw)
       /\ users'[u].pw = base.pw
  <2> HIDE DEF row, old, base
  <2> QED BY <1>5, <1>7, <1>9, <1>10
<1>15. /\ sess'[s].user = u /\ sess'[s].pw = req[r].seen.pw
       /\ sess'[s].since = req[r].since /\ sess'[s].made = past[u].revoked
  BY <1>11
<1>16. users'[u].lock = lock /\ past'[u].revoked = past[u].revoked
  <2> HIDE DEF row, old, base
  <2> QED BY <1>5, <1>7, <1>9, <1>10
<1> HIDE DEF base
<1> QED BY <1>1, <1>3, <1>11, <1>12, <1>13, <1>14, <1>15, <1>16

\* A new account: nothing is remembered of it but its password.
Creates(u, role) ==
  /\ Touches(u)
  /\ users'[u].exists /\ users'[u].active /\ users'[u].role = role
  /\ users'[u].failed = 0 /\ users'[u].lock = "none"
  /\ SameGuesses(u) /\ past'[u].revoked = past[u].revoked /\ past'[u].undone = past[u].undone

LEMMA NewAccount ==
  ASSUME TablesOK, NEW u \in Admins, NEW role \in Role, NEW must \in BOOLEAN,
         users' = [users EXCEPT ![u] = NewAdmin(u, role, must)],
         past' = [past EXCEPT ![u].minted = @ + 1]
  PROVE  Creates(u, role)
<1> DEFINE row == NewAdmin(u, role, must)
           minted == past[u].minted + 1
           old == [past[u] EXCEPT !.minted = minted]
<1>1. past[u] \in PastRow /\ minted \in Nat
  BY DEF TablesOK, PastRow
<1>2. row \in UserRow /\ row.exists /\ row.active /\ row.role = role
      /\ row.failed = 0 /\ row.lock = "none"
  <2>1. Minted(u) \in Nat
    BY <1>1 DEF Minted
  <2> QED BY <2>1 DEF NewAdmin, NoAdmin, UserRow
<1>3. old \in PastRow /\ old.guesses = past[u].guesses /\ old.crossed = past[u].crossed
      /\ old.revoked = past[u].revoked /\ old.undone = past[u].undone
  <2> HIDE DEF minted
  <2> QED BY <1>1 DEF PastRow
<1>4. past' = [past EXCEPT ![u] = old]
  BY <1>1 DEF TablesOK
<1>5. past' \in [Admins -> PastRow] /\ past'[u] = old
      /\ \A v \in Admins \ {u} : past'[v] = past[v]
  <2> HIDE DEF old
  <2> QED BY <1>3, <1>4, PastRows
<1>6. users' \in [Admins -> UserRow] /\ users'[u] = row
      /\ \A v \in Admins \ {u} : users'[v] = users[v]
  <2>1. users' = [users EXCEPT ![u] = row]
    OBVIOUS
  <2> HIDE DEF row
  <2> QED BY <1>2, <2>1, UserRows
<1> HIDE DEF row, old
<1> QED BY <1>2, <1>3, <1>5, <1>6 DEF Creates, Touches, SameGuesses

\* An account is created by a super admin's request or at the command line.
LEMMA CreateAdminDoes ==
  ASSUME TypeInv, NEW r \in Requests, CreateAdmin(r), NEW u, u = req[r].tgt
  PROVE  /\ u \in Admins /\ SessKept
         /\ \/ users' = users /\ past' = past /\ sess' = sess /\ audit' = audit /\ Drop(r)
            \/ /\ ~users[u].exists /\ Creates(u, req[r].arg)
               /\ Ends(r, <<"account", u>>) /\ Record(r, "role", None, req[r].arg)
<1>1. u \in Admins /\ req[r].arg \in Role /\ TablesOK /\ Rows
  BY DEF CreateAdmin, Loaded, TypeInv, Typed, AccountOps
<1>2. CASE users[u].exists
  <2>1. users' = users /\ past' = past /\ sess' = sess /\ audit' = audit /\ Drop(r)
    BY <1>2 DEF CreateAdmin
  <2> QED BY <1>1, <2>1 DEF SessKept, TablesOK
<1>3. CASE ~users[u].exists
  <2>1. /\ users' = [users EXCEPT ![u] = NewAdmin(u, req[r].arg, TRUE)]
        /\ past' = [past EXCEPT ![u].minted = @ + 1]
        /\ sess' = Seen(r)
        /\ Record(r, "role", None, req[r].arg)
        /\ Finish(r, <<"account", u>>)
    BY <1>3 DEF CreateAdmin
  <2>2. Creates(u, req[r].arg)
    BY <1>1, <2>1, NewAccount
  <2>3. Ends(r, <<"account", u>>)
    BY <1>1, <2>1, FinishMarks DEF Ends
  <2> QED BY <1>1, <1>3, <2>1, <2>2, <2>3, SeenKeeps
<1> QED BY <1>2, <1>3

LEMMA BootstrapDoes ==
  ASSUME TypeInv, NEW r \in Requests, NEW role \in Role, NEW must \in BOOLEAN,
         Bootstrap(r, role, must), NEW u, u = req[r].tgt
  PROVE  /\ u \in Admins /\ sess' = sess /\ audit' = audit
         /\ \/ users' = users /\ past' = past /\ Drop(r)
            \/ /\ ~users[u].exists /\ Creates(u, role)
               /\ Ends(r, <<"account", u>>)
<1>1. u \in Admins /\ TablesOK /\ Rows
  BY DEF Bootstrap, Loaded, TypeInv, Typed, CliOps
<1>2. CASE users[u].exists
  BY <1>1, <1>2 DEF Bootstrap
<1>3. CASE ~users[u].exists
  <2>1. /\ users' = [users EXCEPT ![u] = NewAdmin(u, role, must)]
        /\ past' = [past EXCEPT ![u].minted = @ + 1]
        /\ Finish(r, <<"account", u>>)
        /\ sess' = sess /\ audit' = audit
    BY <1>3 DEF Bootstrap
  <2>2. Creates(u, role)
    BY <1>1, <2>1, NewAccount
  <2>3. Ends(r, <<"account", u>>)
    BY <1>1, <2>1, FinishMarks DEF Ends
  <2> QED BY <1>1, <1>3, <2>1, <2>2, <2>3
<1> QED BY <1>2, <1>3

LEMMA RevokedPast ==
  ASSUME TablesOK, NEW u \in Admins, past' = Revoked(u)
  PROVE  /\ past' \in [Admins -> PastRow] /\ \A v \in Admins \ {u} : past'[v] = past[v]
         /\ past'[u].revoked = past[u].revoked + 1
         /\ past'[u].guesses = past[u].guesses /\ past'[u].crossed = past[u].crossed
         /\ past'[u].undone = past[u].undone /\ past'[u].minted = past[u].minted
<1> DEFINE revoked == past[u].revoked + 1
           old == [past[u] EXCEPT !.revoked = revoked]
<1>1. past[u] \in PastRow /\ revoked \in Nat
  BY DEF TablesOK, PastRow
<1>2. past' = [past EXCEPT ![u] = old]
  BY <1>1 DEF TablesOK, Revoked
<1>3. old \in PastRow /\ old.guesses = past[u].guesses /\ old.crossed = past[u].crossed
      /\ old.revoked = revoked /\ old.undone = past[u].undone /\ old.minted = past[u].minted
  <2> HIDE DEF revoked
  <2> QED BY <1>1 DEF PastRow
<1>4. past' \in [Admins -> PastRow] /\ past'[u] = old
      /\ \A v \in Admins \ {u} : past'[v] = past[v]
  <2> HIDE DEF old
  <2> QED BY <1>2, <1>3, PastRows
<1> HIDE DEF old
<1> QED BY <1>3, <1>4

\* A super admin's change of another account's rights ends its sessions.
LEMMA ChangeRoleDoes ==
  ASSUME TypeInv, NEW r \in Requests, ChangeRole(r), NEW u, u = req[r].tgt
  PROVE  /\ u \in Admins /\ Touches(u) /\ SameCount(u) /\ SameGuesses(u) /\ SamePassword(u)
         /\ users'[u].exists = users[u].exists /\ users'[u].active = users[u].active
         /\ users'[u].role = Assign(req[r].seen.role, req[r].arg, users[u].role)
         /\ past'[u].revoked = past[u].revoked + 1
         /\ SessRevoked(u) /\ Ends(r, <<"account", u>>)
         /\ Record(r, "role", req[r].seen.role, req[r].arg)
<1> DEFINE role == Assign(req[r].seen.role, req[r].arg, users[u].role)
           row == [users[u] EXCEPT !.role = role]
<1>1. u \in Admins /\ req[r].arg \in Role /\ TablesOK /\ Rows
  BY DEF ChangeRole, Loaded, TypeInv, Typed, AccountOps
<1>2. users[u] \in UserRow /\ role \in Role
  BY <1>1 DEF TablesOK, UserRow, Assign
<1>3. users' = [users EXCEPT ![u] = row]
  BY DEF ChangeRole
<1>4. row \in UserRow /\ row.role = role
      /\ row.exists = users[u].exists /\ row.active = users[u].active
      /\ row.pw = users[u].pw /\ row.failed = users[u].failed /\ row.lock = users[u].lock
  <2> HIDE DEF role
  <2> QED BY <1>2 DEF UserRow
<1>5. users' \in [Admins -> UserRow] /\ users'[u] = row
      /\ \A v \in Admins \ {u} : users'[v] = users[v]
  <2> HIDE DEF row
  <2> QED BY <1>1, <1>3, <1>4, UserRows
<1>6. /\ past' \in [Admins -> PastRow] /\ \A v \in Admins \ {u} : past'[v] = past[v]
      /\ past'[u].revoked = past[u].revoked + 1
      /\ past'[u].guesses = past[u].guesses /\ past'[u].crossed = past[u].crossed
      /\ past'[u].undone = past[u].undone
  BY <1>1, RevokedPast DEF ChangeRole
<1>7. SessRevoked(u) /\ Ends(r, <<"account", u>>)
      /\ Record(r, "role", req[r].seen.role, req[r].arg)
  BY <1>1, SeenAndRevoked, FinishMarks DEF ChangeRole, Ends
<1> HIDE DEF row
<1> QED BY <1>1, <1>4, <1>5, <1>6, <1>7 DEF Touches, SameCount, SameGuesses, SamePassword

LEMMA SetStatusDoes ==
  ASSUME TypeInv, NEW r \in Requests, SetStatus(r), NEW u, u = req[r].tgt
  PROVE  /\ u \in Admins /\ Touches(u) /\ SameCount(u) /\ SameGuesses(u) /\ SamePassword(u)
         /\ users'[u].exists = users[u].exists /\ users'[u].role = users[u].role
         /\ users'[u].active = Assign(req[r].seen.active, req[r].arg, users[u].active)
         /\ \/ SessKept /\ past'[u].revoked = past[u].revoked
            \/ SessRevoked(u) /\ past'[u].revoked = past[u].revoked + 1
         /\ Ends(r, <<"account", u>>)
         /\ Record(r, "active", req[r].seen.active, req[r].arg)
<1> DEFINE active == Assign(req[r].seen.active, req[r].arg, users[u].active)
           row == [users[u] EXCEPT !.active = active]
<1>1. u \in Admins /\ req[r].arg \in BOOLEAN /\ TablesOK /\ Rows
  BY DEF SetStatus, Loaded, TypeInv, Typed, AccountOps
<1>2. users[u] \in UserRow /\ active \in BOOLEAN
  BY <1>1 DEF TablesOK, UserRow, Assign
<1>3. users' = [users EXCEPT ![u] = row]
  BY DEF SetStatus
<1>4. row \in UserRow /\ row.active = active
      /\ row.exists = users[u].exists /\ row.role = users[u].role
      /\ row.pw = users[u].pw /\ row.failed = users[u].failed /\ row.lock = users[u].lock
  <2> HIDE DEF active
  <2> QED BY <1>2 DEF UserRow
<1>5. users' \in [Admins -> UserRow] /\ users'[u] = row
      /\ \A v \in Admins \ {u} : users'[v] = users[v]
  <2> HIDE DEF row
  <2> QED BY <1>1, <1>3, <1>4, UserRows
<1>6. Ends(r, <<"account", u>>) /\ Record(r, "active", req[r].seen.active, req[r].arg)
  BY <1>1, FinishMarks DEF SetStatus, Ends
<1>7. CASE req[r].arg
  <2>1. sess' = Seen(r) /\ past' = past
    BY <1>7 DEF SetStatus
  <2>2. SessKept
    BY <1>1, <2>1, SeenKeeps
  <2> HIDE DEF row
  <2> QED BY <1>1, <1>4, <1>5, <1>6, <2>1, <2>2
          DEF Touches, SameCount, SameGuesses, SamePassword, TablesOK
<1>8. CASE ~req[r].arg
  <2>1. sess' = RevokeAll(u, Seen(r)) /\ past' = Revoked(u)
    BY <1>8 DEF SetStatus
  <2>2. /\ past' \in [Admins -> PastRow] /\ \A v \in Admins \ {u} : past'[v] = past[v]
        /\ past'[u].revoked = past[u].revoked + 1
        /\ past'[u].guesses = past[u].guesses /\ past'[u].crossed = past[u].crossed
        /\ past'[u].undone = past[u].undone
    BY <1>1, <2>1, RevokedPast
  <2>3. SessRevoked(u)
    BY <1>1, <2>1, SeenAndRevoked
  <2> HIDE DEF row
  <2> QED BY <1>1, <1>4, <1>5, <1>6, <2>2, <2>3
          DEF Touches, SameCount, SameGuesses, SamePassword
<1> HIDE DEF row, active
<1> QED BY <1>7, <1>8

\* A reset clears the counter and ends the sessions of the account.
Resets(r, u) ==
  /\ Touches(u) /\ SameRights(u) /\ Clears(r, u)
  /\ users'[u].lock = Assign(req[r].seen.lock, "none", users[u].lock)
  /\ past'[u].revoked = past[u].revoked + 1 /\ past'[u].undone = past[u].undone

LEMMA ResetRows ==
  ASSUME TablesOK, NEW r, NEW u \in Admins, u = req[r].tgt, req[r].seen \in UserRow,
         users' = [users EXCEPT ![u] = ResetRow(r)],
         past' = ForgetGuesses(r, u)
  PROVE  Resets(r, u)
<1> DEFINE pw == Minted(u)
           must == Assign(req[r].seen.must, TRUE, users[u].must)
           failed == Assign(req[r].seen.failed, 0, users[u].failed)
           lock == Assign(req[r].seen.lock, "none", users[u].lock)
           row == [users[u] EXCEPT !.pw = pw, !.weak = FALSE, !.must = must,
                                   !.failed = failed, !.lock = lock]
           revoked == past[u].revoked + 1
           minted == past[u].minted + 1
           guesses == IF req[r].seen.failed = 0 THEN past[u].guesses ELSE 0
           crossed == past[u].crossed \/ Overtaken(r, u)
           mid == [past[u] EXCEPT !.revoked = revoked]
           old == [mid EXCEPT !.minted = minted, !.guesses = guesses, !.crossed = crossed]
<1>1. users[u] \in UserRow /\ past[u] \in PastRow
  BY DEF TablesOK
<1>2. pw \in Nat /\ must \in BOOLEAN /\ failed \in Nat /\ lock \in {"none", "held", "lapsed"}
  <2>1. pw \in Nat
    BY <1>1 DEF Minted, PastRow
  <2>2. must \in BOOLEAN
    BY <1>1 DEF Assign, UserRow
  <2> QED BY <1>1, <2>1, <2>2, AssignedLock
<1>3. users' = [users EXCEPT ![u] = row]
  BY DEF ResetRow
<1>4. row \in UserRow /\ row.failed = failed /\ row.lock = lock
      /\ row.exists = users[u].exists /\ row.role = users[u].role
      /\ row.active = users[u].active
  <2> HIDE DEF pw, must, failed, lock
  <2> QED BY <1>1, <1>2 DEF UserRow
<1>5. users' \in [Admins -> UserRow] /\ users'[u] = row
      /\ \A v \in Admins \ {u} : users'[v] = users[v]
  <2> HIDE DEF row
  <2> QED BY <1>3, <1>4, UserRows
<1>6. past' = [past EXCEPT ![u] = old]
  <2>1. Revoked(u) = [past EXCEPT ![u] = mid]
    BY <1>1 DEF TablesOK, Revoked
  <2>2. mid.minted = past[u].minted /\ mid.guesses = past[u].guesses
        /\ mid.crossed = past[u].crossed
    BY <1>1 DEF PastRow
  <2>3. past' = [[past EXCEPT ![u] = mid] EXCEPT ![u] = old]
    <3> HIDE DEF mid
    <3> QED BY <2>1, <2>2 DEF TablesOK, ForgetGuesses
  <2> HIDE DEF mid, old
  <2> QED BY <2>3 DEF TablesOK
<1>7. old \in PastRow /\ old.revoked = revoked /\ old.undone = past[u].undone
      /\ old.guesses = guesses /\ old.crossed = crossed
  <2>1. revoked \in Nat /\ minted \in Nat /\ guesses \in Nat /\ crossed \in BOOLEAN
    BY <1>1 DEF PastRow
  <2>2. mid \in PastRow /\ mid.revoked = revoked /\ mid.undone = past[u].undone
    <3> HIDE DEF revoked
    <3> QED BY <1>1, <2>1 DEF PastRow
  <2> HIDE DEF mid, revoked, minted, guesses, crossed
  <2> QED BY <2>1, <2>2 DEF PastRow
<1>8. past' \in [Admins -> PastRow] /\ past'[u] = old
      /\ \A v \in Admins \ {u} : past'[v] = past[v]
  <2> HIDE DEF old
  <2> QED BY <1>6, <1>7, PastRows
<1>9. Clears(r, u)
  <2>1. users'[u].failed = failed /\ past'[u].guesses = guesses /\ past'[u].crossed = crossed
    <3> HIDE DEF row, old
    <3> QED BY <1>4, <1>5, <1>7, <1>8
  <2> QED BY <2>1 DEF Clears
<1> HIDE DEF row, old
<1> QED BY <1>4, <1>5, <1>7, <1>8, <1>9 DEF Resets, Touches, SameRights

LEMMA ResetPasswordDoes ==
  ASSUME TypeInv, NEW r \in Requests, ResetPassword(r), NEW u, u = req[r].tgt
  PROVE  /\ u \in Admins /\ Resets(r, u)
         /\ SessRevoked(u) /\ Ends(r, <<"account", u>>) /\ Record(r, "pw", None, None)
<1>1. u \in Admins /\ req[r].seen \in UserRow /\ TablesOK /\ Rows
  BY DEF ResetPassword, Loaded, TypeInv, Typed, AccountOps
<1>2. Resets(r, u)
  BY <1>1, ResetRows DEF ResetPassword
<1> QED BY <1>1, <1>2, SeenAndRevoked, FinishMarks DEF ResetPassword, Ends

LEMMA CliResetDoes ==
  ASSUME TypeInv, NEW r \in Requests, CliReset(r), NEW u, u = req[r].tgt
  PROVE  /\ u \in Admins /\ Resets(r, u)
         /\ SessRevoked(u) /\ Ends(r, <<"account", u>>) /\ audit' = audit
<1>1. u \in Admins /\ req[r].seen \in UserRow /\ TablesOK /\ Rows
  BY DEF CliReset, Loaded, TypeInv, Typed, CliOps
<1>2. Resets(r, u)
  BY <1>1, ResetRows DEF CliReset
<1>3. SessRevoked(u)
  <2>1. sess \in [Sessions -> SessionRow] /\ sess' = RevokeAll(u, sess)
    BY <1>1 DEF CliReset, TablesOK
  <2> QED BY <2>1, RevokeAllRevokes
<1> QED BY <1>1, <1>2, <1>3, FinishMarks DEF CliReset, Ends

Unlocks(r, u) ==
  /\ Touches(u) /\ SameRights(u) /\ SamePassword(u) /\ Clears(r, u)
  /\ users'[u].lock = Assign(req[r].seen.lock, "none", users[u].lock)
  /\ past'[u].revoked = past[u].revoked

LEMMA CliUnlockDoes ==
  ASSUME TypeInv, NEW r \in Requests, CliUnlock(r), NEW u, u = req[r].tgt
  PROVE  u \in Admins /\ Unlocks(r, u)
         /\ sess' = sess /\ Ends(r, <<"account", u>>) /\ audit' = audit
<1> DEFINE failed == Assign(req[r].seen.failed, 0, users[u].failed)
           lock == Assign(req[r].seen.lock, "none", users[u].lock)
           row == [users[u] EXCEPT !.failed = failed, !.lock = lock]
           guesses == IF req[r].seen.failed = 0 THEN past[u].guesses ELSE 0
           crossed == past[u].crossed \/ Overtaken(r, u)
           old == [past[u] EXCEPT !.guesses = guesses, !.crossed = crossed]
<1>1. u \in Admins /\ req[r].seen \in UserRow /\ TablesOK /\ Rows
  BY DEF CliUnlock, Loaded, TypeInv, Typed, CliOps
<1>2. users[u] \in UserRow /\ past[u] \in PastRow
  BY <1>1 DEF TablesOK
<1>3. failed \in Nat /\ lock \in {"none", "held", "lapsed"}
  BY <1>1, <1>2, AssignedLock
<1>4. users' = [users EXCEPT ![u] = row]
  BY DEF CliUnlock
<1>5. row \in UserRow /\ row.failed = failed /\ row.lock = lock
      /\ row.exists = users[u].exists /\ row.role = users[u].role
      /\ row.active = users[u].active /\ row.pw = users[u].pw
  <2> HIDE DEF failed, lock
  <2> QED BY <1>2, <1>3 DEF UserRow
<1>6. users' \in [Admins -> UserRow] /\ users'[u] = row
      /\ \A v \in Admins \ {u} : users'[v] = users[v]
  <2> HIDE DEF row
  <2> QED BY <1>1, <1>4, <1>5, UserRows
<1>7. past' = [past EXCEPT ![u] = old]
  BY <1>1 DEF CliUnlock, TablesOK
<1>8. old \in PastRow /\ old.revoked = past[u].revoked /\ old.undone = past[u].undone
      /\ old.guesses = guesses /\ old.crossed = crossed
  <2>1. guesses \in Nat /\ crossed \in BOOLEAN
    BY <1>2 DEF PastRow
  <2> HIDE DEF guesses, crossed
  <2> QED BY <1>2, <2>1 DEF PastRow
<1>9. past' \in [Admins -> PastRow] /\ past'[u] = old
      /\ \A v \in Admins \ {u} : past'[v] = past[v]
  <2> HIDE DEF old
  <2> QED BY <1>1, <1>7, <1>8, PastRows
<1>10. Clears(r, u)
  <2>1. users'[u].failed = failed /\ past'[u].guesses = guesses /\ past'[u].crossed = crossed
    <3> HIDE DEF row, old
    <3> QED BY <1>5, <1>6, <1>8, <1>9
  <2> QED BY <2>1 DEF Clears
<1>11. sess' = sess /\ Ends(r, <<"account", u>>) /\ audit' = audit
  BY <1>1, FinishMarks DEF CliUnlock, Ends
<1> HIDE DEF row, old
<1> QED BY <1>1, <1>5, <1>6, <1>8, <1>9, <1>10, <1>11
        DEF Unlocks, Touches, SameRights, SamePassword

\* The caller's request goes on, to audit the change in a second transaction.
LEMMA ChangePasswordDoes ==
  ASSUME TypeInv, NEW r \in Requests, ChangePassword(r), NEW u, u = req[r].tgt
  PROVE  /\ u \in Admins /\ Touches(u) /\ SameRights(u) /\ SameCount(u) /\ SameGuesses(u)
         /\ past'[u].revoked = past[u].revoked + 1 /\ past'[u].undone = past[u].undone
         /\ SessRevoked(u) /\ audit' = audit
         /\ Rows' /\ req'[r].pc = "changed" /\ req'[r].op = "password"
         /\ req'[r].by = req[r].by /\ req'[r].needs = req[r].needs
         /\ req[r].crossed \subseteq req'[r].crossed
         /\ \A q \in Requests \ {r} : Marked(q, <<"account", u>>)
<1> DEFINE pw == Minted(u)
           must == Assign(req[r].seen.must, FALSE, users[u].must)
           row == [users[u] EXCEPT !.pw = pw, !.weak = FALSE, !.must = must]
           revoked == past[u].revoked + 1
           minted == past[u].minted + 1
           old == [past[u] EXCEPT !.revoked = revoked, !.minted = minted]
<1>1. u \in Admins /\ req[r].seen \in UserRow /\ TablesOK /\ Rows
      /\ req[r].op = "password" /\ req[r].by \in Admins
  BY DEF ChangePassword, Loaded, TypeInv, Typed, AccountOps, CliOps
<1>2. users[u] \in UserRow /\ past[u] \in PastRow
  BY <1>1 DEF TablesOK
<1>3. pw \in Nat /\ must \in BOOLEAN
  <2>1. pw \in Nat
    BY <1>2 DEF Minted, PastRow
  <2>2. must \in BOOLEAN
    BY <1>2 DEF Assign, UserRow
  <2> QED BY <2>1, <2>2
<1>4. users' = [users EXCEPT ![u] = row]
  BY DEF ChangePassword
<1>5. row \in UserRow /\ row.failed = users[u].failed /\ row.lock = users[u].lock
      /\ row.exists = users[u].exists /\ row.role = users[u].role
      /\ row.active = users[u].active
  <2> HIDE DEF pw, must
  <2> QED BY <1>2, <1>3 DEF UserRow
<1>6. users' \in [Admins -> UserRow] /\ users'[u] = row
      /\ \A v \in Admins \ {u} : users'[v] = users[v]
  <2> HIDE DEF row
  <2> QED BY <1>1, <1>4, <1>5, UserRows
<1>7. past' = [past EXCEPT ![u] = old]
  BY <1>1, <1>2 DEF ChangePassword, TablesOK, Revoked
<1>8. old \in PastRow /\ old.revoked = revoked /\ old.undone = past[u].undone
      /\ old.guesses = past[u].guesses /\ old.crossed = past[u].crossed
  <2>1. revoked \in Nat /\ minted \in Nat
    BY <1>2 DEF PastRow
  <2> HIDE DEF revoked, minted
  <2> QED BY <1>2, <2>1 DEF PastRow
<1>9. past' \in [Admins -> PastRow] /\ past'[u] = old
      /\ \A v \in Admins \ {u} : past'[v] = past[v]
  <2> HIDE DEF old
  <2> QED BY <1>1, <1>7, <1>8, PastRows
<1>10. SessRevoked(u) /\ audit' = audit
  BY <1>1, SeenAndRevoked DEF ChangePassword
<1>11. \A q \in Requests :
         req'[q] = IF q = r THEN [req[r] EXCEPT !.pc = "changed"]
                   ELSE IF Busy(q) THEN [req[q] EXCEPT !.crossed = @ \cup {<<"account", u>>}]
                   ELSE req[q]
  BY DEF ChangePassword
<1>12. req'[r] = [req[r] EXCEPT !.pc = "changed"] /\ DOMAIN req[r] = Fields
       /\ DOMAIN req' = Requests
  BY <1>1, <1>11 DEF ChangePassword, Rows
<1>13. /\ DOMAIN req'[r] = Fields
       /\ req'[r].pc = "changed" /\ req'[r].op = "password"
       /\ req'[r].by = req[r].by /\ req'[r].needs = req[r].needs
       /\ req'[r].crossed = req[r].crossed
  BY <1>1, <1>12 DEF Fields
<1>14. ASSUME NEW q \in Requests \ {r}
       PROVE  Marked(q, <<"account", u>>) /\ DOMAIN req'[q] = Fields
  <2>1. CASE Busy(q)
    <3>1. req'[q] = [req[q] EXCEPT !.crossed = @ \cup {<<"account", u>>}]
          /\ DOMAIN req[q] = Fields
      BY <1>1, <1>11, <2>1 DEF Rows
    <3> QED BY <3>1 DEF Marked, Kept, Fields
  <2>2. CASE ~Busy(q)
    BY <1>1, <1>11, <2>2, SameIsKept DEF Marked, Rows
  <2> QED BY <2>1, <2>2
<1>15. Rows'
  BY <1>12, <1>13, <1>14 DEF Rows
<1> HIDE DEF row, old
<1> QED BY <1>1, <1>5, <1>6, <1>8, <1>9, <1>10, <1>13, <1>14, <1>15
        DEF Touches, SameRights, SameCount, SameGuesses

LEMMA LockLapsesDoes ==
  ASSUME TypeInv, NEW u \in Admins, LockLapses(u)
  PROVE  /\ Touches(u) /\ SameRights(u) /\ SamePassword(u) /\ SameGuesses(u)
         /\ users'[u].failed = users[u].failed /\ users'[u].lock = "lapsed"
         /\ past' = past /\ sess' = sess /\ req' = req /\ audit' = audit
<1> DEFINE row == [users[u] EXCEPT !.lock = "lapsed"]
<1>1. users[u] \in UserRow /\ TablesOK
  BY DEF TypeInv, TablesOK
<1>2. row \in UserRow /\ row.failed = users[u].failed /\ row.lock = "lapsed"
      /\ row.exists = users[u].exists /\ row.role = users[u].role
      /\ row.active = users[u].active /\ row.pw = users[u].pw
  BY <1>1 DEF UserRow
<1>3. users' = [users EXCEPT ![u] = row] /\ past' = past /\ sess' = sess /\ req' = req
      /\ audit' = audit
  BY DEF LockLapses
<1>4. users' \in [Admins -> UserRow] /\ users'[u] = row
      /\ \A v \in Admins \ {u} : users'[v] = users[v]
  <2> HIDE DEF row
  <2> QED BY <1>1, <1>2, <1>3, UserRows
<1> HIDE DEF row
<1> QED BY <1>1, <1>2, <1>3, <1>4
        DEF Touches, SameRights, SamePassword, SameGuesses, TablesOK
-----------------------------------------------------------------------------
(* How a request moves on without a commit.                                 *)

LoginBegins(q) ==
  /\ ~Busy(q)
  /\ req'[q].pc = "counted" /\ req'[q].op = "login" /\ req'[q].tgt \in Admins
  /\ req'[q].crossed = {}

LoginLoads(q) ==
  /\ req[q].pc = "counted" /\ req[q].tgt \in Admins
  /\ req'[q].pc = "loaded" /\ req'[q].op = "login" /\ req'[q].tgt = req[q].tgt
  /\ users[req[q].tgt].exists
  /\ req'[q].seen = users[req[q].tgt] /\ req'[q].since = past[req[q].tgt].revoked

Asks(q) ==
  /\ ~Busy(q)
  /\ req'[q].pc = "admitted" /\ req'[q].op \in AccountOps \cup EditOps
  /\ req'[q].by \in Admins /\ Allowed(req'[q].by, req'[q].needs)
  /\ req'[q].seen = users[req'[q].by] /\ req'[q].crossed = {}
  /\ req'[q].op \in AccountOps => req'[q].tgt \in Admins
  /\ req'[q].op \in AccountOps \ {"password"} => req'[q].needs = "admin_user:write"
  /\ req'[q].op \in {"create", "role"} => req'[q].arg \in Role
  /\ req'[q].op = "status" => req'[q].arg \in BOOLEAN
  /\ CatalogTyped(req'[q])

\* What a request knew before it read its rows, it still knows after.
ReadsOn(q) ==
  /\ req[q].pc = "admitted" /\ req'[q].pc = "loaded"
  /\ req'[q].op = req[q].op /\ req'[q].by = req[q].by /\ req'[q].needs = req[q].needs
  /\ req'[q].tgt = req[q].tgt /\ req'[q].arg = req[q].arg /\ req'[q].crossed = req[q].crossed

\* A change of the caller's own role to a lesser one.
LowersOneself(q) ==
  req[q].op = "role" /\ req[q].tgt = req[q].by /\ req[q].arg # "SUPER_ADMIN"

AccountLoads(q) ==
  /\ ReadsOn(q)
  /\ req[q].op \in AccountOps
  /\ ~LowersOneself(q)
  /\ users[req[q].tgt].exists # (req[q].op = "create")
  /\ req'[q].seen = IF req[q].tgt = req[q].by THEN req[q].seen ELSE users[req[q].tgt]

EditLoads(q) ==
  /\ ReadsOn(q)
  /\ req[q].op \in EditOps
  /\ req[q].op = "activate" => req[q].arg \in DOMAIN shelf[req[q].tgt]
  /\ req'[q].seen = Read(q)

CliLoads(q) ==
  /\ ~Busy(q)
  /\ req'[q].pc = "loaded" /\ req'[q].op \in CliOps /\ req'[q].crossed = {}
  /\ req'[q].tgt \in Admins /\ req'[q].seen = users[req'[q].tgt]
  /\ req'[q].op # "bootstrap" => users[req'[q].tgt].exists

Moves(q) ==
  \/ req'[q] = IdleReq
  \/ LoginBegins(q) \/ LoginLoads(q) \/ Asks(q) \/ AccountLoads(q) \/ EditLoads(q)
  \/ CliLoads(q)

\* One request moves, the others are as they were.
OneMoves(r) == Rows' /\ Moves(r) /\ \A q \in Requests \ {r} : req'[q] = req[q]

LEMMA DropMoves ==
  ASSUME Rows, NEW r \in Requests, Drop(r)
  PROVE  OneMoves(r)
  BY DropKeeps DEF OneMoves, Moves

LEMMA SameMoves ==
  ASSUME Rows, NEW r \in Requests, req' = req
  PROVE  Rows' /\ \A q \in Requests : Kept(q)
  BY SameIsKept DEF Rows

LEMMA LoginThrottleMoves ==
  ASSUME Rows, NEW r \in Requests, NEW u \in Admins, NEW ip \in Ips, LoginThrottle(r, u, ip)
  PROVE  req' = req \/ OneMoves(r)
<1>1. CASE req' = req
  BY <1>1
<1>2. CASE req' # req
  <2>1. /\ ~Busy(r)
        /\ req' = [req EXCEPT ![r] = [IdleReq EXCEPT !.pc = "counted",
                      !.op = "login", !.by = u, !.tgt = u, !.arg = ip]]
    BY <1>2 DEF LoginThrottle
  <2>2. /\ req'[r].pc = "counted" /\ req'[r].op = "login" /\ req'[r].tgt = u
        /\ req'[r].crossed = {} /\ DOMAIN req'[r] = Fields /\ DOMAIN req' = Requests
        /\ \A q \in Requests \ {r} : req'[q] = req[q]
    BY <2>1 DEF Rows, IdleReq, Fields
  <2> QED BY <2>1, <2>2 DEF OneMoves, Rows, Moves, LoginBegins
<1> QED BY <1>1, <1>2

LEMMA LoginReadMoves ==
  ASSUME TypeInv, NEW r \in Requests, NEW right \in BOOLEAN, LoginRead(r, right)
  PROVE  OneMoves(r)
<1> DEFINE u == req[r].tgt
<1>1. Rows /\ u \in Admins /\ req[r].op = "login" /\ req[r].pc = "counted"
  BY DEF TypeInv, Typed, LoginRead
<1>2. CASE users[u].exists /\ users[u].active /\ users[u].lock # "held"
  <2>1. req' = [req EXCEPT ![r] = [req[r] EXCEPT !.pc = "loaded", !.seen = users[u],
                       !.right = right, !.since = past[u].revoked]]
    BY <1>1, <1>2 DEF LoginRead, Rows
  <2>2. /\ req'[r].pc = "loaded" /\ req'[r].op = req[r].op /\ req'[r].tgt = req[r].tgt
        /\ req'[r].seen = users[u] /\ req'[r].since = past[u].revoked
        /\ DOMAIN req'[r] = Fields /\ DOMAIN req' = Requests
        /\ \A q \in Requests \ {r} : req'[q] = req[q]
    BY <1>1, <2>1 DEF Rows, Fields
  <2> QED BY <1>1, <1>2, <2>2 DEF OneMoves, Rows, Moves, LoginLoads
<1>3. CASE ~(users[u].exists /\ users[u].active /\ users[u].lock # "held")
  BY <1>1, <1>3, DropMoves DEF LoginRead
<1> QED BY <1>2, <1>3

LEMMA LoadAccountMoves ==
  ASSUME TypeInv, NEW r \in Requests, NEW right \in BOOLEAN, NEW canonical \in BOOLEAN,
         LoadAccount(r, right, canonical)
  PROVE  OneMoves(r)
<1> DEFINE u == req[r].tgt
           seen == IF u = req[r].by THEN req[r].seen ELSE users[u]
<1>1. Rows /\ req[r].pc = "admitted" /\ req[r].op \in AccountOps /\ u \in Admins
  BY DEF TypeInv, Typed, LoadAccount, AccountOps
<1>2. CASE Drop(r)
  BY <1>1, <1>2, DropMoves
<1>3. CASE ~Drop(r)
  <2>1. /\ ~LowersOneself(r) /\ users[u].exists # (req[r].op = "create")
        /\ req' = [req EXCEPT ![r] = [req[r] EXCEPT !.pc = "loaded", !.seen = seen]]
    BY <1>3 DEF LoadAccount, OnOneself, LowersOneself
  <2>2. /\ ReadsOn(r) /\ req'[r].seen = seen
        /\ DOMAIN req'[r] = Fields /\ DOMAIN req' = Requests
        /\ \A q \in Requests \ {r} : req'[q] = req[q]
    <3> HIDE DEF seen
    <3> QED BY <1>1, <2>1 DEF Rows, Fields, ReadsOn
  <2> QED BY <1>1, <2>1, <2>2 DEF OneMoves, Rows, Moves, AccountLoads
<1> QED BY <1>2, <1>3

LEMMA LoadEditMoves ==
  ASSUME TypeInv, NEW r \in Requests, LoadEdit(r)
  PROVE  OneMoves(r)
<1>1. Rows /\ req[r].pc = "admitted" /\ req[r].op \in EditOps
  BY DEF TypeInv, LoadEdit
<1>2. CASE Drop(r)
  BY <1>1, <1>2, DropMoves
<1>3. CASE ~Drop(r)
  <2>1. /\ req[r].op = "activate" => req[r].arg \in DOMAIN shelf[req[r].tgt]
        /\ req' = [req EXCEPT ![r] = [req[r] EXCEPT !.pc = "loaded", !.seen = Read(r)]]
    BY <1>1, <1>3 DEF LoadEdit, Rows
  <2>2. /\ ReadsOn(r) /\ req'[r].seen = Read(r)
        /\ DOMAIN req'[r] = Fields /\ DOMAIN req' = Requests
        /\ \A q \in Requests \ {r} : req'[q] = req[q]
    BY <1>1, <2>1 DEF Rows, Fields, ReadsOn
  <2> QED BY <1>1, <2>1, <2>2 DEF OneMoves, Rows, Moves, EditLoads
<1> QED BY <1>2, <1>3

LEMMA CliReadMoves ==
  ASSUME Rows, NEW r \in Requests, NEW op \in CliOps, NEW u \in Admins, CliRead(r, op, u)
  PROVE  OneMoves(r)
<1>1. /\ ~Busy(r) /\ (op # "bootstrap" => users[u].exists)
      /\ req' = [req EXCEPT ![r] = [IdleReq EXCEPT !.pc = "loaded", !.op = op, !.by = u,
               !.tgt = u, !.seen = users[u]]]
  BY DEF CliRead
<1>2. /\ req'[r].pc = "loaded" /\ req'[r].op = op /\ req'[r].tgt = u
      /\ req'[r].seen = users[u]
      /\ req'[r].crossed = {} /\ DOMAIN req'[r] = Fields /\ DOMAIN req' = Requests
      /\ \A q \in Requests \ {r} : req'[q] = req[q]
  BY <1>1 DEF Rows, IdleReq, Fields
<1> QED BY <1>1, <1>2 DEF OneMoves, Rows, Moves, CliLoads

\* A live session's operator asks for something it may ask for.
LEMMA AdmitAsks ==
  ASSUME TypeInv, NEW r \in Requests, NEW s \in Sessions, NEW op, NEW permission, NEW tgt,
         NEW arg, Admit(r, s, op, permission, tgt, arg),
         op \in AccountOps \cup EditOps,
         op \in AccountOps => tgt \in Admins,
         op \in AccountOps \ {"password"} => permission = "admin_user:write",
         op \in {"create", "role"} => arg \in Role,
         op = "status" => arg \in BOOLEAN,
         op = "plan" => tgt \in Plans,
         op \in {"draft", "activate"} => tgt \in Shelves,
         op = "flag" => tgt \in Switches /\ arg \in {"on", "off"},
         op = "route" => tgt \in Routes /\ arg \in Prices
  PROVE  OneMoves(r)
<1>1. Rows /\ sess[s].state = "live" /\ sess[s].user \in Admins /\ ~Busy(r)
      /\ Allowed(sess[s].user, permission)
  BY DEF TypeInv, TablesOK, Admit
<1>2. /\ Rows'
      /\ req'[r].pc = "admitted" /\ req'[r].op = op /\ req'[r].by = sess[s].user
      /\ req'[r].needs = permission /\ req'[r].tgt = tgt
      /\ req'[r].arg = arg /\ req'[r].seen = users[sess[s].user]
      /\ req'[r].crossed = {}
      /\ \A q \in Requests \ {r} : req'[q] = req[q]
  BY <1>1, AdmitStarts
<1>3. CatalogTyped(req'[r])
  BY <1>2 DEF CatalogTyped
<1>4. Asks(r)
  BY <1>1, <1>2, <1>3 DEF Asks
<1> QED BY <1>2, <1>4 DEF OneMoves, Moves

LEMMA AskPasswordMoves ==
  ASSUME TypeInv, NEW r \in Requests, NEW s \in Sessions, AskPassword(r, s)
  PROVE  OneMoves(r)
<1>1. Admit(r, s, "password", "none", sess[s].user, None)
  BY DEF AskPassword
<1>2. sess[s].user \in Admins
  BY <1>1 DEF Admit, TypeInv, TablesOK
<1> QED BY <1>1, <1>2, AdmitAsks DEF AccountOps, EditOps

LEMMA AskAccountMoves ==
  ASSUME TypeInv, AdminAccountsAssumption,
         NEW r \in Requests, NEW s \in Sessions, NEW u \in Admins, AskAccount(r, s, u)
  PROVE  OneMoves(r)
<1>1. CASE \E role \in GrantedRoles, op \in {"create", "role"} :
             Admit(r, s, op, "admin_user:write", u, role)
  <2>1. PICK role \in GrantedRoles, op \in {"create", "role"} :
             Admit(r, s, op, "admin_user:write", u, role)
    BY <1>1
  <2>2. role \in Role
    BY DEF AdminAccountsAssumption
  <2> QED BY <2>1, <2>2, AdmitAsks DEF AccountOps, EditOps
<1>2. CASE \E status \in BOOLEAN : Admit(r, s, "status", "admin_user:write", u, status)
  BY <1>2, AdmitAsks DEF AccountOps, EditOps
<1>3. CASE Admit(r, s, "reset", "admin_user:write", u, None)
  BY <1>3, AdmitAsks DEF AccountOps, EditOps
<1> QED BY <1>1, <1>2, <1>3 DEF AskAccount

LEMMA AskEditMoves ==
  ASSUME TypeInv, NEW r \in Requests, NEW s \in Sessions, AskEdit(r, s)
  PROVE  OneMoves(r)
<1>1. CASE \E p \in Plans : Admit(r, s, "plan", "plan:write", p, None)
  BY <1>1, AdmitAsks DEF AccountOps, EditOps
<1>2. CASE \E k \in Shelves : \E permission : Admit(r, s, "draft", permission, k, None)
  BY <1>2, AdmitAsks DEF AccountOps, EditOps
<1>3. CASE \E k \in Shelves, v \in 1..MaxVersions : \E permission :
             Admit(r, s, "activate", permission, k, v)
  BY <1>3, AdmitAsks DEF AccountOps, EditOps
<1>4. CASE \E k \in Switches, on \in {"on", "off"} : Admit(r, s, "flag", "flag:write", k, on)
  BY <1>4, AdmitAsks DEF AccountOps, EditOps
<1>5. CASE \E k \in Routes, price \in Prices : Admit(r, s, "route", "model:write", k, price)
  BY <1>5, AdmitAsks DEF AccountOps, EditOps
<1>6. CASE \E d \in Documents, op \in {"delete", "reprocess"} :
             Admit(r, s, op, "document:write", d, None)
  BY <1>6, AdmitAsks DEF AccountOps, EditOps
<1>7. CASE Admit(r, s, "note", "student:write", None, None)
  BY <1>7, AdmitAsks DEF AccountOps, EditOps
<1>8. /\ Blocks \subseteq Shelves /\ Personas \subseteq Shelves
  BY DEF Shelves
<1> QED BY <1>1, <1>2, <1>3, <1>4, <1>5, <1>6, <1>7, <1>8 DEF AskEdit
-----------------------------------------------------------------------------
(* The steps, by what they do to the accounts.                              *)

\* A request with a session that has been let in.
UnderWay(q) ==
  req[q].pc \in {"admitted", "loaded", "changed"} /\ req[q].op \notin CliOps \cup {"login"}

\* At most one event is appended, by a request that ends with it.
Audits ==
  \/ audit' = audit
  \/ \E r \in Requests : \E field, before, after :
       UnderWay(r) /\ req'[r] = IdleReq /\ Record(r, field, before, after)

\* A step that leaves every account alone.
Quiet ==
  /\ users' = users /\ past' = past /\ SessKept /\ Rows'
  /\ \A q \in Requests : Kept(q) \/ Moves(q)
  /\ Audits

Creation(r, u) ==
  /\ ~users[u].exists /\ SessKept /\ Ends(r, <<"account", u>>)
  /\ \/ /\ Creates(u, req[r].arg) /\ Loaded(r, "create")
        /\ Record(r, "role", None, req[r].arg)
     \/ /\ \E role \in Role : Creates(u, role)
        /\ Loaded(r, "bootstrap") /\ audit' = audit

LEMMA SameSessions ==
  ASSUME TablesOK, sess' = sess
  PROVE  SessKept
  BY DEF SessKept, TablesOK

LEMMA OneMoveIsQuiet ==
  ASSUME TypeInv, NEW r \in Requests, OneMoves(r), users' = users, past' = past, SessKept,
         audit' = audit
  PROVE  Quiet
  BY SameIsKept DEF OneMoves, Quiet, Audits

LEMMA EndIsQuiet ==
  ASSUME TypeInv, NEW r \in Requests, NEW mark, Ends(r, mark), users' = users,
         past' = past, SessKept, Audits
  PROVE  Quiet
  BY DEF Ends, Quiet, Marked, Moves

LEMMA SignInSteps_Quiet ==
  ASSUME TypeInv, NEW r \in Requests,
         \/ \E u \in Admins, ip \in Ips : LoginThrottle(r, u, ip)
         \/ \E right \in BOOLEAN : LoginRead(r, right)
  PROVE  Quiet
<1>1. users' = users /\ past' = past /\ sess' = sess /\ audit' = audit
  BY DEF LoginThrottle, LoginRead
<1>2. SessKept
  BY <1>1, SameSessions DEF TypeInv
<1>3. req' = req \/ OneMoves(r)
  BY LoginThrottleMoves, LoginReadMoves DEF TypeInv
<1>4. CASE req' = req
  BY <1>1, <1>2, <1>4, SameMoves DEF Quiet, Audits, TypeInv
<1> QED BY <1>1, <1>2, <1>3, <1>4, OneMoveIsQuiet

LEMMA AccountSteps_Quiet ==
  ASSUME TypeInv, AdminAccountsAssumption, NEW r \in Requests,
         \/ \E s \in Sessions : AskPassword(r, s) \/ \E u \in Admins : AskAccount(r, s, u)
         \/ \E right, canonical \in BOOLEAN : LoadAccount(r, right, canonical)
         \/ \E op \in CliOps, u \in Admins : CliRead(r, op, u)
         \/ RequestDies(r)
  PROVE  Quiet
<1>1. users' = users /\ past' = past /\ sess' = sess /\ audit' = audit
  BY DEF AskPassword, AskAccount, LoadAccount, CliRead, RequestDies
<1>2. SessKept
  BY <1>1, SameSessions DEF TypeInv
<1>3. OneMoves(r)
  BY AskPasswordMoves, AskAccountMoves, LoadAccountMoves, CliReadMoves, DropMoves
     DEF TypeInv, RequestDies
<1> QED BY <1>1, <1>2, <1>3, OneMoveIsQuiet

LEMMA AuditPassword_Quiet ==
  ASSUME TypeInv, NEW r \in Requests, AuditPassword(r)
  PROVE  Quiet
<1>1. users' = users /\ past' = past /\ sess' = sess /\ Drop(r)
      /\ Record(r, "pw", None, None) /\ req[r].pc = "changed"
  BY DEF AuditPassword
<1>2. SessKept
  BY <1>1, SameSessions DEF TypeInv
<1>3. UnderWay(r)
  BY <1>1 DEF TypeInv, Typed, UnderWay, CliOps
<1>4. OneMoves(r) /\ req'[r] = IdleReq
  BY <1>1, DropMoves, DropKeeps DEF TypeInv
<1>5. Audits
  BY <1>1, <1>3, <1>4 DEF Audits
<1> QED BY <1>1, <1>2, <1>4, <1>5, SameIsKept DEF OneMoves, Quiet

\* A session that is revoked or grows older stays the same otherwise.
LEMMA SessionWrites ==
  ASSUME TablesOK, NEW s \in Sessions,
         \/ sess' = [sess EXCEPT ![s].state = "revoked"]
         \/ \E age \in {"fresh", "idle", "expired"} : sess' = [sess EXCEPT ![s].age = age]
  PROVE  SessKept
<1>1. sess[s] \in SessionRow
  BY DEF TablesOK
<1>2. PICK age \in {"fresh", "idle", "expired"} :
        \/ sess' = [sess EXCEPT ![s] = [sess[s] EXCEPT !.state = "revoked"]]
        \/ sess' = [sess EXCEPT ![s] = [sess[s] EXCEPT !.age = age]]
  OBVIOUS
<1>3. CASE sess' = [sess EXCEPT ![s] = [sess[s] EXCEPT !.state = "revoked"]]
  <2> DEFINE new == [sess[s] EXCEPT !.state = "revoked"]
  <2>1. new \in SessionRow /\ new.state = "revoked"
    BY <1>1, RevokedSession
  <2>2. sess' = [sess EXCEPT ![s] = new]
    BY <1>3
  <2> HIDE DEF new
  <2> QED BY <2>1, <2>2 DEF SessKept, TablesOK
<1>4. CASE sess' = [sess EXCEPT ![s] = [sess[s] EXCEPT !.age = age]]
  <2> DEFINE new == [sess[s] EXCEPT !.age = age]
  <2>1. /\ new \in SessionRow
        /\ new.state = sess[s].state /\ new.user = sess[s].user /\ new.pw = sess[s].pw
        /\ new.since = sess[s].since /\ new.made = sess[s].made
    BY <1>1, AgedSession
  <2>2. sess' = [sess EXCEPT ![s] = new]
    BY <1>4
  <2> HIDE DEF new
  <2> QED BY <2>1, <2>2 DEF SessKept, TablesOK
<1> QED BY <1>2, <1>3, <1>4

LEMMA TimeSteps_Quiet ==
  ASSUME TypeInv,
         \/ \E s \in Sessions : IdleTimeout(s) \/ Logout(s) \/ SessionAges(s)
         \/ \E ip \in Ips : WindowPasses(ip)
         \/ UNCHANGED vars
  PROVE  Quiet
<1>1. users' = users /\ past' = past /\ req' = req /\ audit' = audit
  BY DEF IdleTimeout, Logout, SessionAges, WindowPasses, vars, accountVars
<1>2. SessKept
  <2>1. CASE \E s \in Sessions : IdleTimeout(s) \/ Logout(s) \/ SessionAges(s)
    BY <2>1, SessionWrites DEF IdleTimeout, Logout, SessionAges, TypeInv
  <2>2. CASE (\E ip \in Ips : WindowPasses(ip)) \/ UNCHANGED vars
    BY <2>2, SameSessions DEF WindowPasses, vars, accountVars, TypeInv
  <2> QED BY <2>1, <2>2
<1>3. Rows
  BY DEF TypeInv
<1>4. Rows' /\ \A q \in Requests : Kept(q)
  BY <1>1, <1>3, SameIsKept DEF Rows
<1> QED BY <1>1, <1>2, <1>4 DEF Quiet, Audits
EditCommits(r) ==
  \/ UpsertPlan(r) \/ CreateDraft(r) \/ Activate(r) \/ SetFlag(r) \/ UpsertRoute(r)
  \/ DeleteDocument(r) \/ ReprocessDocument(r) \/ NoteOnly(r)

LEMMA Edits_Quiet ==
  ASSUME TypeInv, NEW r \in Requests,
         (\E s \in Sessions : AskEdit(r, s)) \/ LoadEdit(r) \/ EditCommits(r)
  PROVE  Quiet
<1>1. CASE (\E s \in Sessions : AskEdit(r, s)) \/ LoadEdit(r)
  <2>1. users' = users /\ past' = past /\ sess' = sess /\ audit' = audit
    BY <1>1 DEF AskEdit, LoadEdit
  <2>2. SessKept
    BY <2>1, SameSessions DEF TypeInv
  <2>3. OneMoves(r)
    BY <1>1, AskEditMoves, LoadEditMoves
  <2> QED BY <2>1, <2>2, <2>3, OneMoveIsQuiet
<1>2. CASE EditCommits(r)
  <2>1. req[r].pc = "loaded" /\ req[r].op \in EditOps
    BY <1>2 DEF EditCommits, UpsertPlan, CreateDraft, Activate, SetFlag, UpsertRoute,
                DeleteDocument, ReprocessDocument, NoteOnly, Loaded, EditOps
  <2>2. UnderWay(r)
    BY <2>1 DEF UnderWay, EditOps, CliOps
  <2>3. \/ Fails(r)
        \/ \E kind, field, before, after : Record(r, field, before, after) /\ Commits(r, kind)
    <3>1. CASE UpsertPlan(r) \/ CreateDraft(r)
      BY <3>1 DEF UpsertPlan, CreateDraft
    <3>2. CASE Activate(r)
      BY <3>2 DEF Activate
    <3>3. CASE SetFlag(r) \/ UpsertRoute(r)
      BY <3>3 DEF SetFlag, UpsertRoute
    <3>4. CASE DeleteDocument(r) \/ ReprocessDocument(r) \/ NoteOnly(r)
      BY <3>4 DEF DeleteDocument, ReprocessDocument, NoteOnly
    <3> QED BY <1>2, <3>1, <3>2, <3>3, <3>4 DEF EditCommits
  <2>4. CASE Fails(r)
    BY <2>4, SameSessions, DropMoves, OneMoveIsQuiet DEF Fails, TypeInv
  <2>5. CASE \E kind, field, before, after :
               Record(r, field, before, after) /\ Commits(r, kind)
    <3>1. PICK kind, field, before, after :
            Record(r, field, before, after) /\ Commits(r, kind)
      BY <2>5
    <3>2. users' = users /\ past' = past /\ SessKept
      BY <3>1, SeenKeeps DEF Commits, TypeInv
    <3>3. Ends(r, <<kind, req[r].tgt>>)
      BY <3>1, FinishMarks DEF Commits, Ends, TypeInv
    <3>4. Audits
      BY <2>2, <3>1, <3>3 DEF Audits, Ends
    <3> QED BY <3>2, <3>3, <3>4, EndIsQuiet
  <2> QED BY <2>3, <2>4, <2>5
<1> QED BY <1>1, <1>2

\* The steps that change some account.
AccountCommits(r) ==
  \/ WrongPassword(r)
  \/ \E s \in Sessions : SignIn(r, s)
  \/ ChangeRole(r) \/ SetStatus(r) \/ ResetPassword(r) \/ ChangePassword(r)
  \/ CliReset(r) \/ CliUnlock(r)
  \/ \E u \in Admins : u = req[r].tgt /\ Creation(r, u)

LEMMA CreationSteps ==
  ASSUME TypeInv, NEW r \in Requests,
         CreateAdmin(r) \/ \E role \in Role, must \in BOOLEAN : Bootstrap(r, role, must)
  PROVE  Quiet \/ AccountCommits(r)
<1> DEFINE u == req[r].tgt
<1>1. CASE CreateAdmin(r)
  <2>1. u \in Admins /\ SessKept
    BY <1>1, CreateAdminDoes
  <2>2. CASE users' = users /\ past' = past /\ sess' = sess /\ audit' = audit /\ Drop(r)
    BY <2>1, <2>2, DropMoves, OneMoveIsQuiet DEF TypeInv
  <2>3. CASE /\ ~users[u].exists /\ Creates(u, req[r].arg)
             /\ Ends(r, <<"account", u>>) /\ Record(r, "role", None, req[r].arg)
    <3>1. Loaded(r, "create")
      BY <1>1 DEF CreateAdmin
    <3> QED BY <2>1, <2>3, <3>1 DEF AccountCommits, Creation
  <2> QED BY <1>1, <2>2, <2>3, CreateAdminDoes
<1>2. CASE \E role \in Role, must \in BOOLEAN : Bootstrap(r, role, must)
  <2>1. PICK role \in Role, must \in BOOLEAN : Bootstrap(r, role, must)
    BY <1>2
  <2>2. u \in Admins /\ sess' = sess /\ audit' = audit
    BY <2>1, BootstrapDoes
  <2>3. SessKept
    BY <2>2, SameSessions DEF TypeInv
  <2>4. CASE users' = users /\ past' = past /\ Drop(r)
    BY <2>2, <2>3, <2>4, DropMoves, OneMoveIsQuiet DEF TypeInv
  <2>5. CASE ~users[u].exists /\ Creates(u, role) /\ Ends(r, <<"account", u>>)
    <3>1. Loaded(r, "bootstrap")
      BY <2>1 DEF Bootstrap
    <3> QED BY <2>2, <2>3, <2>5, <3>1 DEF AccountCommits, Creation
  <2> QED BY <2>1, <2>4, <2>5, BootstrapDoes
<1> QED BY <1>1, <1>2

LEMMA StepsOf ==
  ASSUME TypeInv, AdminAccountsAssumption, [Next]_vars
  PROVE  \/ Quiet
         \/ \E r \in Requests : AccountCommits(r)
         \/ \E u \in Admins : LockLapses(u)
<1>1. CASE AccountsNext
  <2>1. ASSUME NEW r \in Requests, SignInSteps(r)
        PROVE  Quiet \/ AccountCommits(r)
    BY <2>1, SignInSteps_Quiet DEF SignInSteps, AccountCommits
  <2>2. ASSUME NEW r \in Requests, AccountSteps(r)
        PROVE  Quiet \/ AccountCommits(r)
    <3>1. GrantedRoles \subseteq Role
      BY DEF AdminAccountsAssumption
    <3> QED BY <2>2, <3>1, AccountSteps_Quiet, AuditPassword_Quiet, CreationSteps
            DEF AccountSteps, AccountCommits, CliOps
  <2>3. ASSUME NEW r \in Requests, RequestDies(r)
        PROVE  Quiet
    BY <2>3, AccountSteps_Quiet
  <2>4. CASE TimeSteps
    BY <2>4, TimeSteps_Quiet DEF TimeSteps
  <2> QED BY <1>1, <2>1, <2>2, <2>3, <2>4 DEF AccountsNext
<1>2. CASE \E r \in Requests : EditSteps(r)
  BY <1>2, Edits_Quiet DEF EditSteps, EditCommits
<1>3. CASE UNCHANGED vars
  BY <1>3, TimeSteps_Quiet
<1> QED BY <1>1, <1>2, <1>3 DEF Next
-----------------------------------------------------------------------------
(* The effect of each of those commits, by the row of u, the target of r.   *)

Guesses(r, u) ==
  /\ Loaded(r, "login") /\ Touches(u) /\ SameRights(u) /\ SamePassword(u)
  /\ Ends(r, <<"login", u>>) /\ SessKept /\ audit' = audit
  /\ req[r].seen.failed \in Nat
  /\ users'[u].failed = req[r].seen.failed + 1
  /\ users'[u].lock = (IF LocksAt(req[r].seen.failed + 1) THEN "held" ELSE users[u].lock)
  /\ past'[u].guesses = past[u].guesses + 1
  /\ past'[u].crossed = (past[u].crossed \/ Overtaken(r, u))
  /\ past'[u].revoked = past[u].revoked

SignsIn(r, s, u) ==
  /\ Loaded(r, "login") /\ Touches(u) /\ SameRights(u) /\ Clears(r, u)
  /\ Ends(r, <<"login", u>>) /\ audit' = audit
  /\ users'[u].pw = (IF req[r].seen.weak THEN req[r].seen.pw ELSE users[u].pw)
  /\ past'[u].undone = (past[u].undone \/ users'[u].pw # users[u].pw)
  /\ past'[u].revoked = past[u].revoked
  /\ sess' \in [Sessions -> SessionRow]
  /\ \A t \in Sessions \ {s} : sess'[t] = sess[t]
  /\ sess'[s].user = u /\ sess'[s].pw = req[r].seen.pw
  /\ sess'[s].since = req[r].since /\ sess'[s].made = past[u].revoked

RoleChanges(r, u) ==
  /\ Loaded(r, "role")
  /\ Touches(u) /\ SameCount(u) /\ SameGuesses(u) /\ SamePassword(u)
  /\ users'[u].exists = users[u].exists /\ users'[u].active = users[u].active
  /\ users'[u].role = Assign(req[r].seen.role, req[r].arg, users[u].role)
  /\ past'[u].revoked = past[u].revoked + 1
  /\ SessRevoked(u) /\ Ends(r, <<"account", u>>)
  /\ Record(r, "role", req[r].seen.role, req[r].arg)

StatusChanges(r, u) ==
  /\ Loaded(r, "status")
  /\ Touches(u) /\ SameCount(u) /\ SameGuesses(u) /\ SamePassword(u)
  /\ users'[u].exists = users[u].exists /\ users'[u].role = users[u].role
  /\ users'[u].active = Assign(req[r].seen.active, req[r].arg, users[u].active)
  /\ \/ SessKept /\ past'[u].revoked = past[u].revoked
     \/ SessRevoked(u) /\ past'[u].revoked = past[u].revoked + 1
  /\ Ends(r, <<"account", u>>)
  /\ Record(r, "active", req[r].seen.active, req[r].arg)

PasswordResets(r, u) ==
  /\ \/ Loaded(r, "reset") /\ UnderWay(r) /\ Record(r, "pw", None, None)
     \/ Loaded(r, "cli_reset") /\ audit' = audit
  /\ Resets(r, u) /\ SessRevoked(u) /\ Ends(r, <<"account", u>>)

PasswordChanges(r, u) ==
  /\ Loaded(r, "password")
  /\ Touches(u) /\ SameRights(u) /\ SameCount(u) /\ SameGuesses(u)
  /\ past'[u].revoked = past[u].revoked + 1 /\ past'[u].undone = past[u].undone
  /\ SessRevoked(u) /\ audit' = audit
  /\ Rows' /\ req'[r].pc = "changed" /\ req'[r].op = "password"
  /\ req'[r].by = req[r].by /\ req'[r].needs = req[r].needs
  /\ req[r].crossed \subseteq req'[r].crossed
  /\ \A q \in Requests \ {r} : Marked(q, <<"account", u>>)

IsUnlocked(r, u) ==
  /\ Loaded(r, "unlock") /\ Unlocks(r, u)
  /\ SessKept /\ Ends(r, <<"account", u>>) /\ audit' = audit

Lapses(u) ==
  /\ Touches(u) /\ SameRights(u) /\ SamePassword(u) /\ SameGuesses(u)
  /\ users'[u].failed = users[u].failed /\ users'[u].lock = "lapsed"
  /\ past' = past /\ SessKept /\ req' = req /\ audit' = audit

Effect(r, u) ==
  \/ Guesses(r, u)
  \/ \E s \in Sessions : SignsIn(r, s, u)
  \/ RoleChanges(r, u) \/ StatusChanges(r, u) \/ PasswordResets(r, u)
  \/ PasswordChanges(r, u) \/ IsUnlocked(r, u) \/ Creation(r, u)

LEMMA CommitEffects ==
  ASSUME TypeInv, NEW r \in Requests, NEW u, u = req[r].tgt, AccountCommits(r)
  PROVE  u \in Admins /\ Effect(r, u)
<1>1. sess' = sess => SessKept
  BY SameSessions DEF TypeInv
<1>2. CASE WrongPassword(r)
  <2>1. Loaded(r, "login") /\ audit' = audit
    BY <1>2 DEF WrongPassword, Loaded
  <2>2. u \in Admins /\ Guesses(r, u)
    BY <1>1, <1>2, <2>1, WrongPasswordDoes DEF Guesses
  <2> QED BY <2>2 DEF Effect
<1>3. CASE \E s \in Sessions : SignIn(r, s)
  <2>1. PICK s \in Sessions : SignIn(r, s)
    BY <1>3
  <2>2. Loaded(r, "login") /\ audit' = audit
    BY <2>1 DEF SignIn, Loaded
  <2>3. u \in Admins /\ SignsIn(r, s, u)
    BY <2>1, <2>2, SignInDoes DEF SignsIn
  <2> QED BY <2>3 DEF Effect
<1>4. CASE ChangeRole(r)
  <2>1. Loaded(r, "role")
    BY <1>4 DEF ChangeRole
  <2>2. u \in Admins /\ RoleChanges(r, u)
    BY <1>4, <2>1, ChangeRoleDoes DEF RoleChanges
  <2> QED BY <2>2 DEF Effect
<1>5. CASE SetStatus(r)
  <2>1. Loaded(r, "status")
    BY <1>5 DEF SetStatus
  <2>2. u \in Admins /\ StatusChanges(r, u)
    BY <1>5, <2>1, SetStatusDoes DEF StatusChanges
  <2> QED BY <2>2 DEF Effect
<1>6. CASE ResetPassword(r)
  <2>1. Loaded(r, "reset") /\ UnderWay(r)
    BY <1>6 DEF ResetPassword, Loaded, UnderWay, CliOps
  <2>2. u \in Admins /\ PasswordResets(r, u)
    BY <1>6, <2>1, ResetPasswordDoes DEF PasswordResets
  <2> QED BY <2>2 DEF Effect
<1>7. CASE ChangePassword(r)
  <2>1. Loaded(r, "password")
    BY <1>7 DEF ChangePassword
  <2>2. u \in Admins /\ PasswordChanges(r, u)
    BY <1>7, <2>1, ChangePasswordDoes DEF PasswordChanges
  <2> QED BY <2>2 DEF Effect
<1>8. CASE CliReset(r)
  <2>1. Loaded(r, "cli_reset")
    BY <1>8 DEF CliReset
  <2>2. u \in Admins /\ PasswordResets(r, u)
    BY <1>8, <2>1, CliResetDoes DEF PasswordResets
  <2> QED BY <2>2 DEF Effect
<1>9. CASE CliUnlock(r)
  <2>1. Loaded(r, "unlock")
    BY <1>9 DEF CliUnlock
  <2>2. u \in Admins /\ IsUnlocked(r, u)
    BY <1>1, <1>9, <2>1, CliUnlockDoes DEF IsUnlocked
  <2> QED BY <2>2 DEF Effect
<1>10. CASE \E v \in Admins : v = req[r].tgt /\ Creation(r, v)
  BY <1>10 DEF Effect
<1> QED BY <1>2, <1>3, <1>4, <1>5, <1>6, <1>7, <1>8, <1>9, <1>10 DEF AccountCommits

LEMMA EffectsOf ==
  ASSUME TypeInv, AdminAccountsAssumption, [Next]_vars
  PROVE  \/ Quiet
         \/ \E r \in Requests, u \in Admins : u = req[r].tgt /\ Effect(r, u)
         \/ \E u \in Admins : Lapses(u)
<1>1. ASSUME NEW u \in Admins, LockLapses(u)
      PROVE  Lapses(u)
  BY <1>1, LockLapsesDoes, SameSessions DEF Lapses, TypeInv
<1> QED BY <1>1, StepsOf, CommitEffects

LEMMA EffectTouches ==
  ASSUME NEW r, NEW u, Effect(r, u)
  PROVE  /\ Touches(u)
         /\ Ends(r, <<"login", u>>) \/ Ends(r, <<"account", u>>) \/ PasswordChanges(r, u)
         /\ SessKept \/ \E s \in Sessions : SignsIn(r, s, u)
         /\ SameRights(u) \/ Ends(r, <<"account", u>>)
<1>1. CASE Guesses(r, u)
  BY <1>1 DEF Guesses
<1>2. CASE \E s \in Sessions : SignsIn(r, s, u)
  BY <1>2 DEF SignsIn
<1>3. CASE RoleChanges(r, u) \/ StatusChanges(r, u)
  BY <1>3 DEF RoleChanges, StatusChanges, SessRevoked
<1>4. CASE PasswordResets(r, u)
  BY <1>4 DEF PasswordResets, Resets, SessRevoked
<1>5. CASE PasswordChanges(r, u)
  BY <1>5 DEF PasswordChanges, SessRevoked
<1>6. CASE IsUnlocked(r, u)
  BY <1>6 DEF IsUnlocked, Unlocks
<1>7. CASE Creation(r, u)
  BY <1>7 DEF Creation, Creates
<1> QED BY <1>1, <1>2, <1>3, <1>4, <1>5, <1>6, <1>7 DEF Effect

-----------------------------------------------------------------------------
(* Every variable keeps its shape.                                          *)

LEMMA MovesTyped ==
  ASSUME TypeInv, NEW q \in Requests, Moves(q)
  PROVE  Typed(req'[q])
<1>1. Typed(req[q]) /\ \A u \in Admins : users[u] \in UserRow /\ past[u].revoked \in Nat
  BY DEF TypeInv, TablesOK, PastRow
<1>2. CASE req'[q] = IdleReq
  BY <1>2, IdleIsTyped
<1>3. CASE LoginBegins(q)
  BY <1>3 DEF LoginBegins, Typed, CliOps, AccountOps, EditOps, Stages
<1>4. CASE LoginLoads(q)
  BY <1>1, <1>4 DEF LoginLoads, Typed, CatalogTyped, CliOps, AccountOps, EditOps, Stages
<1>5. CASE Asks(q)
  BY <1>1, <1>5 DEF Asks, Typed, Stages
<1>6. CASE AccountLoads(q)
  <2>1. req'[q].seen \in UserRow
    BY <1>1, <1>6 DEF AccountLoads, ReadsOn, Typed
  <2> QED BY <1>1, <1>6, <2>1
          DEF AccountLoads, ReadsOn, Typed, CatalogTyped, CliOps, AccountOps, Stages
<1>7. CASE EditLoads(q)
  BY <1>1, <1>7 DEF EditLoads, ReadsOn, Typed, CatalogTyped, CliOps, AccountOps, EditOps, Stages
<1>8. CASE CliLoads(q)
  BY <1>1, <1>8 DEF CliLoads, Typed, CatalogTyped, CliOps, AccountOps, EditOps, Stages
<1> QED BY <1>2, <1>3, <1>4, <1>5, <1>6, <1>7, <1>8 DEF Moves

LEMMA EndsTyped ==
  ASSUME TypeInv, NEW r \in Requests, NEW mark, Ends(r, mark)
  PROVE  Rows' /\ \A q \in Requests : Typed(req'[q])
  BY IdleIsTyped, KeptIsTyped DEF TypeInv, Ends, Marked

LEMMA TriesTyped ==
  ASSUME TypeInv, [Next]_vars
  PROVE  tries' \in [Ips -> Nat]
<1>1. tries \in [Ips -> Nat]
  BY DEF TypeInv, TablesOK
<1>2. ASSUME NEW ip, FailedAttempt(ip)
      PROVE  tries' \in [Ips -> Nat]
  <2> DEFINE n == IF ip = NoIp THEN tries[ip] ELSE tries[ip] + 1
  <2>1. tries' = [tries EXCEPT ![ip] = n]
    BY <1>2 DEF FailedAttempt
  <2>2. CASE ip \in Ips
    <3>1. n \in Nat
      BY <1>1, <2>2
    <3> HIDE DEF n
    <3> QED BY <1>1, <2>1, <3>1
  <2>3. CASE ip \notin Ips
    <3> HIDE DEF n
    <3> QED BY <1>1, <2>1, <2>3
  <2> QED BY <2>2, <2>3
<1>3. CASE AccountsNext
  <2>1. ASSUME NEW r \in Requests, SignInSteps(r)
        PROVE  tries' \in [Ips -> Nat]
    BY <1>1, <1>2, <2>1 DEF SignInSteps, LoginThrottle, LoginRead, WrongPassword, SignIn
  <2>2. ASSUME NEW r \in Requests, AccountSteps(r) \/ RequestDies(r)
        PROVE  tries' = tries
    BY <2>2 DEF AccountSteps, RequestDies, AskPassword, AskAccount, LoadAccount, CreateAdmin,
                ChangeRole, SetStatus, ResetPassword, ChangePassword, AuditPassword, CliRead,
                Bootstrap, CliReset, CliUnlock
  <2>3. CASE TimeSteps
    BY <1>1, <2>3 DEF TimeSteps, IdleTimeout, Logout, SessionAges, LockLapses, WindowPasses
  <2> QED BY <1>1, <1>3, <2>1, <2>2, <2>3 DEF AccountsNext
<1>4. ASSUME NEW r \in Requests, EditSteps(r)
      PROVE  tries' = tries
  BY <1>4 DEF EditSteps, AskEdit, LoadEdit, UpsertPlan, CreateDraft, Activate, SetFlag,
              UpsertRoute, DeleteDocument, ReprocessDocument, NoteOnly, Commits, Fails
<1> QED BY <1>1, <1>3, <1>4 DEF Next, vars, accountVars

\* A step that edits the catalog, and every other step.
LEMMA CatalogSteps ==
  ASSUME [Next]_vars
  PROVE  \/ UNCHANGED catalogVars
         \/ \E r \in Requests : EditCommits(r)
<1>1. ASSUME NEW r \in Requests, EditSteps(r)
      PROVE  UNCHANGED catalogVars \/ EditCommits(r)
  BY <1>1 DEF EditSteps, AskEdit, LoadEdit, EditCommits
<1> QED BY <1>1 DEF Next, vars

LEMMA DraftAdded ==
  ASSUME TypeInv, NEW r \in Requests, CreateDraft(r), NEW k, k = req[r].tgt,
         ~Fails(r)
  PROVE  /\ k \in Shelves /\ mixed' = mixed
         /\ shelf' = [shelf EXCEPT ![k] = Append(shelf[k], "draft")]
         /\ plans' = plans /\ flags' = flags /\ routes' = routes
         /\ Finish(r, <<"draft", k>>)
         /\ Record(r, "draft", req[r].seen, req[r].seen + 1)
<1>1. k \in Shelves
  BY DEF TypeInv, Typed, CatalogTyped, CreateDraft, Loaded
<1> QED BY <1>1 DEF CreateDraft, Commits, TypeInv, TablesOK

LEMMA ActivatedShelf ==
  ASSUME TypeInv, NEW r \in Requests, Activate(r), NEW k, k = req[r].tgt
  PROVE  /\ k \in Shelves
         /\ Activated(r, k) \in Seq({"draft", "active", "retired"})
         /\ shelf' = [shelf EXCEPT ![k] = Activated(r, k)]
<1>1. k \in Shelves
  BY DEF TypeInv, Typed, CatalogTyped, Activate, Loaded
<1>2. shelf[k] \in Seq({"draft", "active", "retired"})
  BY <1>1 DEF TypeInv, TablesOK
<1>3. DOMAIN shelf[k] = 1..Len(shelf[k]) /\ Len(shelf[k]) \in Nat
  BY <1>2
<1>4. \A v \in DOMAIN shelf[k] : shelf[k][v] \in {"draft", "active", "retired"}
  BY <1>2
<1>5. Activated(r, k) \in [1..Len(shelf[k]) -> {"draft", "active", "retired"}]
  BY <1>3, <1>4 DEF Activated, Assign, StoodDown
<1>6. Activated(r, k) \in Seq({"draft", "active", "retired"})
  BY <1>3, <1>5
<1> QED BY <1>1, <1>6 DEF Activate

LEMMA CatalogKeepsTypes ==
  ASSUME TypeInv, [Next]_vars
  PROVE  /\ plans' \in [Plans -> Nat]
         /\ shelf' \in [Shelves -> Seq({"draft", "active", "retired"})]
         /\ mixed' \subseteq Shelves
         /\ flags' \in [Switches -> {"unset", "on", "off"}]
         /\ routes' \in [Routes -> Prices \cup {"unset"}]
<1>1. /\ plans \in [Plans -> Nat]
      /\ shelf \in [Shelves -> Seq({"draft", "active", "retired"})]
      /\ mixed \subseteq Shelves
      /\ flags \in [Switches -> {"unset", "on", "off"}]
      /\ routes \in [Routes -> Prices \cup {"unset"}]
  BY DEF TypeInv, TablesOK
<1>2. CASE UNCHANGED catalogVars
  BY <1>1, <1>2 DEF catalogVars
<1>3. ASSUME NEW r \in Requests, EditCommits(r), Fails(r)
      PROVE  UNCHANGED catalogVars
  BY <1>3 DEF Fails
<1>4. ASSUME NEW r \in Requests, UpsertPlan(r), ~Fails(r)
      PROVE  /\ plans' \in [Plans -> Nat]
             /\ shelf' = shelf /\ mixed' = mixed /\ flags' = flags /\ routes' = routes
  <2>1. req[r].tgt \in Plans
    BY <1>4 DEF UpsertPlan, Loaded, TypeInv, Typed, CatalogTyped
  <2>2. /\ plans[req[r].tgt] = req[r].seen
        /\ plans' = [plans EXCEPT ![req[r].tgt] = req[r].seen + 1]
        /\ shelf' = shelf /\ mixed' = mixed /\ flags' = flags /\ routes' = routes
    BY <1>4 DEF UpsertPlan
  <2>3. req[r].seen + 1 \in Nat
    BY <1>1, <2>1, <2>2
  <2> QED BY <1>1, <2>2, <2>3
<1>5. ASSUME NEW r \in Requests, CreateDraft(r), ~Fails(r)
      PROVE  /\ shelf' \in [Shelves -> Seq({"draft", "active", "retired"})]
             /\ plans' = plans /\ mixed' = mixed /\ flags' = flags /\ routes' = routes
  <2> DEFINE k == req[r].tgt
  <2>1. /\ k \in Shelves /\ mixed' = mixed
        /\ shelf' = [shelf EXCEPT ![k] = Append(shelf[k], "draft")]
        /\ plans' = plans /\ flags' = flags /\ routes' = routes
    BY <1>5, DraftAdded
  <2>2. Append(shelf[k], "draft") \in Seq({"draft", "active", "retired"})
    BY <1>1, <2>1
  <2> QED BY <1>1, <2>1, <2>2
<1>6. ASSUME NEW r \in Requests, Activate(r)
      PROVE  /\ shelf' \in [Shelves -> Seq({"draft", "active", "retired"})]
             /\ mixed' \subseteq Shelves
             /\ plans' = plans /\ flags' = flags /\ routes' = routes
  <2> DEFINE k == req[r].tgt
  <2>1. /\ k \in Shelves
        /\ Activated(r, k) \in Seq({"draft", "active", "retired"})
        /\ shelf' = [shelf EXCEPT ![k] = Activated(r, k)]
    BY <1>6, ActivatedShelf
  <2>2. /\ mixed' = mixed \cup {k} \/ mixed' = mixed \ {k}
        /\ plans' = plans /\ flags' = flags /\ routes' = routes
    BY <1>6 DEF Activate
  <2> QED BY <1>1, <2>1, <2>2
<1>7. ASSUME NEW r \in Requests, SetFlag(r), ~Fails(r)
      PROVE  /\ flags' \in [Switches -> {"unset", "on", "off"}]
             /\ plans' = plans /\ shelf' = shelf /\ mixed' = mixed /\ routes' = routes
  <2>1. req[r].tgt \in Switches /\ req[r].arg \in {"on", "off"}
    BY <1>7 DEF SetFlag, Loaded, TypeInv, Typed, CatalogTyped
  <2> QED BY <1>1, <1>7, <2>1 DEF SetFlag, Upserted, Assign
<1>8. ASSUME NEW r \in Requests, UpsertRoute(r), ~Fails(r)
      PROVE  /\ routes' \in [Routes -> Prices \cup {"unset"}]
             /\ plans' = plans /\ shelf' = shelf /\ mixed' = mixed /\ flags' = flags
  <2>1. req[r].tgt \in Routes /\ req[r].arg \in Prices
    BY <1>8 DEF UpsertRoute, Loaded, TypeInv, Typed, CatalogTyped
  <2> QED BY <1>1, <1>8, <2>1 DEF UpsertRoute, Upserted, Assign
<1>9. ASSUME NEW r \in Requests, DeleteDocument(r) \/ ReprocessDocument(r) \/ NoteOnly(r)
      PROVE  plans' = plans /\ shelf' = shelf /\ mixed' = mixed /\ flags' = flags
             /\ routes' = routes
  BY <1>9 DEF DeleteDocument, ReprocessDocument, NoteOnly, catalogVars
<1>10. CASE \E r \in Requests : EditCommits(r)
  <2>1. PICK r \in Requests : EditCommits(r)
    BY <1>10
  <2>2. CASE Fails(r)
    BY <1>2, <1>3, <2>1, <2>2 DEF catalogVars, Fails
  <2>3. CASE ~Fails(r)
    BY <1>1, <1>4, <1>5, <1>6, <1>7, <1>8, <1>9, <2>1, <2>3 DEF EditCommits
  <2> QED BY <2>2, <2>3
<1> QED BY <1>2, <1>10, CatalogSteps

\* The accounts and the sessions after any step.
LEMMA AccountsKeepTypes ==
  ASSUME TypeInv, AdminAccountsAssumption, [Next]_vars
  PROVE  /\ users' \in [Admins -> UserRow] /\ past' \in [Admins -> PastRow]
         /\ sess' \in [Sessions -> SessionRow]
         /\ \A s \in Sessions : sess'[s].state = "live" => sess'[s].user \in Admins
         /\ Rows' /\ \A q \in Requests : Typed(req'[q])
<1>1. /\ users \in [Admins -> UserRow] /\ past \in [Admins -> PastRow]
      /\ sess \in [Sessions -> SessionRow]
      /\ \A s \in Sessions : sess[s].state = "live" => sess[s].user \in Admins
      /\ Rows /\ \A q \in Requests : Typed(req[q])
  BY DEF TypeInv, TablesOK
<1>2. SessKept => /\ sess' \in [Sessions -> SessionRow]
                  /\ \A s \in Sessions : sess'[s].state = "live" => sess'[s].user \in Admins
  BY <1>1 DEF SessKept
<1>3. sess' = sess => SessKept
  BY SameSessions DEF TypeInv
<1>4. CASE Quiet
  BY <1>1, <1>2, <1>4, MovesTyped, KeptIsTyped DEF Quiet
<1>5. CASE \E u \in Admins : Lapses(u)
  BY <1>1, <1>2, <1>5 DEF Lapses, Touches, Rows
<1>6. ASSUME NEW r \in Requests, NEW u \in Admins, Effect(r, u)
      PROVE  /\ users' \in [Admins -> UserRow] /\ past' \in [Admins -> PastRow]
             /\ sess' \in [Sessions -> SessionRow]
             /\ \A s \in Sessions : sess'[s].state = "live" => sess'[s].user \in Admins
             /\ Rows' /\ \A q \in Requests : Typed(req'[q])
  <2>1. Touches(u)
    BY <1>6, EffectTouches
  <2>2. /\ sess' \in [Sessions -> SessionRow]
        /\ \A s \in Sessions : sess'[s].state = "live" => sess'[s].user \in Admins
    <3>1. CASE SessKept
      BY <1>2, <3>1
    <3>2. CASE \E s \in Sessions : SignsIn(r, s, u)
      BY <1>1, <3>2 DEF SignsIn
    <3> QED BY <1>6, <3>1, <3>2, EffectTouches
  <2>3. Rows' /\ \A q \in Requests : Typed(req'[q])
    <3>1. CASE Ends(r, <<"login", u>>) \/ Ends(r, <<"account", u>>)
      BY <3>1, EndsTyped
    <3>2. CASE PasswordChanges(r, u)
      <4>1. req[r].by \in Admins
        BY <1>1, <3>2 DEF PasswordChanges, Loaded, Typed, CliOps
      <4>2. Typed(req'[r])
        BY <3>2, <4>1 DEF PasswordChanges, Typed, Stages
      <4> QED BY <1>1, <3>2, <4>2, KeptIsTyped DEF PasswordChanges, Marked
    <3> QED BY <1>6, <3>1, <3>2, EffectTouches
  <2> QED BY <2>1, <2>2, <2>3 DEF Touches
<1> QED BY <1>4, <1>5, <1>6, EffectsOf

LEMMA TypeStep ==
  ASSUME TypeInv, AdminAccountsAssumption, [Next]_vars
  PROVE  TypeInv'
<1>1. TablesOK'
  BY AccountsKeepTypes, CatalogKeepsTypes, TriesTyped DEF TablesOK
<1>2. (\A r \in Requests : Typed(req[r]))' /\ Rows'
  BY AccountsKeepTypes
<1> QED BY <1>1, <1>2 DEF TypeInv

LEMMA TypeInit ==
  ASSUME Init, AdminAccountsAssumption, AdminPanelAssumption
  PROVE  TypeInv
<1>1. PICK staff \in Rosters :
        users = [u \in Admins |->
                  IF u \in staff
                  THEN [NoAdmin EXCEPT !.exists = TRUE, !.role = "SUPER_ADMIN",
                                       !.active = TRUE, !.weak = TRUE]
                  ELSE NoAdmin]
  BY DEF Init, AccountsInit
<1>2. users \in [Admins -> UserRow]
  BY <1>1 DEF NoAdmin, UserRow, Role
<1>3. /\ sess \in [Sessions -> SessionRow] /\ \A s \in Sessions : sess[s].state # "live"
      /\ tries \in [Ips -> Nat] /\ past \in [Admins -> PastRow]
  BY DEF Init, AccountsInit, Unissued, SessionRow, PastRow
<1>4. Rows /\ \A r \in Requests : Typed(req[r])
  BY IdleIsTyped DEF Init, AccountsInit, Rows
<1>5. /\ plans \in [Plans -> Nat]
      /\ shelf \in [Shelves -> Seq({"draft", "active", "retired"})]
      /\ mixed \subseteq Shelves
      /\ flags \in [Switches -> {"unset", "on", "off"}]
      /\ routes \in [Routes -> Prices \cup {"unset"}]
  BY DEF Init, AdminPanelAssumption
<1> QED BY <1>2, <1>3, <1>4, <1>5 DEF TypeInv, TablesOK

LEMMA TypesInvariant == Spec => []TypeInv
<1>1. Init => TypeInv
  BY TypeInit, AdminAccountsAssumption, AdminPanelAssumption
<1>2. TypeInv /\ [Next]_vars => TypeInv'
  BY TypeStep, AdminAccountsAssumption
<1> QED BY <1>1, <1>2, PTL DEF Spec

\* The rows of the panel keep their columns' types, whatever operators do and
\* whatever the bounds on their day (db/models.py, as the handlers fill them).
THEOREM PanelTypes == Spec => []TypeOK
<1>1. TypeInv => TypeOK
  BY DEF TypeInv, TypeOK, TablesOK, Typed, Stages, UserRow, SessionRow
<1> QED BY <1>1, TypesInvariant, PTL
-----------------------------------------------------------------------------
(* Rights end with the request.                                             *)

\* A request that is under way may still do what it asked for, unless its
\* operator's account was changed since it was let in.
StillAllowed(q) ==
  UnderWay(q) => Allowed(req[q].by, req[q].needs) \/ <<"account", req[q].by>> \in req[q].crossed

AuditIsASeq == \E S : audit \in Seq(S)

RightsInv ==
  /\ TypeInv
  /\ AuditIsASeq
  /\ \A q \in Requests : StillAllowed(q)
  /\ RevokedRightsEndWithTheRequest

\* Whoever changes the rights of an account leaves a mark on the requests.
RightsMarked ==
  \A v \in Admins :
    \/ users'[v].role = users[v].role /\ users'[v].active = users[v].active
    \/ \A q \in Requests : UnderWay(q) /\ req'[q] # IdleReq => <<"account", v>> \in req'[q].crossed

LEMMA RightsAreMarked ==
  ASSUME TypeInv, AdminAccountsAssumption, [Next]_vars
  PROVE  RightsMarked
<1>1. CASE Quiet
  BY <1>1 DEF Quiet, RightsMarked
<1>2. CASE \E u \in Admins : Lapses(u)
  BY <1>2 DEF Lapses, RightsMarked, Touches, SameRights
<1>3. ASSUME NEW r \in Requests, NEW u \in Admins, Effect(r, u)
      PROVE  RightsMarked
  <2>1. Touches(u)
    BY <1>3, EffectTouches
  <2>2. CASE SameRights(u)
    BY <2>1, <2>2 DEF RightsMarked, Touches, SameRights
  <2>3. CASE Ends(r, <<"account", u>>)
    BY <2>1, <2>3 DEF RightsMarked, Touches, Ends, Marked, UnderWay, Busy
  <2> QED BY <1>3, <2>2, <2>3, EffectTouches
<1> QED BY <1>1, <1>2, <1>3, EffectsOf

\* What any step does to a request.
Goes(q) ==
  \/ Kept(q) \/ Moves(q)
  \/ /\ Loaded(q, "password") /\ req'[q].pc = "changed" /\ req'[q].op = "password"
     /\ req'[q].by = req[q].by /\ req'[q].needs = req[q].needs
     /\ req[q].crossed \subseteq req'[q].crossed

LEMMA RequestsGo ==
  ASSUME TypeInv, AdminAccountsAssumption, [Next]_vars
  PROVE  \A q \in Requests : Goes(q)
<1>1. CASE Quiet
  BY <1>1 DEF Quiet, Goes
<1>2. CASE \E u \in Admins : Lapses(u)
  BY <1>2, SameIsKept DEF Lapses, Goes
<1>3. ASSUME NEW r \in Requests, NEW u \in Admins, Effect(r, u), NEW q \in Requests
      PROVE  Goes(q)
  <2>1. CASE Ends(r, <<"login", u>>) \/ Ends(r, <<"account", u>>)
    BY <2>1 DEF Ends, Marked, Goes, Moves
  <2>2. CASE PasswordChanges(r, u)
    BY <2>2 DEF PasswordChanges, Marked, Goes
  <2> QED BY <1>3, <2>1, <2>2, EffectTouches
<1> QED BY <1>1, <1>2, <1>3, EffectsOf

\* Nothing is committed by the step in which a request asks or reads.
LEMMA ReadersAreQuiet ==
  ASSUME TypeInv, AdminAccountsAssumption, [Next]_vars,
         NEW q \in Requests, Moves(q), req'[q] # IdleReq
  PROVE  users' = users /\ past' = past
<1>1. req'[q].pc # req[q].pc /\ req'[q].pc # "changed"
  BY DEF Moves, LoginBegins, LoginLoads, Asks, AccountLoads, EditLoads, ReadsOn, CliLoads, Busy
<1>2. CASE \E u \in Admins : Lapses(u)
  BY <1>1, <1>2 DEF Lapses
<1>3. ASSUME NEW r \in Requests, NEW u \in Admins, Effect(r, u)
      PROVE  FALSE
  <2>1. CASE Ends(r, <<"login", u>>) \/ Ends(r, <<"account", u>>)
    BY <1>1, <2>1 DEF Ends, Marked, Kept
  <2>2. CASE PasswordChanges(r, u)
    BY <1>1, <2>2 DEF PasswordChanges, Marked, Kept
  <2> QED BY <1>3, <2>1, <2>2, EffectTouches
<1> QED BY <1>2, <1>3, EffectsOf DEF Quiet

\* Every event is written by a request under way, in its last transaction.
LEMMA EventsAreOfRequests ==
  ASSUME TypeInv, AdminAccountsAssumption, [Next]_vars
  PROVE  Audits
<1>1. CASE Quiet \/ \E u \in Admins : Lapses(u)
  BY <1>1 DEF Quiet, Lapses, Audits
<1>2. ASSUME NEW r \in Requests, NEW u \in Admins, Effect(r, u)
      PROVE  Audits
  <2>1. CASE RoleChanges(r, u)
    BY <2>1 DEF RoleChanges, Audits, UnderWay, Loaded, CliOps, Ends
  <2>2. CASE StatusChanges(r, u)
    BY <2>2 DEF StatusChanges, Audits, UnderWay, Loaded, CliOps, Ends
  <2>3. CASE PasswordResets(r, u)
    BY <2>3 DEF PasswordResets, Audits, Ends
  <2>4. CASE Creation(r, u)
    BY <2>4 DEF Creation, Audits, UnderWay, Loaded, CliOps, Ends
  <2>5. CASE \/ Guesses(r, u) \/ (\E s \in Sessions : SignsIn(r, s, u))
             \/ PasswordChanges(r, u) \/ IsUnlocked(r, u)
    BY <2>5 DEF Guesses, SignsIn, PasswordChanges, IsUnlocked, Audits
  <2> QED BY <1>2, <2>1, <2>2, <2>3, <2>4, <2>5 DEF Effect
<1> QED BY <1>1, <1>2, EffectsOf

LEMMA AuditGrows ==
  ASSUME AuditIsASeq, NEW r, NEW field, NEW before, NEW after, Record(r, field, before, after)
  PROVE  /\ AuditIsASeq'
         /\ Len(audit) \in Nat /\ Len(audit') = Len(audit) + 1
         /\ DOMAIN audit = 1..Len(audit)
         /\ DOMAIN audit' = DOMAIN audit \cup {Len(audit) + 1}
         /\ \A i \in DOMAIN audit : audit'[i] = audit[i]
         /\ audit'[Len(audit) + 1] = Entry(r, field, before, after)
<1> DEFINE e == Entry(r, field, before, after)
<1>1. PICK S : audit \in Seq(S)
  BY DEF AuditIsASeq
<1>2. audit' = Append(audit, e)
  BY DEF Record
<1> HIDE DEF e
<1>3. audit \in Seq(S \cup {e})
  BY <1>1
<1>4. audit' \in Seq(S \cup {e})
  BY <1>2, <1>3
<1>5. AuditIsASeq'
  BY <1>4 DEF AuditIsASeq
<1>6. /\ Len(audit) \in Nat /\ Len(audit') = Len(audit) + 1
      /\ DOMAIN audit = 1..Len(audit) /\ DOMAIN audit' = 1..Len(audit')
      /\ \A i \in DOMAIN audit : audit'[i] = audit[i]
      /\ audit'[Len(audit) + 1] = e
  BY <1>2, <1>3
<1>7. DOMAIN audit' = DOMAIN audit \cup {Len(audit) + 1}
  BY <1>6
<1> QED BY <1>5, <1>6, <1>7 DEF e

LEMMA RightsStep ==
  ASSUME RightsInv, AdminAccountsAssumption, [Next]_vars
  PROVE  RightsInv'
<1>1. TypeInv /\ TypeInv'
  BY TypeStep DEF RightsInv
<1>2. ASSUME NEW q \in Requests
      PROVE  StillAllowed(q)'
  <2>1. SUFFICES ASSUME UnderWay(q)'
                 PROVE  (Allowed(req[q].by, req[q].needs)
                           \/ <<"account", req[q].by>> \in req[q].crossed)'
    BY DEF StillAllowed
  <2>2. req'[q] # IdleReq
    BY <2>1, IdleIsTyped DEF UnderWay
  <2>3. \/ Asks(q)
        \/ /\ UnderWay(q) /\ req'[q].by = req[q].by /\ req'[q].needs = req[q].needs
           /\ req[q].crossed \subseteq req'[q].crossed
    <3>1. CASE Kept(q)
      BY <2>1, <3>1 DEF Kept, UnderWay
    <3>2. CASE Moves(q)
      BY <2>1, <2>2, <3>2, OpsDiffer DEF Moves, LoginBegins, LoginLoads, AccountLoads, EditLoads,
                                ReadsOn, CliLoads, UnderWay
    <3>3. CASE ~Kept(q) /\ ~Moves(q)
      BY <1>1, <3>3, RequestsGo DEF Goes, UnderWay, Loaded, CliOps
    <3> QED BY <3>1, <3>2, <3>3
  <2>4. CASE Asks(q)
    <3>1. /\ req'[q].by \in Admins
          /\ Allowed(req'[q].by, req'[q].needs)
      BY <2>4 DEF Asks
    <3>2. users' = users
      BY <1>1, <2>2, <2>4, ReadersAreQuiet DEF Moves
    <3> QED BY <3>1, <3>2 DEF Allowed
  <2>5. CASE /\ UnderWay(q) /\ req'[q].by = req[q].by /\ req'[q].needs = req[q].needs
             /\ req[q].crossed \subseteq req'[q].crossed
    <3>1. req[q].by \in Admins
      BY <1>1, <2>5 DEF TypeInv, Typed, UnderWay
    <3>2. StillAllowed(q)
      BY DEF RightsInv
    <3>3. CASE <<"account", req[q].by>> \in req'[q].crossed
      BY <2>5, <3>3
    <3>4. CASE <<"account", req[q].by>> \notin req'[q].crossed
      <4>1. users'[req[q].by].role = users[req[q].by].role
            /\ users'[req[q].by].active = users[req[q].by].active
        BY <1>1, <2>2, <2>5, <3>1, <3>4, RightsAreMarked DEF RightsMarked
      <4> QED BY <2>5, <3>2, <3>4, <4>1 DEF StillAllowed, Allowed
    <3> QED BY <3>3, <3>4
  <2> QED BY <2>3, <2>4, <2>5
<1>3. AuditIsASeq' /\ RevokedRightsEndWithTheRequest'
  <2>1. CASE audit' = audit
    BY <2>1 DEF RightsInv, AuditIsASeq, RevokedRightsEndWithTheRequest
  <2>2. CASE audit' # audit
    <3>1. PICK r \in Requests : \E field, before, after :
                 UnderWay(r) /\ Record(r, field, before, after)
      BY <1>1, <2>2, EventsAreOfRequests DEF Audits
    <3>2. PICK field, before, after : UnderWay(r) /\ Record(r, field, before, after)
      BY <3>1
    <3>3. /\ AuditIsASeq'
          /\ DOMAIN audit' = DOMAIN audit \cup {Len(audit) + 1}
          /\ \A i \in DOMAIN audit : audit'[i] = audit[i]
          /\ audit'[Len(audit) + 1] = Entry(r, field, before, after)
      BY <3>2, AuditGrows DEF RightsInv
    <3>4. LET e == Entry(r, field, before, after)
          IN  e.may \/ <<"account", e.by>> \in e.crossed
      BY <3>2 DEF Entry, RightsInv, StillAllowed
    <3> QED BY <3>3, <3>4 DEF RightsInv, RevokedRightsEndWithTheRequest
  <2> QED BY <2>1, <2>2
<1> QED BY <1>1, <1>2, <1>3 DEF RightsInv

LEMMA RightsInit ==
  ASSUME Init
  PROVE  RightsInv
<1>1. TypeInv
  BY TypeInit, AdminAccountsAssumption, AdminPanelAssumption
<1>2. audit = <<>> /\ \A r \in Requests : req[r].pc = "idle"
  BY IdleIsTyped DEF Init, AccountsInit
<1>3. audit \in Seq({}) /\ DOMAIN audit = {}
  BY <1>2
<1> QED BY <1>1, <1>2, <1>3
        DEF RightsInv, AuditIsASeq, StillAllowed, UnderWay, RevokedRightsEndWithTheRequest

\* A role or an account that is lost is lost to every request that starts after
\* it: an event that its operator had no right to any more belongs to a request
\* the loss overtook (security/admin_auth.py resolves the session once).
THEOREM RightsEnd == Spec => []RevokedRightsEndWithTheRequest
<1>1. Init => RightsInv
  BY RightsInit
<1>2. RightsInv /\ [Next]_vars => RightsInv'
  BY RightsStep, AdminAccountsAssumption
<1>3. RightsInv => RevokedRightsEndWithTheRequest
  BY DEF RightsInv
<1> QED BY <1>1, <1>2, <1>3, PTL DEF Spec

LEMMA RightsEffects ==
  ASSUME TypeInv, AdminAccountsAssumption, [Next]_vars
  PROVE  \/ \A v \in Admins : SameRights(v)
         \/ \E r \in Requests, u \in Admins :
              u = req[r].tgt /\ (RoleChanges(r, u) \/ StatusChanges(r, u) \/ Creation(r, u))
<1>1. CASE Quiet
  BY <1>1 DEF Quiet, SameRights
<1>2. ASSUME NEW u \in Admins, Touches(u), SameRights(u)
      PROVE  \A v \in Admins : SameRights(v)
  BY <1>2 DEF Touches, SameRights
<1>3. CASE \E u \in Admins : Lapses(u)
  BY <1>2, <1>3 DEF Lapses
<1>4. ASSUME NEW r \in Requests, NEW u \in Admins, Effect(r, u),
             ~(RoleChanges(r, u) \/ StatusChanges(r, u) \/ Creation(r, u))
      PROVE  \A v \in Admins : SameRights(v)
  <2>1. Touches(u) /\ SameRights(u)
    BY <1>4 DEF Effect, Guesses, SignsIn, PasswordResets, PasswordChanges, IsUnlocked,
                Resets, Unlocks
  <2> QED BY <1>2, <2>1
<1> QED BY <1>1, <1>3, <1>4, EffectsOf

\* A request that has read the row of an account will find that account.
Known(q) ==
  req[q].pc = "loaded" /\ req[q].op \in {"login", "role", "status", "reset", "password",
                                         "cli_reset", "unlock"}
    => users[req[q].tgt].exists

LEMMA AccountsStay ==
  ASSUME TypeInv, AdminAccountsAssumption, [Next]_vars, NEW v \in Admins, users[v].exists
  PROVE  users'[v].exists
<1>1. ASSUME NEW r \in Requests, NEW u \in Admins,
             RoleChanges(r, u) \/ StatusChanges(r, u) \/ Creation(r, u)
      PROVE  users'[v].exists
  BY <1>1 DEF RoleChanges, StatusChanges, Creation, Creates, Touches
<1> QED BY <1>1, RightsEffects DEF SameRights

LEMMA KnownStep ==
  ASSUME TypeInv, AdminAccountsAssumption, [Next]_vars, \A q \in Requests : Known(q)
  PROVE  \A q \in Requests : Known(q)'
<1> SUFFICES ASSUME NEW q \in Requests,
                    (req[q].pc = "loaded" /\ req[q].op \in {"login", "role", "status", "reset",
                                         "password", "cli_reset", "unlock"})'
             PROVE  (users[req[q].tgt].exists)'
  BY DEF Known
<1>1. Goes(q) /\ Known(q) /\ Typed(req[q]) /\ Typed(req'[q])
  BY RequestsGo, TypeStep DEF TypeInv
<1>2. req'[q].tgt \in Admins
  BY <1>1 DEF Typed, AccountOps, CliOps
<1>3. CASE Kept(q)
  <2>1. users[req[q].tgt].exists
    BY <1>1, <1>3 DEF Kept, Known
  <2> QED BY <1>2, <1>3, <2>1, AccountsStay DEF Kept
<1>4. CASE Moves(q)
  <2>1. req'[q] # IdleReq
    BY IdleIsTyped
  <2>2. users' = users
    BY <1>4, <2>1, ReadersAreQuiet
  <2>3. CASE LoginLoads(q)
    BY <2>2, <2>3 DEF LoginLoads
  <2>4. CASE AccountLoads(q)
    <3>1. users[req[q].tgt].exists \in BOOLEAN
      BY <1>2, <2>4 DEF AccountLoads, ReadsOn, TypeInv, TablesOK, UserRow
    <3> QED BY <2>2, <2>4, <3>1 DEF AccountLoads, ReadsOn
  <2>5. CASE CliLoads(q)
    BY <2>2, <2>5 DEF CliLoads, CliOps
  <2>6. CASE LoginBegins(q) \/ Asks(q)
    BY <2>6 DEF LoginBegins, Asks
  <2>7. CASE EditLoads(q)
    BY <2>7 DEF EditLoads, ReadsOn, EditOps
  <2> QED BY <1>4, <2>1, <2>3, <2>4, <2>5, <2>6, <2>7 DEF Moves
<1> QED BY <1>1, <1>3, <1>4 DEF Goes

-----------------------------------------------------------------------------
(* A super admin remains.                                                   *)

\* Only an existing account is active.
ActiveExist == \A u \in Admins : users[u].active => users[u].exists

\* Handlers that change rights ask for the permission only super admins have.
Guarded(q) ==
  req[q].pc \in {"admitted", "loaded"} /\ req[q].op \in {"create", "role", "status"}
    => req[q].needs = "admin_user:write"

NotOneself(q) ==
  req[q].pc = "loaded" => ~LowersOneself(q)

SuperInv ==
  /\ RightsInv
  /\ ActiveExist
  /\ \A q \in Requests : Known(q) /\ Guarded(q) /\ NotOneself(q)
  /\ SuperAdminRemains

LEMMA OnlySuperAdminsWriteAdmins ==
  ASSUME NEW role \in Role, RoleAllows(role, "admin_user:write")
  PROVE  role = "SUPER_ADMIN"
<1>1. CASE role = "ADMIN"
  BY <1>1 DEF RoleAllows, RolePermissions, Role
<1>2. CASE role = "ACADEMIC_ADMIN"
  BY <1>2 DEF RoleAllows, RolePermissions, Role
<1>3. CASE role = "SUPPORT"
  BY <1>3 DEF RoleAllows, RolePermissions, Role
<1>4. CASE role = "TUTOR_VIEWER"
  BY <1>4 DEF RoleAllows, RolePermissions, Role
<1>5. CASE role = "USAGE_VIEWER"
  BY <1>5 DEF RoleAllows, RolePermissions, Role
<1> QED BY <1>1, <1>2, <1>3, <1>4, <1>5 DEF Role

LEMMA AuditStays ==
  ASSUME TypeInv, AdminAccountsAssumption, AuditIsASeq, [Next]_vars,
         NEW i \in DOMAIN audit
  PROVE  i \in DOMAIN audit' /\ audit'[i] = audit[i]
  BY EventsAreOfRequests, AuditGrows DEF Audits

LEMMA DeniedIsAudited ==
  ASSUME AuditIsASeq, NEW r, NEW field, NEW before, NEW after,
         Record(r, field, before, after), ~Allowed(req[r].by, req[r].needs)
  PROVE  \E i \in DOMAIN audit' : ~audit'[i].may
<1>1. /\ Len(audit) + 1 \in DOMAIN audit'
      /\ audit'[Len(audit) + 1] = Entry(r, field, before, after)
  BY AuditGrows
<1> QED BY <1>1 DEF Entry

\* Who may change an operator's rights, or add one, is a super admin.
LEMMA CallersAreSupers ==
  ASSUME SuperInv, NEW r \in Requests, req[r].pc = "loaded",
         req[r].op \in {"create", "role", "status"}, Allowed(req[r].by, req[r].needs)
  PROVE  req[r].by \in Supers
<1>1. req[r].by \in Admins /\ req[r].needs = "admin_user:write"
  BY DEF SuperInv, RightsInv, TypeInv, Typed, CliOps, Guarded
<1>2. users[req[r].by].role \in Role
  BY <1>1 DEF SuperInv, RightsInv, TypeInv, TablesOK, UserRow
<1>3. users[req[r].by].active /\ RoleAllows(users[req[r].by].role, "admin_user:write")
  BY <1>1 DEF Allowed
<1>4. users[req[r].by].exists
  BY <1>1, <1>3 DEF SuperInv, ActiveExist
<1> QED BY <1>1, <1>2, <1>3, <1>4, OnlySuperAdminsWriteAdmins DEF Supers

\* A request that changes the rights of an operator, or adds one.
OnRights(r) == req[r].pc = "loaded" /\ req[r].op \in {"create", "role", "status"}

\* Only such a request writes an event about rights.
LEMMA RightsEvents ==
  ASSUME [Next]_vars
  PROVE  \/ audit' = audit
         \/ \E r \in Requests : \E field, before, after :
              /\ Record(r, field, before, after)
              /\ field \in {"role", "active"} => OnRights(r)
<1> DEFINE Told(r) == \E field, before, after :
                        /\ Record(r, field, before, after)
                        /\ field \in {"role", "active"} => OnRights(r)
<1>1. ASSUME NEW r \in Requests, CreateAdmin(r) \/ ChangeRole(r) \/ SetStatus(r)
      PROVE  audit' = audit \/ Told(r)
  BY <1>1 DEF CreateAdmin, ChangeRole, SetStatus, Loaded, OnRights
<1>2. ASSUME NEW r \in Requests, ResetPassword(r) \/ AuditPassword(r)
      PROVE  Told(r)
  BY <1>2 DEF ResetPassword, AuditPassword
<1>3. ASSUME NEW r \in Requests, AccountSteps(r),
             ~(CreateAdmin(r) \/ ChangeRole(r) \/ SetStatus(r)),
             ~(ResetPassword(r) \/ AuditPassword(r))
      PROVE  audit' = audit
  BY <1>3 DEF AccountSteps, AskPassword, AskAccount, LoadAccount, ChangePassword, CliRead,
              Bootstrap, CliReset, CliUnlock
<1>4. ASSUME NEW r \in Requests, SignInSteps(r) \/ RequestDies(r)
      PROVE  audit' = audit
  BY <1>4 DEF SignInSteps, RequestDies, LoginThrottle, LoginRead, WrongPassword, SignIn
<1>5. CASE TimeSteps
  BY <1>5 DEF TimeSteps, IdleTimeout, Logout, SessionAges, LockLapses, WindowPasses
<1>6. ASSUME NEW r \in Requests, EditSteps(r)
      PROVE  audit' = audit \/ Told(r)
  <2>1. CASE (\E s \in Sessions : AskEdit(r, s)) \/ LoadEdit(r)
    BY <2>1 DEF AskEdit, LoadEdit
  <2>2. CASE UpsertPlan(r) \/ CreateDraft(r) \/ Activate(r)
    BY <2>2 DEF UpsertPlan, CreateDraft, Activate, Fails
  <2>3. CASE SetFlag(r) \/ UpsertRoute(r)
    BY <2>3 DEF SetFlag, UpsertRoute, Fails
  <2>4. CASE DeleteDocument(r) \/ ReprocessDocument(r) \/ NoteOnly(r)
    BY <2>4 DEF DeleteDocument, ReprocessDocument, NoteOnly
  <2> QED BY <1>6, <2>1, <2>2, <2>3, <2>4 DEF EditSteps
<1>7. CASE UNCHANGED vars
  BY <1>7 DEF vars, accountVars
<1> QED BY <1>1, <1>2, <1>3, <1>4, <1>5, <1>6, <1>7 DEF Next, AccountsNext

\* Without a super admin, whoever writes about rights has lost the right to.
LEMMA RightsAreDenied ==
  ASSUME SuperInv, Supers = {}, NEW r \in Requests, OnRights(r),
         NEW field, NEW before, NEW after, Record(r, field, before, after)
  PROVE  SuperAdminRemains'
<1>1. ~Allowed(req[r].by, req[r].needs)
  BY CallersAreSupers DEF OnRights
<1>2. AuditIsASeq
  BY DEF SuperInv, RightsInv
<1> QED BY <1>1, <1>2, DeniedIsAudited DEF SuperAdminRemains

LEMMA NeverHadOneStep ==
  ASSUME SuperInv, AdminAccountsAssumption, [Next]_vars, NeverHadOne
  PROVE  SuperAdminRemains'
<1>1. TypeInv /\ AuditIsASeq /\ Supers = {}
  BY DEF SuperInv, RightsInv, NeverHadOne, Supers
<1>2. CASE \E r \in Requests : \E field, before, after :
             Record(r, field, before, after) /\ OnRights(r)
  BY <1>1, <1>2, RightsAreDenied
<1>3. CASE ~\E r \in Requests : \E field, before, after :
             Record(r, field, before, after) /\ OnRights(r)
  <2>1. \A i \in DOMAIN audit' : audit'[i].field \notin {"role", "active"}
    <3>1. CASE audit' = audit
      BY <3>1 DEF NeverHadOne
    <3>2. CASE audit' # audit
      <4>1. PICK r \in Requests : \E field, before, after :
              /\ Record(r, field, before, after)
              /\ field \in {"role", "active"} => OnRights(r)
        BY <3>2, RightsEvents
      <4>2. PICK field, before, after :
              /\ Record(r, field, before, after)
              /\ field \in {"role", "active"} => OnRights(r)
        BY <4>1
      <4>3. field \notin {"role", "active"}
        BY <1>3, <4>2
      <4>4. Entry(r, field, before, after).field = field
        BY DEF Entry
      <4>5. \A i \in DOMAIN audit' :
              \/ i \in DOMAIN audit /\ audit'[i] = audit[i]
              \/ audit'[i] = Entry(r, field, before, after)
        BY <1>1, <4>2, AuditGrows
      <4> QED BY <4>3, <4>4, <4>5 DEF NeverHadOne
    <3> QED BY <3>1, <3>2
  <2>2. CASE \A v \in Admins : SameRights(v)
    BY <2>1, <2>2 DEF SameRights, NeverHadOne, SuperAdminRemains
  <2>3. CASE \E r \in Requests, u \in Admins :
               u = req[r].tgt /\ (RoleChanges(r, u) \/ StatusChanges(r, u) \/ Creation(r, u))
    <3>1. PICK r \in Requests, u \in Admins :
            u = req[r].tgt /\ (RoleChanges(r, u) \/ StatusChanges(r, u) \/ Creation(r, u))
      BY <2>3
    <3>2. Creation(r, u) /\ ~Loaded(r, "create")
      BY <1>3, <3>1 DEF RoleChanges, StatusChanges, Creation, Loaded, OnRights
    <3>3. PICK role \in Role : Creates(u, role)
      BY <3>2 DEF Creation
    <3>4. CASE role = "SUPER_ADMIN"
      BY <3>3, <3>4 DEF Creates, Supers, SuperAdminRemains
    <3>5. CASE role # "SUPER_ADMIN"
      BY <2>1, <3>3, <3>5 DEF Creates, Touches, NeverHadOne, SuperAdminRemains
    <3> QED BY <3>4, <3>5
  <2> QED BY <1>1, <2>2, <2>3, RightsEffects
<1> QED BY <1>2, <1>3

LEMMA SelfDisabledIsAudited ==
  ASSUME AuditIsASeq, NEW r, NEW before, Record(r, "active", before, FALSE),
         req[r].by = req[r].tgt
  PROVE  SuperAdminRemains'
<1>1. PICK i \in DOMAIN audit' : audit'[i] = Entry(r, "active", before, FALSE)
  BY AuditGrows
<1>2. SelfDisabled(i)'
  BY <1>1 DEF SelfDisabled, Entry
<1> QED BY <1>1, <1>2 DEF SuperAdminRemains

\* What excused the team stays in the trail.
LEMMA LossStays ==
  ASSUME TypeInv, AdminAccountsAssumption, AuditIsASeq, [Next]_vars,
         \E i \in DOMAIN audit : ~audit[i].may \/ SelfDisabled(i)
  PROVE  SuperAdminRemains'
<1>1. PICK i \in DOMAIN audit : ~audit[i].may \/ SelfDisabled(i)
  OBVIOUS
<1>2. i \in DOMAIN audit' /\ audit'[i] = audit[i]
  BY AuditStays
<1>3. ~audit'[i].may \/ SelfDisabled(i)'
  BY <1>1, <1>2 DEF SelfDisabled
<1> QED BY <1>2, <1>3 DEF SuperAdminRemains

LEMMA SuperStep ==
  ASSUME SuperInv, AdminAccountsAssumption, [Next]_vars
  PROVE  SuperInv'
<1>1. TypeInv /\ TypeInv' /\ RightsInv' /\ AuditIsASeq
  BY TypeStep, RightsStep DEF SuperInv, RightsInv
<1>2. \A q \in Requests : Known(q)'
  BY <1>1, KnownStep DEF SuperInv
<1>3. ASSUME NEW q \in Requests
      PROVE  (Guarded(q) /\ NotOneself(q))'
  <2>1. Goes(q) /\ Guarded(q) /\ NotOneself(q)
    BY <1>1, RequestsGo DEF SuperInv
  <2>2. CASE Kept(q)
    BY <2>1, <2>2 DEF Kept, Guarded, NotOneself, LowersOneself
  <2>3. CASE req'[q] = IdleReq
    BY <2>3, IdleIsTyped DEF Guarded, NotOneself
  <2>4. CASE LoginBegins(q) \/ LoginLoads(q) \/ CliLoads(q)
    BY <2>4 DEF LoginBegins, LoginLoads, CliLoads, CliOps, Guarded, NotOneself,
                LowersOneself
  <2>5. CASE Asks(q)
    BY <2>5 DEF Asks, AccountOps, Guarded, NotOneself
  <2>6. CASE AccountLoads(q)
    BY <2>1, <2>6 DEF AccountLoads, ReadsOn, Guarded, NotOneself, LowersOneself
  <2>7. CASE EditLoads(q)
    BY <2>1, <2>7 DEF EditLoads, ReadsOn, EditOps, Guarded, NotOneself,
                     LowersOneself
  <2>8. CASE req'[q].pc = "changed"
    BY <2>8 DEF Guarded, NotOneself
  <2> QED BY <2>1, <2>2, <2>3, <2>4, <2>5, <2>6, <2>7, <2>8 DEF Goes, Moves
<1>4. \A u \in Admins : users[u].role \in Role /\ users[u] \in UserRow
  BY <1>1 DEF TypeInv, TablesOK, UserRow
<1>5. CASE \A v \in Admins : SameRights(v)
  <2>1. ActiveExist' /\ Supers' = Supers
    BY <1>5 DEF SuperInv, ActiveExist, SameRights, Supers
  <2>2. ASSUME NeverHadOne
        PROVE  SuperAdminRemains'
    BY <2>2, NeverHadOneStep
  <2>3. ASSUME ~NeverHadOne
        PROVE  SuperAdminRemains'
    <3>1. CASE Supers # {}
      BY <2>1, <3>1 DEF SuperAdminRemains
    <3>2. CASE \E i \in DOMAIN audit : ~audit[i].may \/ SelfDisabled(i)
      BY <1>1, <3>2, LossStays
    <3> QED BY <2>3, <3>1, <3>2 DEF SuperInv, SuperAdminRemains
  <2> QED BY <1>1, <1>3, <1>2, <2>1, <2>2, <2>3 DEF SuperInv
<1>6. CASE \E r \in Requests, u \in Admins :
             u = req[r].tgt /\ (RoleChanges(r, u) \/ StatusChanges(r, u) \/ Creation(r, u))
  <2>1. PICK r \in Requests, u \in Admins :
             u = req[r].tgt /\ (RoleChanges(r, u) \/ StatusChanges(r, u) \/ Creation(r, u))
    BY <1>6
  <2>2. Touches(u)
    BY <2>1 DEF RoleChanges, StatusChanges, Creation, Creates
  <2>3. ActiveExist'
    <3>1. users'[u].active => users'[u].exists
      <4>1. CASE Creation(r, u)
        BY <4>1 DEF Creation, Creates
      <4>2. CASE RoleChanges(r, u)
        BY <4>2 DEF RoleChanges, SuperInv, ActiveExist
      <4>3. CASE StatusChanges(r, u)
        <5>1. users[u].exists
          BY <2>1, <4>3 DEF StatusChanges, Loaded, SuperInv, Known
        <5> QED BY <4>3, <5>1 DEF StatusChanges
      <4> QED BY <2>1, <4>1, <4>2, <4>3
    <3> QED BY <2>2, <3>1 DEF Touches, SuperInv, ActiveExist
  <2>4. SuperAdminRemains'
    <3>1. CASE \E i \in DOMAIN audit : ~audit[i].may \/ SelfDisabled(i)
      BY <1>1, <3>1, LossStays
    <3>2. CASE NeverHadOne
      BY <3>2, NeverHadOneStep
    <3>3. CASE RoleChanges(r, u)
      <4>1. CASE ~Allowed(req[r].by, req[r].needs)
        BY <1>1, <3>3, <4>1, DeniedIsAudited DEF RoleChanges, SuperAdminRemains
      <4>2. CASE Allowed(req[r].by, req[r].needs)
        <5>1. req[r].by \in Supers
          BY <3>3, <4>2, CallersAreSupers DEF RoleChanges, Loaded
        <5>2. CASE req[r].by = u
          <6>1. req[r].arg = "SUPER_ADMIN"
            BY <2>1, <3>3, <5>2 DEF RoleChanges, Loaded, SuperInv, NotOneself, LowersOneself
          <6>2. users'[u].role = "SUPER_ADMIN" /\ u \in Supers'
            BY <3>3, <5>1, <5>2, <6>1 DEF RoleChanges, Supers, Assign
          <6> QED BY <6>2 DEF SuperAdminRemains
        <5>3. CASE req[r].by # u
          BY <2>2, <5>1, <5>3 DEF Touches, Supers, SuperAdminRemains
        <5> QED BY <5>2, <5>3
      <4> QED BY <4>1, <4>2
    <3>4. CASE StatusChanges(r, u)
      <4>1. CASE ~Allowed(req[r].by, req[r].needs)
        BY <1>1, <3>4, <4>1, DeniedIsAudited DEF StatusChanges, SuperAdminRemains
      <4>2. CASE Allowed(req[r].by, req[r].needs)
        <5>1. req[r].by \in Supers
          BY <3>4, <4>2, CallersAreSupers DEF StatusChanges, Loaded
        <5>2. CASE req[r].by # u
          BY <2>2, <5>1, <5>2 DEF Touches, Supers, SuperAdminRemains
        <5>3. CASE req[r].by = u /\ req[r].arg = FALSE
          <6>1. Record(r, "active", req[r].seen.active, FALSE) /\ req[r].by = req[r].tgt
            BY <2>1, <3>4, <5>3 DEF StatusChanges
          <6> QED BY <1>1, <6>1, SelfDisabledIsAudited
        <5>4. CASE req[r].by = u /\ req[r].arg = TRUE
          BY <3>4, <5>1, <5>4 DEF StatusChanges, Supers, Assign, SuperAdminRemains
        <5>5. req[r].arg \in BOOLEAN
          BY <1>1, <3>4 DEF StatusChanges, Loaded, TypeInv, Typed
        <5> QED BY <5>2, <5>3, <5>4, <5>5
      <4> QED BY <4>1, <4>2
    <3>5. CASE Creation(r, u) /\ Supers # {}
      <4>1. PICK v \in Supers : TRUE
        BY <3>5
      <4>2. v # u
        BY <3>5, <4>1 DEF Creation, Supers
      <4> QED BY <2>2, <4>1, <4>2 DEF Touches, Supers, SuperAdminRemains
    <3> QED BY <2>1, <3>1, <3>2, <3>3, <3>4, <3>5 DEF SuperInv, SuperAdminRemains
  <2> QED BY <1>1, <1>3, <1>2, <2>3, <2>4 DEF SuperInv
<1> QED BY <1>1, <1>5, <1>6, RightsEffects

\* A team that has a super admin keeps one through every interleaving of role and
\* status changes (change_role and set_status, routes/admin/auth.py), unless one
\* was committed for an operator who had lost the right to make it, or an operator
\* disabled their own account, which set_status means to refuse.
THEOREM TheTeamKeepsASuperAdmin == Spec => []SuperAdminRemains
<1>1. Init => SuperInv
  <2>1. SUFFICES ASSUME Init PROVE SuperInv
    OBVIOUS
  <2>2. RightsInv
    BY <2>1, RightsInit
  <2>3. PICK staff \in Rosters :
        users = [u \in Admins |->
                  IF u \in staff
                  THEN [NoAdmin EXCEPT !.exists = TRUE, !.role = "SUPER_ADMIN",
                                       !.active = TRUE, !.weak = TRUE]
                  ELSE NoAdmin]
    BY <2>1 DEF Init, AccountsInit
  <2>4. \A u \in Admins :
          \/ u \in staff /\ users[u].exists /\ users[u].active /\ users[u].role = "SUPER_ADMIN"
          \/ ~users[u].exists /\ ~users[u].active
    BY <2>3 DEF NoAdmin
  <2>5. ASSUME staff = {}
        PROVE  SuperAdminRemains
    <3>1. \A u \in Admins : users[u].role = "SUPPORT"
      BY <2>3, <2>5 DEF NoAdmin
    <3>2. NeverHadOne
      BY <2>1, <3>1 DEF Init, AccountsInit, NeverHadOne
    <3> QED BY <3>2 DEF SuperAdminRemains
  <2>7. ASSUME staff # {}
        PROVE  SuperAdminRemains
    <3>1. PICK u \in Admins : u \in staff
      BY <2>3, <2>7, AdminAccountsAssumption
    <3>2. u \in Supers
      BY <2>3, <3>1 DEF Supers
    <3> QED BY <3>2 DEF SuperAdminRemains
  <2>6. \A q \in Requests : req[q].pc = "idle"
    BY <2>1, IdleIsTyped DEF Init, AccountsInit
  <2>8. ActiveExist
    BY <2>4 DEF ActiveExist
  <2> QED BY <2>2, <2>5, <2>6, <2>7, <2>8 DEF SuperInv, Known, Guarded, NotOneself
<1>2. SuperInv /\ [Next]_vars => SuperInv'
  BY SuperStep, AdminAccountsAssumption
<1>3. SuperInv => SuperAdminRemains
  BY DEF SuperInv
<1> QED BY <1>1, <1>2, <1>3, PTL DEF Spec
-----------------------------------------------------------------------------
(* Revoked sessions stay dead.                                              *)

\* A sign-in read the password of the account, or the account's sessions were
\* revoked since.
FreshLogin(q) ==
  Loaded(q, "login") =>
    /\ req[q].since <= past[req[q].tgt].revoked
    /\ req[q].since = past[req[q].tgt].revoked =>
         req[q].seen.pw = users[req[q].tgt].pw \/ past[req[q].tgt].undone

OwnersExist == \A s \in Sessions : sess[s].state = "live" => users[sess[s].user].exists

SessionInv ==
  /\ TypeInv /\ OwnersExist
  /\ \A q \in Requests : Known(q) /\ FreshLogin(q)
  /\ RevokedSessionsStayDead

\* A password that is replaced takes the sessions with it, unless a sign-in
\* wrote an older one back.
PasswordOf(v) ==
  \/ ~users[v].exists
  \/ /\ past'[v].revoked = past[v].revoked
     /\ users'[v].pw = users[v].pw \/ past'[v].undone
     /\ past[v].undone => past'[v].undone
  \/ /\ past'[v].revoked = past[v].revoked + 1
     /\ \A s \in Sessions : sess'[s].state = "live" => sess'[s].user # v

LEMMA PasswordsOf ==
  ASSUME TypeInv, AdminAccountsAssumption, [Next]_vars, NEW v \in Admins
  PROVE  PasswordOf(v)
<1>1. CASE Quiet
  BY <1>1 DEF Quiet, PasswordOf
<1>2. CASE \E u \in Admins : Lapses(u)
  BY <1>2 DEF Lapses, Touches, SamePassword, PasswordOf
<1>3. ASSUME NEW r \in Requests, NEW u \in Admins, Effect(r, u)
      PROVE  PasswordOf(v)
  <2>1. CASE u # v
    <3>1. Touches(u)
      BY <1>3, EffectTouches
    <3>2. users'[v] = users[v] /\ past'[v] = past[v]
      BY <2>1, <3>1 DEF Touches
    <3> QED BY <3>2 DEF PasswordOf
  <2>2. CASE u = v
    <3>1. CASE Guesses(r, u)
      BY <2>2, <3>1 DEF Guesses, SamePassword, PasswordOf
    <3>2. CASE \E s \in Sessions : SignsIn(r, s, u)
      BY <2>2, <3>2 DEF SignsIn, PasswordOf
    <3>3. CASE RoleChanges(r, u)
      BY <2>2, <3>3 DEF RoleChanges, SessRevoked, PasswordOf
    <3>4. CASE StatusChanges(r, u)
      BY <2>2, <3>4 DEF StatusChanges, SamePassword, SessRevoked, PasswordOf
    <3>5. CASE PasswordResets(r, u)
      BY <2>2, <3>5 DEF PasswordResets, Resets, SessRevoked, PasswordOf
    <3>6. CASE PasswordChanges(r, u)
      BY <2>2, <3>6 DEF PasswordChanges, SessRevoked, PasswordOf
    <3>7. CASE IsUnlocked(r, u)
      BY <2>2, <3>7 DEF IsUnlocked, Unlocks, SamePassword, PasswordOf
    <3>8. CASE Creation(r, u)
      BY <2>2, <3>8 DEF Creation, PasswordOf
    <3> QED BY <1>3, <3>1, <3>2, <3>3, <3>4, <3>5, <3>6, <3>7, <3>8 DEF Effect
  <2> QED BY <2>1, <2>2
<1> QED BY <1>1, <1>2, <1>3, EffectsOf

\* The session of a sign-in is new, the others are kept.
LEMMA SessionsGo ==
  ASSUME TypeInv, AdminAccountsAssumption, [Next]_vars
  PROVE  \/ SessKept
         \/ \E r \in Requests, u \in Admins, s \in Sessions : u = req[r].tgt /\ SignsIn(r, s, u)
<1>1. CASE Quiet \/ \E u \in Admins : Lapses(u)
  BY <1>1 DEF Quiet, Lapses
<1> QED BY <1>1, EffectsOf, EffectTouches

LEMMA SessionStep ==
  ASSUME SessionInv, AdminAccountsAssumption, [Next]_vars
  PROVE  SessionInv'
<1>1. TypeInv /\ TypeInv' /\ \A q \in Requests : Known(q)'
  BY TypeStep, KnownStep DEF SessionInv
<1>2. /\ \A v \in Admins : past[v].revoked \in Nat /\ past'[v].revoked \in Nat
      /\ \A s \in Sessions : sess[s] \in SessionRow /\ sess'[s] \in SessionRow
      /\ \A s \in Sessions : sess[s].state = "live" => sess[s].user \in Admins
  BY <1>1 DEF TypeInv, TablesOK, PastRow
<1>3. ASSUME NEW q \in Requests PROVE FreshLogin(q)'
  <2>1. SUFFICES ASSUME Loaded(q, "login")'
                 PROVE  (/\ req[q].since <= past[req[q].tgt].revoked
                         /\ req[q].since = past[req[q].tgt].revoked =>
                              req[q].seen.pw = users[req[q].tgt].pw \/ past[req[q].tgt].undone)'
    BY DEF FreshLogin
  <2>2. Goes(q) /\ Known(q) /\ FreshLogin(q) /\ Typed(req[q])
    BY <1>1, RequestsGo DEF SessionInv, TypeInv
  <2>3. CASE Kept(q)
    <3>1. PICK v \in Admins : v = req[q].tgt
      BY <2>1, <2>2, <2>3 DEF Kept, Loaded, Typed
    <3>2. /\ req'[q].tgt = v /\ req'[q].since = req[q].since /\ req'[q].seen = req[q].seen
          /\ req[q].since \in Nat /\ users[v].exists
          /\ req[q].since <= past[v].revoked
          /\ req[q].since = past[v].revoked => req[q].seen.pw = users[v].pw \/ past[v].undone
      BY <2>1, <2>2, <2>3, <3>1 DEF Kept, Loaded, Typed, Known, FreshLogin
    <3>3. PasswordOf(v)
      BY <1>1, PasswordsOf
    <3> QED BY <1>2, <3>2, <3>3 DEF PasswordOf
  <2>4. CASE Moves(q)
    <3>1. req'[q] # IdleReq
      BY <2>1, IdleIsTyped DEF Loaded
    <3>2. users' = users /\ past' = past
      BY <1>1, <2>4, <3>1, ReadersAreQuiet
    <3>3. LoginLoads(q)
      <4>1. req'[q].pc = "loaded" /\ req'[q].op = "login"
        BY <2>1 DEF Loaded
      <4> QED BY <2>4, <3>1, <4>1, OpsDiffer DEF Moves, LoginBegins, Asks, AccountLoads,
                                                 EditLoads, ReadsOn, CliLoads
    <3>4. PICK v \in Admins : v = req[q].tgt
      BY <3>3 DEF LoginLoads
    <3>5. /\ req'[q].tgt = v /\ req'[q].since = past[v].revoked /\ req'[q].seen = users[v]
      BY <3>3, <3>4 DEF LoginLoads
    <3> QED BY <1>2, <3>2, <3>5
  <2> QED BY <2>1, <2>2, <2>3, <2>4 DEF Goes, Loaded
<1>4. OwnersExist' /\ RevokedSessionsStayDead'
  <2>1. ASSUME NEW t \in Sessions, sess'[t].state = "live",
               sess[t].state = "live", sess'[t].user = sess[t].user,
               sess'[t].pw = sess[t].pw, sess'[t].since = sess[t].since,
               sess'[t].made = sess[t].made
        PROVE  /\ users'[sess'[t].user].exists
               /\ sess'[t].made = past'[sess'[t].user].revoked
               /\ \/ sess'[t].pw = users'[sess'[t].user].pw
                  \/ sess'[t].since < sess'[t].made
                  \/ past'[sess'[t].user].undone
    <3>1. PICK v \in Admins : v = sess[t].user
      BY <1>2, <2>1
    <3>2. /\ users[v].exists
          /\ sess[t].made = past[v].revoked
          /\ \/ sess[t].pw = users[v].pw \/ sess[t].since < sess[t].made \/ past[v].undone
      BY <2>1, <3>1 DEF SessionInv, OwnersExist, RevokedSessionsStayDead
    <3>3. PasswordOf(v) /\ users'[v].exists
      BY <1>1, <3>2, PasswordsOf, AccountsStay
    <3>4. /\ past'[v].revoked = past[v].revoked
          /\ users'[v].pw = users[v].pw \/ past'[v].undone
          /\ past[v].undone => past'[v].undone
      BY <2>1, <3>1, <3>2, <3>3 DEF PasswordOf
    <3> QED BY <2>1, <3>1, <3>2, <3>3, <3>4
  <2>2. CASE SessKept
    <3>1. ASSUME NEW t \in Sessions, sess'[t].state = "live"
          PROVE  /\ users'[sess'[t].user].exists
                 /\ sess'[t].made = past'[sess'[t].user].revoked
                 /\ \/ sess'[t].pw = users'[sess'[t].user].pw
                    \/ sess'[t].since < sess'[t].made
                    \/ past'[sess'[t].user].undone
      BY <2>1, <2>2, <3>1 DEF SessKept
    <3> QED BY <3>1 DEF OwnersExist, RevokedSessionsStayDead
  <2>3. ASSUME NEW r \in Requests, NEW u \in Admins, NEW s \in Sessions,
               u = req[r].tgt, SignsIn(r, s, u)
        PROVE  OwnersExist' /\ RevokedSessionsStayDead'
    <3>1. users[u].exists /\ users'[u].exists
      BY <1>1, <2>3, AccountsStay DEF SignsIn, SessionInv, Known, Loaded
    <3>2. /\ req[r].since \in Nat
          /\ req[r].since <= past[u].revoked
          /\ req[r].since = past[u].revoked => req[r].seen.pw = users[u].pw \/ past[u].undone
      BY <1>1, <2>3 DEF SignsIn, SessionInv, FreshLogin, Loaded, TypeInv, Typed
    <3>3. /\ sess'[s].user = u /\ sess'[s].pw = req[r].seen.pw
          /\ sess'[s].since = req[r].since /\ sess'[s].made = past[u].revoked
          /\ past'[u].revoked = past[u].revoked
          /\ past'[u].undone = (past[u].undone \/ users'[u].pw # users[u].pw)
          /\ users'[u].pw = req[r].seen.pw \/ users'[u].pw = users[u].pw
      BY <2>3 DEF SignsIn
    <3>4. /\ sess'[s].made = past'[u].revoked
          /\ \/ sess'[s].pw = users'[u].pw
             \/ sess'[s].since < sess'[s].made
             \/ past'[u].undone
      <4>1. sess'[s].since < sess'[s].made \/ req[r].since = past[u].revoked
        BY <1>2, <3>2, <3>3
      <4> QED BY <3>2, <3>3, <4>1
    <3>5. ASSUME NEW t \in Sessions, sess'[t].state = "live"
          PROVE  /\ users'[sess'[t].user].exists
                 /\ sess'[t].made = past'[sess'[t].user].revoked
                 /\ \/ sess'[t].pw = users'[sess'[t].user].pw
                    \/ sess'[t].since < sess'[t].made
                    \/ past'[sess'[t].user].undone
      <4>1. CASE t = s
        BY <3>1, <3>3, <3>4, <4>1
      <4>2. CASE t # s
        <5>1. sess'[t] = sess[t]
          BY <2>3, <4>2 DEF SignsIn
        <5> QED BY <2>1, <3>5, <5>1
      <4> QED BY <4>1, <4>2
    <3> QED BY <3>5 DEF OwnersExist, RevokedSessionsStayDead
  <2> QED BY <1>1, <2>2, <2>3, SessionsGo
<1> QED BY <1>1, <1>3, <1>4 DEF SessionInv

\* Sessions that an operator, a reset or a change of password revoked stay dead:
\* a live one was issued after the last revocation of its account, with the
\* password the account has or while that was being replaced
\* (revoke_all_for_user, security/admin_auth.py).
THEOREM RevokedStaysRevoked == Spec => []RevokedSessionsStayDead
<1>1. Init => SessionInv
  <2>1. SUFFICES ASSUME Init PROVE SessionInv
    OBVIOUS
  <2>2. TypeInv
    BY <2>1, TypeInit, AdminAccountsAssumption, AdminPanelAssumption
  <2>3. \A q \in Requests : req[q].pc = "idle"
    BY <2>1, IdleIsTyped DEF Init, AccountsInit
  <2>4. \A s \in Sessions : sess[s].state # "live"
    BY <2>1 DEF Init, AccountsInit, Unissued
  <2> QED BY <2>2, <2>3, <2>4
          DEF SessionInv, OwnersExist, Known, FreshLogin, Loaded, RevokedSessionsStayDead
<1>2. SessionInv /\ [Next]_vars => SessionInv'
  BY SessionStep, AdminAccountsAssumption
<1>3. SessionInv => RevokedSessionsStayDead
  BY DEF SessionInv
<1> QED BY <1>1, <1>2, <1>3, PTL DEF Spec
-----------------------------------------------------------------------------
(* Wrong guesses lock the account.                                          *)

\* Nobody has guessed at an account that does not exist.
FreshAccount(u) ==
  ~users[u].exists => users[u].failed = 0 /\ (past[u].guesses = 0 \/ past[u].crossed)

\* The counter is not behind the guesses, and a free account is below the limit.
Counted(u) ==
  ~past[u].crossed =>
    /\ past[u].guesses <= users[u].failed
    /\ users[u].lock = "none" => users[u].failed < MaxFailed

CounterOps == {"login", "reset", "cli_reset", "unlock"}

\* A request that will write the counter read it as it is, or was overtaken; a
\* reset of the caller's own account uses the row its session was resolved with.
ReadTheCounter(q) ==
  /\ req[q].pc = "loaded" /\ req[q].op \in CounterOps =>
       Overtaken(q, req[q].tgt) \/ req[q].seen.failed = users[req[q].tgt].failed
  /\ req[q].pc = "admitted" /\ req[q].op = "reset" =>
       Overtaken(q, req[q].by) \/ req[q].seen.failed = users[req[q].by].failed

CounterInv ==
  /\ TypeInv
  /\ \A u \in Admins : FreshAccount(u) /\ Counted(u)
  /\ \A q \in Requests : Known(q) /\ ReadTheCounter(q)

IsGuessed(r, v) ==
  /\ users'[v].failed = req[r].seen.failed + 1
  /\ users'[v].lock = "none" => ~LocksAt(req[r].seen.failed + 1)
  /\ past'[v].guesses = past[v].guesses + 1
  /\ past'[v].crossed = (past[v].crossed \/ Overtaken(r, v))

\* What a step does to the counter of v.
CountOf(v) ==
  \/ /\ ~users[v].exists /\ users'[v].exists
     /\ users'[v].failed = 0 /\ SameGuesses(v)
  \/ /\ users'[v].failed = users[v].failed /\ SameGuesses(v)
     /\ users'[v].lock \in {users[v].lock, "lapsed"}
  \/ \E r \in Requests :
       /\ v = req[r].tgt /\ req[r].pc = "loaded" /\ req[r].op \in CounterOps
       /\ IsGuessed(r, v) \/ Clears(r, v)

LEMMA CountsOf ==
  ASSUME TypeInv, AdminAccountsAssumption, [Next]_vars, NEW v \in Admins
  PROVE  CountOf(v)
<1>1. CASE Quiet
  BY <1>1 DEF Quiet, CountOf, SameGuesses
<1>2. CASE \E u \in Admins : Lapses(u)
  BY <1>2 DEF Lapses, Touches, SameGuesses, CountOf
<1>3. ASSUME NEW r \in Requests, NEW u \in Admins, u = req[r].tgt, Effect(r, u)
      PROVE  CountOf(v)
  <2>1. CASE u # v
    <3>1. Touches(u)
      BY <1>3, EffectTouches
    <3>2. users'[v] = users[v] /\ past'[v] = past[v]
      BY <2>1, <3>1 DEF Touches
    <3> QED BY <3>2 DEF CountOf, SameGuesses
  <2>2. CASE u = v
    <3>1. CASE Guesses(r, u)
      <4>1. IsGuessed(r, v)
        BY <2>2, <3>1 DEF Guesses, IsGuessed
      <4> QED BY <1>3, <2>2, <3>1, <4>1 DEF Guesses, Loaded, CounterOps, CountOf
    <3>2. CASE \E s \in Sessions : SignsIn(r, s, u)
      <4>1. Loaded(r, "login") /\ Clears(r, v)
        BY <2>2, <3>2 DEF SignsIn
      <4> QED BY <1>3, <2>2, <4>1 DEF Loaded, CounterOps, CountOf
    <3>3. CASE RoleChanges(r, u)
      BY <2>2, <3>3 DEF RoleChanges, SameCount, CountOf
    <3>4. CASE StatusChanges(r, u)
      BY <2>2, <3>4 DEF StatusChanges, SameCount, CountOf
    <3>5. CASE PasswordResets(r, u)
      <4>1. (Loaded(r, "reset") \/ Loaded(r, "cli_reset")) /\ Clears(r, v)
        BY <2>2, <3>5 DEF PasswordResets, Resets
      <4> QED BY <1>3, <2>2, <4>1 DEF Loaded, CounterOps, CountOf
    <3>6. CASE PasswordChanges(r, u)
      BY <2>2, <3>6 DEF PasswordChanges, SameCount, CountOf
    <3>7. CASE IsUnlocked(r, u)
      <4>1. Loaded(r, "unlock") /\ Clears(r, v)
        BY <2>2, <3>7 DEF IsUnlocked, Unlocks
      <4> QED BY <1>3, <2>2, <4>1 DEF Loaded, CounterOps, CountOf
    <3>8. CASE Creation(r, u)
      BY <2>2, <3>8 DEF Creation, Creates, CountOf
    <3> QED BY <1>3, <3>1, <3>2, <3>3, <3>4, <3>5, <3>6, <3>7, <3>8 DEF Effect
  <2> QED BY <2>1, <2>2
<1> QED BY <1>1, <1>2, <1>3, EffectsOf

\* Whoever writes the counter of an account leaves a mark on the requests.
LEMMA CountsAreMarked ==
  ASSUME TypeInv, AdminAccountsAssumption, [Next]_vars, NEW v \in Admins
  PROVE  \/ users'[v].failed = users[v].failed
         \/ \A q \in Requests : Kept(q) /\ Busy(q) => Overtaken(q, v)'
<1>1. CASE Quiet
  BY <1>1 DEF Quiet
<1>2. CASE \E u \in Admins : Lapses(u)
  BY <1>2 DEF Lapses, Touches
<1>3. ASSUME NEW r \in Requests, NEW u \in Admins, Effect(r, u)
      PROVE  \/ users'[v].failed = users[v].failed
             \/ \A q \in Requests : Kept(q) /\ Busy(q) => Overtaken(q, v)'
  <2>1. Touches(u)
    BY <1>3, EffectTouches
  <2>2. CASE u # v
    BY <2>1, <2>2 DEF Touches
  <2>3. CASE u = v /\ (Ends(r, <<"login", u>>) \/ Ends(r, <<"account", u>>))
    <3>1. ASSUME NEW q \in Requests, Kept(q), Busy(q)
          PROVE  Overtaken(q, v)'
      <4>1. q # r
        BY <2>3, <3>1, IdleIsTyped DEF Ends, Kept, Busy
      <4>2. <<"login", v>> \in req'[q].crossed \/ <<"account", v>> \in req'[q].crossed
        BY <2>3, <3>1, <4>1 DEF Ends, Marked
      <4> QED BY <4>2 DEF Overtaken
    <3> QED BY <3>1
  <2>4. CASE u = v /\ PasswordChanges(r, u)
    BY <2>4 DEF PasswordChanges, SameCount
  <2> QED BY <1>3, <2>2, <2>3, <2>4, EffectTouches
<1> QED BY <1>1, <1>2, <1>3, EffectsOf

LEMMA ReadersStep ==
  ASSUME CounterInv, AdminAccountsAssumption, [Next]_vars, NEW q \in Requests
  PROVE  ReadTheCounter(q)'
<1>1. TypeInv /\ TypeInv' /\ Typed(req[q]) /\ Typed(req'[q])
  BY TypeStep DEF CounterInv, TypeInv
<1>2. Goes(q) /\ ReadTheCounter(q)
  BY <1>1, RequestsGo DEF CounterInv
<1>3. CASE Kept(q)
  <2>1. ASSUME NEW v \in Admins, Busy(q),
               Overtaken(q, v) \/ req[q].seen.failed = users[v].failed
        PROVE  (Overtaken(q, v) \/ req[q].seen.failed = users[v].failed)'
    <3>1. CASE Overtaken(q, v)
      BY <1>3, <3>1 DEF Kept, Overtaken
    <3>2. CASE req[q].seen.failed = users[v].failed
      BY <1>1, <1>3, <2>1, <3>2, CountsAreMarked DEF Kept
    <3> QED BY <2>1, <3>1, <3>2
  <2>2. CASE req[q].pc = "loaded" /\ req[q].op \in CounterOps
    <3>1. req[q].tgt \in Admins /\ Busy(q)
      BY <1>1, <2>2 DEF CounterOps, CliOps, AccountOps, Typed, Busy
    <3> QED BY <1>2, <1>3, <2>1, <2>2, <3>1 DEF Kept, ReadTheCounter
  <2>3. CASE req[q].pc = "admitted" /\ req[q].op = "reset"
    <3>1. req[q].by \in Admins /\ Busy(q)
      BY <1>1, <2>3 DEF CliOps, Typed, Busy
    <3> QED BY <1>2, <1>3, <2>1, <2>3, <3>1 DEF Kept, ReadTheCounter
  <2> QED BY <1>3, <2>2, <2>3 DEF Kept, ReadTheCounter
<1>4. CASE Moves(q)
  <2>1. CASE req'[q] = IdleReq
    BY <2>1, IdleIsTyped DEF ReadTheCounter
  <2>2. CASE req'[q] # IdleReq
    <3>1. users' = users
      BY <1>1, <1>4, <2>2, ReadersAreQuiet
    <3>2. CASE LoginBegins(q)
      BY <3>2 DEF LoginBegins, ReadTheCounter
    <3>3. CASE LoginLoads(q)
      BY <3>1, <3>3 DEF LoginLoads, ReadTheCounter
    <3>4. CASE Asks(q)
      BY <3>1, <3>4 DEF Asks, ReadTheCounter
    <3>5. CASE AccountLoads(q)
      <4>1. CASE req[q].op = "reset" /\ req[q].tgt = req[q].by
        BY <1>2, <3>1, <3>5, <4>1 DEF AccountLoads, ReadsOn, ReadTheCounter, Overtaken
      <4>2. CASE req[q].op = "reset" /\ req[q].tgt # req[q].by
        BY <3>1, <3>5, <4>2 DEF AccountLoads, ReadsOn, ReadTheCounter
      <4>3. CASE req[q].op # "reset"
        BY <3>5, <4>3 DEF AccountLoads, ReadsOn, ReadTheCounter, AccountOps, CounterOps
      <4> QED BY <4>1, <4>2, <4>3
    <3>6. CASE EditLoads(q)
      BY <3>6 DEF EditLoads, ReadsOn, ReadTheCounter, EditOps, CounterOps
    <3>7. CASE CliLoads(q)
      BY <3>1, <3>7 DEF CliLoads, ReadTheCounter
    <3> QED BY <1>4, <2>2, <3>2, <3>3, <3>4, <3>5, <3>6, <3>7 DEF Moves
  <2> QED BY <2>1, <2>2
<1>5. CASE req'[q].pc = "changed"
  BY <1>5 DEF ReadTheCounter
<1> QED BY <1>2, <1>3, <1>4, <1>5 DEF Goes

LEMMA ClearedIsCounted ==
  ASSUME NEW r, NEW v, Clears(r, v), MaxFailed \in Nat, MaxFailed > 0,
         users[v].failed \in Nat, past[v].guesses \in Nat,
         Counted(v), Overtaken(r, v) \/ req[r].seen.failed = users[v].failed
  PROVE  Counted(v)'
<1>1. SUFFICES ASSUME ~past'[v].crossed
               PROVE  past'[v].guesses <= users'[v].failed /\ users'[v].failed < MaxFailed
  BY DEF Counted
<1>2. ~past[v].crossed /\ ~Overtaken(r, v)
  BY <1>1 DEF Clears
<1>3. req[r].seen.failed = users[v].failed /\ past[v].guesses <= users[v].failed
  BY <1>2 DEF Counted
<1>4. users'[v].failed = 0
  BY <1>3 DEF Clears, Assign
<1>5. past'[v].guesses = 0
  BY <1>3 DEF Clears
<1> QED BY <1>4, <1>5

LEMMA GuessIsCounted ==
  ASSUME NEW r, NEW v, IsGuessed(r, v), MaxFailed \in Nat,
         users[v].failed \in Nat, past[v].guesses \in Nat,
         Counted(v), Overtaken(r, v) \/ req[r].seen.failed = users[v].failed
  PROVE  Counted(v)'
<1>1. SUFFICES ASSUME ~past'[v].crossed
               PROVE  /\ past'[v].guesses <= users'[v].failed
                      /\ users'[v].lock = "none" => users'[v].failed < MaxFailed
  BY DEF Counted
<1>2. ~past[v].crossed /\ ~Overtaken(r, v)
  BY <1>1 DEF IsGuessed
<1>3. req[r].seen.failed = users[v].failed /\ past[v].guesses <= users[v].failed
  BY <1>2 DEF Counted
<1>4. users'[v].failed = users[v].failed + 1 /\ past'[v].guesses = past[v].guesses + 1
      /\ (users'[v].lock = "none" => ~LocksAt(users[v].failed + 1))
  BY <1>3 DEF IsGuessed
<1> QED BY <1>3, <1>4 DEF LocksAt

LEMMA CounterStep ==
  ASSUME CounterInv, AdminAccountsAssumption, [Next]_vars
  PROVE  CounterInv'
<1>1. TypeInv /\ TypeInv' /\ (\A q \in Requests : Known(q)') /\ MaxFailed \in Nat /\ MaxFailed > 0
  BY TypeStep, KnownStep DEF CounterInv, AdminAccountsAssumption
<1>2. ASSUME NEW v \in Admins
      PROVE  (FreshAccount(v) /\ Counted(v))'
  <2>1. /\ FreshAccount(v) /\ Counted(v) /\ CountOf(v)
        /\ users[v].failed \in Nat /\ past[v].guesses \in Nat
    BY <1>1, CountsOf DEF CounterInv, TypeInv, TablesOK, UserRow, PastRow
  <2>2. CASE /\ ~users[v].exists /\ users'[v].exists
             /\ users'[v].failed = 0 /\ SameGuesses(v)
    BY <1>1, <2>1, <2>2 DEF FreshAccount, Counted, SameGuesses
  <2>3. CASE /\ users'[v].failed = users[v].failed /\ SameGuesses(v)
             /\ users'[v].lock \in {users[v].lock, "lapsed"}
    <3>1. FreshAccount(v)'
      BY <1>1, <2>1, <2>3, AccountsStay DEF FreshAccount, SameGuesses
    <3>2. Counted(v)'
      BY <2>1, <2>3 DEF Counted, SameGuesses
    <3> QED BY <3>1, <3>2
  <2>4. CASE \E r \in Requests :
               /\ v = req[r].tgt /\ req[r].pc = "loaded" /\ req[r].op \in CounterOps
               /\ IsGuessed(r, v) \/ Clears(r, v)
    <3>1. PICK r \in Requests :
               /\ v = req[r].tgt /\ req[r].pc = "loaded" /\ req[r].op \in CounterOps
               /\ IsGuessed(r, v) \/ Clears(r, v)
      BY <2>4
    <3>2. Overtaken(r, v) \/ req[r].seen.failed = users[v].failed
      BY <3>1 DEF CounterInv, ReadTheCounter
    <3>3. users'[v].exists
      BY <1>1, <3>1, AccountsStay DEF CounterInv, Known, CounterOps
    <3>4. Counted(v)'
      BY <1>1, <2>1, <3>1, <3>2, ClearedIsCounted, GuessIsCounted
    <3> QED BY <3>3, <3>4 DEF FreshAccount
  <2> QED BY <2>1, <2>2, <2>3, <2>4 DEF CountOf
<1>3. \A q \in Requests : ReadTheCounter(q)'
  BY ReadersStep
<1> QED BY <1>1, <1>2, <1>3 DEF CounterInv

\* Five wrong passwords lock the account although failed_attempts is counted from
\* a value read without a lock: while no two requests crossed on the account, a
\* free account has seen fewer guesses than the limit (login, admin_auth.py).
THEOREM GuessesLock == Spec => []WrongGuessesLock
<1>1. Init => CounterInv
  <2>1. SUFFICES ASSUME Init PROVE CounterInv
    OBVIOUS
  <2>2. TypeInv /\ MaxFailed \in Nat /\ MaxFailed > 0
    BY <2>1, TypeInit, AdminAccountsAssumption, AdminPanelAssumption DEF AdminAccountsAssumption
  <2>3. \A q \in Requests : req[q].pc = "idle"
    BY <2>1, IdleIsTyped DEF Init, AccountsInit
  <2>4. \A u \in Admins : users[u].failed = 0 /\ past[u].guesses = 0
    BY <2>1 DEF Init, AccountsInit, NoAdmin
  <2> QED BY <2>2, <2>3, <2>4
          DEF CounterInv, FreshAccount, Counted, Known, ReadTheCounter
<1>2. CounterInv /\ [Next]_vars => CounterInv'
  BY CounterStep, AdminAccountsAssumption
<1>3. CounterInv => WrongGuessesLock
  <2>1. SUFFICES ASSUME CounterInv, NEW u \in Admins, users[u].lock = "none",
                        ~past[u].crossed
                 PROVE  past[u].guesses < MaxFailed
    BY DEF WrongGuessesLock
  <2>2. /\ past[u].guesses \in Nat /\ users[u].failed \in Nat /\ MaxFailed \in Nat
        /\ past[u].guesses <= users[u].failed /\ users[u].failed < MaxFailed
    BY <2>1, AdminAccountsAssumption
       DEF CounterInv, Counted, TypeInv, TablesOK, UserRow, PastRow, AdminAccountsAssumption
  <2> QED BY <2>2
<1> QED BY <1>1, <1>2, <1>3, PTL DEF Spec
-----------------------------------------------------------------------------
(* One version of a shelf answers students.                                 *)

OneLive(k) == k \notin mixed => \A v, w \in ActiveIn(k) : v = w

\* An activation knows which versions are live, or another one overtook it.
KnowsTheLive(q) ==
  Loaded(q, "activate") =>
    \/ <<"activate", req[q].tgt>> \in req[q].crossed
    \/ req[q].seen.live = ActiveIn(req[q].tgt) \ {req[q].arg}

ShelfInv ==
  /\ TypeInv
  /\ \A k \in Shelves : OneLive(k)
  /\ \A q \in Requests : KnowsTheLive(q)

\* A step that adds a draft, one that activates, and every other step.
LEMMA ShelfSteps ==
  ASSUME TypeInv, [Next]_vars
  PROVE  \/ shelf' = shelf /\ mixed' = mixed
         \/ \E r \in Requests : CreateDraft(r) /\ ~Fails(r)
         \/ \E r \in Requests : Activate(r)
<1>1. ASSUME NEW r \in Requests, EditCommits(r), ~(CreateDraft(r) /\ ~Fails(r)), ~Activate(r)
      PROVE  shelf' = shelf /\ mixed' = mixed
  BY <1>1 DEF EditCommits, UpsertPlan, SetFlag, UpsertRoute, DeleteDocument,
              ReprocessDocument, NoteOnly, Fails, catalogVars
<1> QED BY <1>1, CatalogSteps DEF catalogVars

LEMMA DraftIsNotLive ==
  ASSUME TypeInv, NEW r \in Requests, CreateDraft(r), ~Fails(r)
  PROVE  \A k \in Shelves : ActiveIn(k)' = ActiveIn(k)
<1>1. PICK d \in Shelves : shelf' = [shelf EXCEPT ![d] = Append(shelf[d], "draft")]
  BY DraftAdded
<1>2. shelf \in [Shelves -> Seq({"draft", "active", "retired"})]
  BY DEF TypeInv, TablesOK
<1>3. ASSUME NEW k \in Shelves, k # d PROVE ActiveIn(k)' = ActiveIn(k)
  BY <1>1, <1>2, <1>3 DEF ActiveIn
<1>4. ActiveIn(d)' = ActiveIn(d)
  <2> DEFINE old == shelf[d]
             new == Append(old, "draft")
  <2>1. /\ DOMAIN new = DOMAIN old \cup {Len(old) + 1}
        /\ \A v \in DOMAIN old : new[v] = old[v]
        /\ new[Len(old) + 1] = "draft"
    BY <1>1, <1>2
  <2>2. shelf'[d] = new
    BY <1>1, <1>2
  <2>3. \A v : v \in DOMAIN new /\ new[v] = "active" <=> v \in DOMAIN old /\ old[v] = "active"
    <3> HIDE DEF new
    <3> QED BY <2>1
  <2> HIDE DEF new
  <2> QED BY <2>2, <2>3 DEF ActiveIn
<1> QED BY <1>3, <1>4

\* An activation that no other overtook leaves one version live.
LEMMA ActivationLeavesOne ==
  ASSUME TypeInv, NEW r \in Requests, Activate(r), NEW k, k = req[r].tgt, KnowsTheLive(r)
  PROVE  /\ k \in Shelves
         /\ \A j \in Shelves \ {k} : ActiveIn(j)' = ActiveIn(j) /\ (j \in mixed' <=> j \in mixed)
         /\ OneLive(k)'
         /\ Ends(r, <<"activate", k>>)
<1>1. /\ k \in Shelves /\ shelf' = [shelf EXCEPT ![k] = Activated(r, k)]
  BY ActivatedShelf
<1>2. shelf \in [Shelves -> Seq({"draft", "active", "retired"})] /\ Rows
  BY DEF TypeInv, TablesOK
<1>3. ASSUME NEW j \in Shelves \ {k}
      PROVE  ActiveIn(j)' = ActiveIn(j) /\ (j \in mixed' <=> j \in mixed)
  BY <1>1, <1>2 DEF ActiveIn, Activate
<1>4. Ends(r, <<"activate", k>>)
  BY <1>2, FinishMarks DEF Activate, Commits, Ends
<1>5. OneLive(k)'
  <2>1. SUFFICES ASSUME k \notin mixed', NEW v \in ActiveIn(k)'
                 PROVE  v = req[r].arg
    BY DEF OneLive
  <2>2. <<"activate", k>> \notin req[r].crossed
    BY <2>1 DEF Activate
  <2>3. req[r].seen.live = ActiveIn(k) \ {req[r].arg}
    BY <2>2 DEF KnowsTheLive, Activate, Loaded
  <2>4. shelf'[k] = Activated(r, k) /\ v \in DOMAIN Activated(r, k)
        /\ Activated(r, k)[v] = "active"
    BY <1>1, <1>2, <2>1 DEF ActiveIn
  <2>5. v \in DOMAIN shelf[k]
        /\ "active" = IF v = req[r].arg THEN Assign(req[r].seen.target, "active", shelf[k][v])
                      ELSE IF v \in req[r].seen.live THEN StoodDown(k)
                      ELSE shelf[k][v]
    BY <2>4 DEF Activated
  <2>6. CASE v # req[r].arg
    <3>1. v \notin req[r].seen.live
      BY <2>5, <2>6 DEF StoodDown
    <3>2. shelf[k][v] = "active"
      BY <2>5, <2>6, <3>1
    <3> QED BY <2>3, <2>5, <2>6, <3>1, <3>2 DEF ActiveIn
  <2> QED BY <2>6
<1> QED BY <1>1, <1>3, <1>4, <1>5

LEMMA ShelfStep ==
  ASSUME ShelfInv, AdminAccountsAssumption, [Next]_vars
  PROVE  ShelfInv'
<1>1. TypeInv /\ TypeInv'
  BY TypeStep DEF ShelfInv
<1>2. CASE (shelf' = shelf /\ mixed' = mixed) \/ \E r \in Requests : CreateDraft(r) /\ ~Fails(r)
  <2>1. mixed' = mixed /\ \A k \in Shelves : ActiveIn(k)' = ActiveIn(k)
    BY <1>1, <1>2, DraftIsNotLive, DraftAdded DEF ActiveIn
  <2>2. \A k \in Shelves : OneLive(k)'
    BY <2>1 DEF ShelfInv, OneLive
  <2>3. ASSUME NEW q \in Requests PROVE KnowsTheLive(q)'
    <3>1. SUFFICES ASSUME Loaded(q, "activate")'
                   PROVE  (\/ <<"activate", req[q].tgt>> \in req[q].crossed
                           \/ req[q].seen.live = ActiveIn(req[q].tgt) \ {req[q].arg})'
      BY DEF KnowsTheLive
    <3>2. Goes(q) /\ KnowsTheLive(q) /\ Typed(req'[q]) /\ req'[q] # IdleReq
      BY <1>1, <3>1, RequestsGo, IdleIsTyped DEF ShelfInv, TypeInv, Loaded
    <3>3. req'[q].tgt \in Shelves
      BY <3>1, <3>2 DEF Typed, CatalogTyped, Loaded
    <3>4. CASE Kept(q)
      BY <2>1, <3>1, <3>2, <3>3, <3>4 DEF Kept, KnowsTheLive, Loaded
    <3>5. CASE Moves(q)
      <4>1. EditLoads(q) /\ req'[q].op = "activate"
        BY <3>1, <3>2, <3>5 DEF Moves, LoginBegins, LoginLoads, Asks, AccountLoads, ReadsOn,
                                CliLoads, Loaded, AccountOps, CliOps
      <4>2. req'[q].seen.live = ActiveIn(req'[q].tgt) \ {req'[q].arg}
        BY <4>1 DEF EditLoads, ReadsOn, Read
      <4> QED BY <2>1, <3>3, <4>2
    <3> QED BY <3>1, <3>2, <3>4, <3>5 DEF Goes, Loaded
  <2> QED BY <1>1, <2>2, <2>3 DEF ShelfInv
<1>3. ASSUME NEW r \in Requests, Activate(r)
      PROVE  ShelfInv'
  <2>1. PICK k \in Shelves :
           /\ k = req[r].tgt
           /\ \A j \in Shelves \ {k} : ActiveIn(j)' = ActiveIn(j) /\ (j \in mixed' <=> j \in mixed)
           /\ OneLive(k)'
           /\ Ends(r, <<"activate", k>>)
    BY <1>1, <1>3, ActivationLeavesOne DEF ShelfInv
  <2>2. \A j \in Shelves : OneLive(j)'
    BY <2>1 DEF ShelfInv, OneLive
  <2>3. ASSUME NEW q \in Requests PROVE KnowsTheLive(q)'
    <3>1. SUFFICES ASSUME Loaded(q, "activate")'
                   PROVE  (\/ <<"activate", req[q].tgt>> \in req[q].crossed
                           \/ req[q].seen.live = ActiveIn(req[q].tgt) \ {req[q].arg})'
      BY DEF KnowsTheLive
    <3>2. q # r
      BY <2>1, <3>1, IdleIsTyped DEF Ends, Loaded
    <3>3. Marked(q, <<"activate", k>>) /\ Kept(q) /\ Busy(q)
      BY <2>1, <3>1, <3>2 DEF Ends, Marked, Kept, Loaded, Busy
    <3>4. CASE req[q].tgt = k
      BY <3>3, <3>4 DEF Marked, Kept
    <3>5. CASE req[q].tgt # k
      <4>1. req[q].tgt \in Shelves \ {k}
        BY <1>1, <3>1, <3>3, <3>5 DEF Kept, Loaded, TypeInv, Typed, CatalogTyped
      <4>2. KnowsTheLive(q) /\ Loaded(q, "activate")
        BY <3>1, <3>3 DEF ShelfInv, Kept, Loaded
      <4> QED BY <2>1, <3>3, <4>1, <4>2 DEF KnowsTheLive, Kept
    <3> QED BY <3>4, <3>5
  <2> QED BY <1>1, <2>2, <2>3 DEF ShelfInv
<1> QED BY <1>1, <1>2, <1>3, ShelfSteps

LEMMA AtMostOne ==
  ASSUME NEW S, \A v, w \in S : v = w
  PROVE  Cardinality(S) <= 1
<1>1. CASE S = {}
  BY <1>1, FS_EmptySet
<1>2. CASE S # {}
  <2>1. PICK v : S = {v}
    BY <1>2
  <2> QED BY <2>1, FS_Singleton
<1> QED BY <1>1, <1>2

\* Every shelf answers students from one version: only two activations that
\* overtook each other leave two, and the next one repairs the shelf.  A shelf
\* has one active version at most when the panel is opened, as the seeds leave
\* it (activate_version, routes/admin/catalog.py and tutors.py).
THEOREM OneVersionAnswers ==
  ASSUME \A x \in Shelved : \A v, w \in DOMAIN x : x[v] = "active" /\ x[w] = "active" => v = w
  PROVE  Spec => []OneActiveVersion
<1>1. Init => ShelfInv
  <2>1. SUFFICES ASSUME Init PROVE ShelfInv
    OBVIOUS
  <2>2. TypeInv
    BY <2>1, TypeInit, AdminAccountsAssumption, AdminPanelAssumption
  <2>3. \A q \in Requests : req[q].pc = "idle"
    BY <2>1, IdleIsTyped DEF Init, AccountsInit
  <2>4. \A k \in Shelves : shelf[k] \in Shelved
    BY <2>1 DEF Init
  <2> QED BY <2>2, <2>3, <2>4 DEF ShelfInv, OneLive, KnowsTheLive, Loaded, ActiveIn
<1>2. ShelfInv /\ [Next]_vars => ShelfInv'
  BY ShelfStep, AdminAccountsAssumption
<1>3. ShelfInv => OneActiveVersion
  BY AtMostOne DEF ShelfInv, OneLive, OneActiveVersion
<1> QED BY <1>1, <1>2, <1>3, PTL DEF Spec
-----------------------------------------------------------------------------
(* The audit trail explains itself.                                         *)

\* The fields of which every event tells the value before and after.
Told == {"role", "active", "plan", "flag", "route"}

Is(f, t) ==
  \/ f \in {"role", "active"} /\ t \in Admins /\ users[t].exists
  \/ f = "plan" /\ t \in Plans
  \/ f = "flag" /\ t \in Switches
  \/ f = "route" /\ t \in Routes

Value(f, t) ==
  IF f = "role" THEN users[t].role
  ELSE IF f = "active" THEN users[t].active
  ELSE IF f = "plan" THEN plans[t]
  ELSE IF f = "flag" THEN flags[t]
  ELSE routes[t]

\* No later event is about what event i is about.
LastAbout(i) ==
  \A l \in DOMAIN audit : l > i => audit[l].field # audit[i].field \/ audit[l].tgt # audit[i].tgt

\* The last event about a value that was written by an undisturbed request says
\* what the value is.
EventIsTrue(i) ==
  audit[i].field \in Told =>
    /\ Is(audit[i].field, audit[i].tgt)
    /\ audit[i].field = "flag" => audit[i].after \in {"on", "off"}
    /\ audit[i].crossed = {} /\ LastAbout(i) =>
         Value(audit[i].field, audit[i].tgt) = audit[i].after

\* A request nobody overtook has seen what it is about to change.
SeenIsTrue(q) ==
  req[q].crossed = {} =>
    /\ req[q].pc = "admitted" /\ req[q].op \in {"role", "status"} =>
         /\ req[q].seen.role = users[req[q].by].role
         /\ req[q].seen.active = users[req[q].by].active
    /\ Loaded(q, "role") => req[q].seen.role = users[req[q].tgt].role
    /\ Loaded(q, "status") => req[q].seen.active = users[req[q].tgt].active
    /\ Loaded(q, "flag") => req[q].seen = flags[req[q].tgt]
    /\ Loaded(q, "route") => req[q].seen = routes[req[q].tgt]

TrailInv ==
  /\ TypeInv
  /\ AuditIsASeq
  /\ \A q \in Requests : Known(q) /\ SeenIsTrue(q)
  /\ \A i \in DOMAIN audit : EventIsTrue(i)
  /\ AuditTrailIsConnected

\* What a step that writes no event, or one about field f of t, leaves alone.
AllStay == \A f \in Told : \A v : Is(f, v) => Is(f, v)' /\ Value(f, v)' = Value(f, v)

OthersStay(field, t) ==
  \A f \in Told : \A v : Is(f, v) => Is(f, v)' /\ (Value(f, v)' = Value(f, v) \/ (f = field /\ v = t))

\* An undisturbed request tells the truth about what it found and what it wrote.
Tells(r, t, field, before, after) ==
  /\ Is(field, t)'
  /\ field = "flag" => after \in {"on", "off"}
  /\ req[r].crossed = {} =>
       /\ Value(field, t)' = after
       /\ Is(field, t) => \/ before = Value(field, t)
                          \/ field = "flag" /\ Value(field, t) = "unset"

Event(r, t, field, before, after) ==
  /\ Record(r, field, before, after) /\ t = req[r].tgt
  /\ OthersStay(field, t)
  /\ field \in Told => Tells(r, t, field, before, after)

AnEvent == \E r \in Requests : \E t, field, before, after : Event(r, t, field, before, after)

LEMMA SameRowsStay ==
  ASSUME \A v \in Admins : SameRights(v), plans' = plans, flags' = flags, routes' = routes
  PROVE  AllStay
  BY DEF AllStay, Is, Value, SameRights, Told

\* The account handlers: a role or a status is changed, an account is created.
LEMMA AccountEvents ==
  ASSUME TypeInv, NEW r \in Requests, NEW u \in Admins, u = req[r].tgt, Known(r), SeenIsTrue(r),
         RoleChanges(r, u) \/ StatusChanges(r, u) \/ Creation(r, u),
         plans' = plans, flags' = flags, routes' = routes
  PROVE  (audit' = audit /\ AllStay) \/ AnEvent
<1>1. CASE RoleChanges(r, u)
  <2>1. /\ Loaded(r, "role") /\ Touches(u)
        /\ users'[u].exists = users[u].exists /\ users'[u].active = users[u].active
        /\ users'[u].role = Assign(req[r].seen.role, req[r].arg, users[u].role)
        /\ Record(r, "role", req[r].seen.role, req[r].arg)
    BY <1>1 DEF RoleChanges
  <2>2. users[u].exists /\ (req[r].crossed = {} => req[r].seen.role = users[u].role)
    BY <2>1 DEF Known, SeenIsTrue, Loaded
  <2>3. OthersStay("role", u)
    BY <2>1 DEF OthersStay, Is, Value, Touches, Told
  <2>4. Tells(r, u, "role", req[r].seen.role, req[r].arg)
    BY <2>1, <2>2 DEF Tells, Is, Value, Assign
  <2> QED BY <2>1, <2>3, <2>4 DEF AnEvent, Event
<1>2. CASE StatusChanges(r, u)
  <2>1. /\ Loaded(r, "status") /\ Touches(u)
        /\ users'[u].exists = users[u].exists /\ users'[u].role = users[u].role
        /\ users'[u].active = Assign(req[r].seen.active, req[r].arg, users[u].active)
        /\ Record(r, "active", req[r].seen.active, req[r].arg)
    BY <1>2 DEF StatusChanges
  <2>2. users[u].exists /\ (req[r].crossed = {} => req[r].seen.active = users[u].active)
    BY <2>1 DEF Known, SeenIsTrue, Loaded
  <2>3. OthersStay("active", u)
    BY <2>1 DEF OthersStay, Is, Value, Touches, Told
  <2>4. Tells(r, u, "active", req[r].seen.active, req[r].arg)
    BY <2>1, <2>2 DEF Tells, Is, Value, Assign
  <2> QED BY <2>1, <2>3, <2>4 DEF AnEvent, Event
<1>3. CASE Creation(r, u)
  <2>1. ~users[u].exists /\ Touches(u) /\ users'[u].exists
    BY <1>3 DEF Creation, Creates
  <2>2. AllStay
    BY <2>1 DEF AllStay, Is, Value, Touches, Told
  <2>3. CASE audit' = audit
    BY <2>2, <2>3
  <2>4. CASE audit' # audit
    <3>1. users'[u].role = req[r].arg /\ Record(r, "role", None, req[r].arg)
      BY <1>3, <2>4 DEF Creation, Creates
    <3>2. Tells(r, u, "role", None, req[r].arg)
      BY <2>1, <3>1 DEF Tells, Is, Value
    <3>3. OthersStay("role", u)
      BY <2>2 DEF AllStay, OthersStay
    <3> QED BY <3>1, <3>2, <3>3 DEF AnEvent, Event
  <2> QED BY <2>3, <2>4
<1> QED BY <1>1, <1>2, <1>3

\* Every other event an account handler writes is about a password.
LEMMA OtherAccountEvents ==
  ASSUME TypeInv, AccountsNext, \A v \in Admins : SameRights(v)
  PROVE  \/ audit' = audit
         \/ \E r \in Requests : Record(r, "pw", None, None)
         \/ \E r \in Requests, u \in Admins :
              u = req[r].tgt /\ (RoleChanges(r, u) \/ StatusChanges(r, u) \/ Creation(r, u))
<1>1. ASSUME NEW r \in Requests, SignInSteps(r) \/ RequestDies(r)
      PROVE  audit' = audit
  BY <1>1 DEF SignInSteps, RequestDies, LoginThrottle, LoginRead, WrongPassword, SignIn
<1>2. ASSUME NEW r \in Requests, ResetPassword(r) \/ AuditPassword(r)
      PROVE  Record(r, "pw", None, None)
  BY <1>2 DEF ResetPassword, AuditPassword
<1>3. ASSUME NEW r \in Requests, NEW u, u = req[r].tgt, ChangeRole(r)
      PROVE  u \in Admins /\ RoleChanges(r, u)
  <2>1. Loaded(r, "role")
    BY <1>3 DEF ChangeRole
  <2> QED BY <1>3, <2>1, ChangeRoleDoes DEF RoleChanges
<1>4. ASSUME NEW r \in Requests, NEW u, u = req[r].tgt, SetStatus(r)
      PROVE  u \in Admins /\ StatusChanges(r, u)
  <2>1. Loaded(r, "status")
    BY <1>4 DEF SetStatus
  <2> QED BY <1>4, <2>1, SetStatusDoes DEF StatusChanges
<1>5. ASSUME NEW r \in Requests, NEW u, u = req[r].tgt, CreateAdmin(r)
      PROVE  audit' = audit \/ (u \in Admins /\ Creation(r, u))
  <2>1. Loaded(r, "create")
    BY <1>5 DEF CreateAdmin
  <2>2. /\ u \in Admins /\ SessKept
        /\ \/ audit' = audit
           \/ /\ ~users[u].exists /\ Creates(u, req[r].arg)
              /\ Ends(r, <<"account", u>>) /\ Record(r, "role", None, req[r].arg)
    BY <1>5, CreateAdminDoes
  <2> QED BY <2>1, <2>2 DEF Creation
<1>6. ASSUME NEW r \in Requests, AccountSteps(r)
      PROVE  \/ audit' = audit
             \/ ResetPassword(r) \/ AuditPassword(r)
             \/ ChangeRole(r) \/ SetStatus(r) \/ CreateAdmin(r)
  BY <1>6 DEF AccountSteps, AskPassword, AskAccount, LoadAccount, ChangePassword, CliRead,
              Bootstrap, CliReset, CliUnlock
<1>7. CASE TimeSteps
  BY <1>7 DEF TimeSteps, IdleTimeout, Logout, SessionAges, LockLapses, WindowPasses
<1> QED BY <1>1, <1>2, <1>3, <1>4, <1>5, <1>6, <1>7 DEF AccountsNext

\* The edits: plans, switches and routes are what an event tells of.
LEMMA EditEvents ==
  ASSUME TypeInv, NEW r \in Requests, EditSteps(r), SeenIsTrue(r)
  PROVE  (audit' = audit /\ AllStay) \/ AnEvent
<1> DEFINE t == req[r].tgt
<1>1. users' = users /\ \A v \in Admins : SameRights(v)
  <2>1. Quiet
    BY Edits_Quiet DEF EditSteps, EditCommits
  <2> QED BY <2>1 DEF Quiet, SameRights
<1>2. CASE \/ \E s \in Sessions : AskEdit(r, s)
           \/ LoadEdit(r) \/ Fails(r)
  <2>1. audit' = audit /\ plans' = plans /\ flags' = flags /\ routes' = routes
    BY <1>2 DEF AskEdit, LoadEdit, Fails, catalogVars
  <2> QED BY <1>1, <2>1, SameRowsStay
<1>3. CASE ~Fails(r) /\ (\/ CreateDraft(r) \/ Activate(r) \/ DeleteDocument(r)
                         \/ ReprocessDocument(r) \/ NoteOnly(r))
  <2>1. plans' = plans /\ flags' = flags /\ routes' = routes
    BY <1>3 DEF CreateDraft, Activate, DeleteDocument, ReprocessDocument, NoteOnly, catalogVars
  <2>2. PICK field \in {"draft", "live", "deleted", "status", "note"} :
          \E before, after : Record(r, field, before, after)
    BY <1>3 DEF CreateDraft, Activate, DeleteDocument, ReprocessDocument, NoteOnly
  <2>3. OthersStay(field, t)
    BY <1>1, <2>1, SameRowsStay DEF AllStay, OthersStay
  <2> QED BY <2>2, <2>3 DEF AnEvent, Event, Told
<1>4. CASE ~Fails(r) /\ UpsertPlan(r)
  <2>1. /\ t \in Plans /\ plans[t] = req[r].seen
        /\ plans' = [plans EXCEPT ![t] = req[r].seen + 1]
        /\ flags' = flags /\ routes' = routes
        /\ Record(r, "plan", req[r].seen, req[r].seen + 1)
    BY <1>4 DEF UpsertPlan, Loaded, TypeInv, Typed, CatalogTyped
  <2>2. PICK k \in Plans : k = t
    BY <2>1
  <2>3. plans'[k] = req[r].seen + 1 /\ \A v \in Plans \ {k} : plans'[v] = plans[v]
    BY <2>1, <2>2 DEF TypeInv, TablesOK
  <2>4. OthersStay("plan", k)
    BY <1>1, <2>1, <2>3 DEF OthersStay, Is, Value, Told
  <2>5. Tells(r, k, "plan", req[r].seen, req[r].seen + 1)
    BY <2>1, <2>2, <2>3 DEF Tells, Is, Value
  <2> QED BY <2>1, <2>2, <2>4, <2>5 DEF AnEvent, Event
<1>5. CASE ~Fails(r) /\ SetFlag(r)
  <2> DEFINE before == IF req[r].seen = "unset" THEN "on" ELSE req[r].seen
  <2>1. /\ t \in Switches /\ req[r].arg \in {"on", "off"} /\ Loaded(r, "flag")
        /\ flags' = Upserted(r, flags)
        /\ plans' = plans /\ routes' = routes
        /\ Record(r, "flag", before, req[r].arg)
    BY <1>5 DEF SetFlag, Loaded, TypeInv, Typed, CatalogTyped
  <2>2. PICK k \in Switches : k = t
    BY <2>1
  <2>3. /\ flags'[k] = IF req[r].seen = "unset" THEN req[r].arg
                       ELSE Assign(req[r].seen, req[r].arg, flags[k])
        /\ \A v \in Switches \ {k} : flags'[v] = flags[v]
    BY <2>1, <2>2 DEF TypeInv, TablesOK, Upserted
  <2>4. OthersStay("flag", k)
    BY <1>1, <2>1, <2>3 DEF OthersStay, Is, Value, Told
  <2>5. req[r].crossed = {} => req[r].seen = flags[k]
    BY <2>1, <2>2 DEF SeenIsTrue
  <2>6. Tells(r, k, "flag", before, req[r].arg)
    BY <2>1, <2>2, <2>3, <2>5 DEF Tells, Is, Value, Assign
  <2> QED BY <2>1, <2>2, <2>4, <2>6 DEF AnEvent, Event
<1>6. CASE ~Fails(r) /\ UpsertRoute(r)
  <2>1. /\ t \in Routes /\ Loaded(r, "route")
        /\ routes' = Upserted(r, routes)
        /\ plans' = plans /\ flags' = flags
        /\ Record(r, "route", req[r].seen, req[r].arg)
    BY <1>6 DEF UpsertRoute, Loaded, TypeInv, Typed, CatalogTyped
  <2>2. PICK k \in Routes : k = t
    BY <2>1
  <2>3. /\ routes'[k] = IF req[r].seen = "unset" THEN req[r].arg
                        ELSE Assign(req[r].seen, req[r].arg, routes[k])
        /\ \A v \in Routes \ {k} : routes'[v] = routes[v]
    BY <2>1, <2>2 DEF TypeInv, TablesOK, Upserted
  <2>4. OthersStay("route", k)
    BY <1>1, <2>1, <2>3 DEF OthersStay, Is, Value, Told
  <2>5. req[r].crossed = {} => req[r].seen = routes[k]
    BY <2>1, <2>2 DEF SeenIsTrue
  <2>6. Tells(r, k, "route", req[r].seen, req[r].arg)
    BY <2>1, <2>2, <2>3, <2>5 DEF Tells, Is, Value, Assign
  <2> QED BY <2>1, <2>2, <2>4, <2>6 DEF AnEvent, Event
<1> QED BY <1>2, <1>3, <1>4, <1>5, <1>6 DEF EditSteps

LEMMA EventsTell ==
  ASSUME TrailInv, AdminAccountsAssumption, [Next]_vars
  PROVE  (audit' = audit /\ AllStay) \/ AnEvent
<1>1. TypeInv /\ \A q \in Requests : Known(q) /\ SeenIsTrue(q)
  BY DEF TrailInv
<1>2. CASE AccountsNext /\ UNCHANGED catalogVars
  <2>1. plans' = plans /\ flags' = flags /\ routes' = routes
    BY <1>2 DEF catalogVars
  <2>2. CASE \E r \in Requests, u \in Admins :
               u = req[r].tgt /\ (RoleChanges(r, u) \/ StatusChanges(r, u) \/ Creation(r, u))
    BY <1>1, <2>1, <2>2, AccountEvents
  <2>3. CASE \A v \in Admins : SameRights(v)
    <3>1. AllStay
      BY <2>1, <2>3, SameRowsStay
    <3>2. ASSUME NEW r \in Requests, Record(r, "pw", None, None)
          PROVE  AnEvent
      <4>1. OthersStay("pw", req[r].tgt)
        BY <3>1 DEF AllStay, OthersStay
      <4> QED BY <3>2, <4>1 DEF AnEvent, Event, Told
    <3> QED BY <1>1, <1>2, <2>2, <2>3, <3>1, <3>2, OtherAccountEvents
  <2> QED BY <1>1, <2>2, <2>3, RightsEffects
<1>3. CASE \E r \in Requests : EditSteps(r)
  BY <1>1, <1>3, EditEvents
<1>4. CASE UNCHANGED vars
  <2>1. users' = users /\ audit' = audit /\ plans' = plans /\ flags' = flags /\ routes' = routes
    BY <1>4 DEF vars, accountVars, catalogVars
  <2> QED BY <2>1, SameRowsStay DEF SameRights
<1> QED BY <1>2, <1>3, <1>4 DEF Next

\* Whoever changes a switch or a route leaves a mark on the requests.
LEMMA EditsAreMarked ==
  ASSUME TypeInv, [Next]_vars
  PROVE  \/ flags' = flags /\ routes' = routes
         \/ \A q \in Requests : UnderWay(q) /\ req'[q] # IdleReq => req'[q].crossed # {}
<1>1. CASE UNCHANGED catalogVars
  BY <1>1 DEF catalogVars
<1>2. ASSUME NEW r \in Requests, EditCommits(r)
      PROVE  \/ flags' = flags /\ routes' = routes
             \/ \E mark : Ends(r, mark)
  <2>1. CASE Fails(r)
    BY <2>1 DEF Fails, catalogVars
  <2>2. CASE ~Fails(r) /\ (SetFlag(r) \/ UpsertRoute(r))
    <3>1. \E kind : Finish(r, <<kind, req[r].tgt>>)
      BY <2>2 DEF SetFlag, UpsertRoute, Commits
    <3> QED BY <3>1, FinishMarks DEF Ends, TypeInv
  <2>3. CASE ~Fails(r) /\ ~SetFlag(r) /\ ~UpsertRoute(r)
    BY <1>2, <2>3 DEF EditCommits, UpsertPlan, CreateDraft, Activate, DeleteDocument,
                      ReprocessDocument, NoteOnly, catalogVars
  <2> QED BY <2>1, <2>2, <2>3
<1>3. ASSUME NEW r \in Requests, NEW mark, Ends(r, mark)
      PROVE  \A q \in Requests : UnderWay(q) /\ req'[q] # IdleReq => req'[q].crossed # {}
  BY <1>3 DEF Ends, Marked, UnderWay, Busy
<1> QED BY <1>1, <1>2, <1>3, CatalogSteps

\* Nothing is edited by the step in which a request asks or reads.
LEMMA ReadersEditNothing ==
  ASSUME TypeInv, [Next]_vars, NEW q \in Requests, Moves(q), req'[q] # IdleReq
  PROVE  flags' = flags /\ routes' = routes
<1>1. req'[q].pc # req[q].pc
  BY DEF Moves, LoginBegins, LoginLoads, Asks, AccountLoads, EditLoads, ReadsOn, CliLoads, Busy
<1>2. CASE UNCHANGED catalogVars
  BY <1>2 DEF catalogVars
<1>3. ASSUME NEW r \in Requests, EditCommits(r)
      PROVE  flags' = flags /\ routes' = routes
  <2>1. CASE Fails(r)
    BY <2>1 DEF Fails, catalogVars
  <2>2. CASE ~Fails(r) /\ (SetFlag(r) \/ UpsertRoute(r))
    <3>1. PICK mark : Finish(r, mark)
      BY <2>2 DEF SetFlag, UpsertRoute, Commits
    <3>2. q = r \/ Kept(q)
      BY <3>1, FinishMarks DEF Marked, TypeInv
    <3>3. req'[r] = IdleReq
      BY <3>1, FinishMarks DEF TypeInv
    <3> QED BY <1>1, <3>2, <3>3 DEF Kept
  <2>3. CASE ~Fails(r) /\ ~SetFlag(r) /\ ~UpsertRoute(r)
    BY <1>3, <2>3 DEF EditCommits, UpsertPlan, CreateDraft, Activate, DeleteDocument,
                      ReprocessDocument, NoteOnly, catalogVars
  <2> QED BY <2>1, <2>2, <2>3
<1> QED BY <1>2, <1>3, CatalogSteps

LEMMA SeenStep ==
  ASSUME TypeInv, AdminAccountsAssumption, [Next]_vars, NEW q \in Requests, SeenIsTrue(q)
  PROVE  SeenIsTrue(q)'
<1> DEFINE Reader(p) ==
      \/ req[p].pc = "admitted" /\ req[p].op \in {"role", "status"}
      \/ \E op \in {"role", "status", "flag", "route"} : Loaded(p, op)
<1>1. SUFFICES ASSUME req'[q].crossed = {}, Reader(q)' PROVE SeenIsTrue(q)'
  BY DEF SeenIsTrue
<1>2. req'[q] # IdleReq
  BY <1>1, IdleIsTyped DEF Loaded
<1>3. TypeInv'
  BY TypeStep
<1>4. /\ req'[q].by \in Admins
      /\ req'[q].op \in {"role", "status"} => req'[q].tgt \in Admins
  BY <1>1, <1>3 DEF TypeInv, Typed, Loaded, AccountOps, CliOps
<1>5. CASE Kept(q)
  <2>1. Reader(q) /\ req[q].crossed = {} /\ UnderWay(q)
    BY <1>1, <1>5 DEF Kept, Loaded, UnderWay, CliOps
  <2>2. \A v \in Admins : users'[v].role = users[v].role /\ users'[v].active = users[v].active
    BY <1>1, <1>2, <2>1, RightsAreMarked DEF RightsMarked
  <2>3. flags' = flags /\ routes' = routes
    BY <1>1, <1>2, <2>1, EditsAreMarked
  <2> QED BY <1>1, <1>4, <1>5, <2>1, <2>2, <2>3 DEF Kept, SeenIsTrue, Loaded
<1>6. CASE Moves(q)
  <2>1. users' = users /\ flags' = flags /\ routes' = routes
    BY <1>2, <1>6, ReadersAreQuiet, ReadersEditNothing
  <2>2. CASE Asks(q)
    BY <2>1, <2>2 DEF Asks, SeenIsTrue, Loaded
  <2>3. CASE AccountLoads(q)
    BY <1>1, <2>1, <2>3 DEF AccountLoads, ReadsOn, AccountOps, SeenIsTrue, Loaded
  <2>4. CASE EditLoads(q)
    <3>1. /\ req'[q].op = "flag" => req'[q].seen = flags[req'[q].tgt]
          /\ req'[q].op = "route" => req'[q].seen = routes[req'[q].tgt]
          /\ req'[q].op \notin {"role", "status"} /\ req'[q].pc = "loaded"
      BY <2>4 DEF EditLoads, ReadsOn, Read, EditOps
    <3> QED BY <2>1, <3>1 DEF SeenIsTrue, Loaded
  <2>5. CASE LoginBegins(q) \/ LoginLoads(q) \/ CliLoads(q)
    BY <1>1, <2>5 DEF LoginBegins, LoginLoads, CliLoads, Loaded, CliOps
  <2> QED BY <1>2, <1>6, <2>2, <2>3, <2>4, <2>5 DEF Moves
<1> QED BY <1>1, <1>5, <1>6, RequestsGo DEF Goes, Loaded

\* A trail that no event was added to.
LEMMA TrailUntouched ==
  ASSUME TrailInv, audit' = audit, AllStay
  PROVE  /\ AuditIsASeq' /\ \A i \in DOMAIN audit' : EventIsTrue(i)'
         /\ AuditTrailIsConnected'
<1>1. AuditIsASeq' /\ AuditTrailIsConnected'
  BY DEF TrailInv, AuditIsASeq, AuditTrailIsConnected, Precedes
<1>2. ASSUME NEW i \in DOMAIN audit PROVE EventIsTrue(i)'
  <2>1. SUFFICES ASSUME audit[i].field \in Told
                 PROVE  EventIsTrue(i)'
    BY DEF EventIsTrue
  <2>2. EventIsTrue(i)
    BY DEF TrailInv
  <2>3. PICK f \in Told : f = audit[i].field
    BY <2>1
  <2>4. PICK t : t = audit[i].tgt
    OBVIOUS
  <2>5. Is(f, t) /\ Is(f, t)' /\ Value(f, t)' = Value(f, t)
    BY <2>1, <2>2, <2>3, <2>4 DEF EventIsTrue, AllStay
  <2>6. audit'[i].field = f /\ audit'[i].tgt = t /\ (LastAbout(i)' <=> LastAbout(i))
    BY <2>3, <2>4 DEF LastAbout
  <2>7. /\ Is(f, t)' /\ (f = "flag" => audit'[i].after \in {"on", "off"})
        /\ audit'[i].crossed = {} /\ LastAbout(i)' => Value(f, t)' = audit'[i].after
    BY <2>1, <2>2, <2>3, <2>4, <2>5, <2>6 DEF EventIsTrue
  <2> QED BY <2>6, <2>7 DEF EventIsTrue
<1> QED BY <1>1, <1>2

\* The new event connects to the one before it, and is true itself.
LEMMA TrailExtended ==
  ASSUME TrailInv, NEW r \in Requests, NEW t, NEW field, NEW before, NEW after,
         Event(r, t, field, before, after)
  PROVE  /\ AuditIsASeq' /\ \A i \in DOMAIN audit' : EventIsTrue(i)'
         /\ AuditTrailIsConnected'
<1> DEFINE new == Entry(r, field, before, after)
<1>n. PICK n : n = Len(audit) + 1
  OBVIOUS
<1>1. /\ AuditIsASeq' /\ n \in Nat
      /\ \A i \in DOMAIN audit : i \in Nat /\ i < n
      /\ DOMAIN audit' = DOMAIN audit \cup {n}
      /\ \A i \in DOMAIN audit : audit'[i] = audit[i]
      /\ audit'[n] = new
  <2>1. Record(r, field, before, after)
    BY DEF Event
  <2>2. /\ AuditIsASeq' /\ Len(audit) \in Nat /\ DOMAIN audit = 1..Len(audit)
        /\ DOMAIN audit' = DOMAIN audit \cup {n}
        /\ \A i \in DOMAIN audit : audit'[i] = audit[i]
        /\ audit'[n] = new
    BY <1>n, <2>1, AuditGrows DEF TrailInv
  <2> HIDE DEF new
  <2> QED BY <1>n, <2>2
<1>2. /\ new.field = field /\ new.tgt = t /\ new.before = before /\ new.after = after
      /\ new.crossed = req[r].crossed
  BY DEF Entry, Event
<1> HIDE DEF new
<1>3. ASSUME NEW i \in DOMAIN audit, LastAbout(i)'
      PROVE  LastAbout(i) /\ ~(audit[i].field = field /\ audit[i].tgt = t)
  BY <1>1, <1>2, <1>3 DEF LastAbout
<1>4. ASSUME NEW i \in DOMAIN audit PROVE EventIsTrue(i)'
  <2>1. SUFFICES ASSUME audit[i].field \in Told
                 PROVE  EventIsTrue(i)'
    BY <1>1 DEF EventIsTrue
  <2>2. EventIsTrue(i)
    BY DEF TrailInv
  <2>3. PICK f \in Told : f = audit[i].field
    BY <2>1
  <2>4. PICK v : v = audit[i].tgt
    OBVIOUS
  <2>5. /\ Is(f, v) /\ Is(f, v)'
        /\ Value(f, v)' = Value(f, v) \/ (f = field /\ v = t)
    BY <2>1, <2>2, <2>3, <2>4 DEF EventIsTrue, Event, OthersStay
  <2>6. audit'[i] = audit[i] /\ audit'[i].field = f /\ audit'[i].tgt = v
    BY <1>1, <2>3, <2>4
  <2>7. audit'[i].crossed = {} /\ LastAbout(i)' => Value(f, v)' = audit'[i].after
    BY <1>3, <2>1, <2>2, <2>3, <2>4, <2>5, <2>6 DEF EventIsTrue
  <2>8. f = "flag" => audit'[i].after \in {"on", "off"}
    BY <2>1, <2>2, <2>3, <2>6 DEF EventIsTrue
  <2> QED BY <2>5, <2>6, <2>7, <2>8 DEF EventIsTrue
<1>5. EventIsTrue(n)'
  <2>1. SUFFICES ASSUME field \in Told
                 PROVE  EventIsTrue(n)'
    BY <1>1, <1>2 DEF EventIsTrue
  <2>2. Tells(r, t, field, before, after)
    BY <2>1 DEF Event
  <2>3. /\ audit'[n].field = field /\ audit'[n].tgt = t /\ audit'[n].after = after
        /\ audit'[n].crossed = req[r].crossed
    BY <1>1, <1>2
  <2> QED BY <2>2, <2>3 DEF EventIsTrue, Tells
<1>6. AuditTrailIsConnected'
  <2>1. SUFFICES ASSUME NEW i \in DOMAIN audit', NEW j \in DOMAIN audit', Precedes(j, i)',
                        audit'[i].field \in Told,
                        audit'[i].crossed = {}, audit'[j].crossed = {}
                 PROVE  audit'[i].before = audit'[j].after
    BY DEF AuditTrailIsConnected, Told
  <2>2. CASE i \in DOMAIN audit
    <3>1. j \in DOMAIN audit /\ audit'[i] = audit[i] /\ audit'[j] = audit[j]
      BY <1>1, <2>1, <2>2 DEF Precedes
    <3>2. \A l \in j+1..i-1 : l \in DOMAIN audit
      BY <1>1, <1>n, <2>2, <3>1 DEF TrailInv, AuditIsASeq
    <3>3. Precedes(j, i)
      BY <1>1, <2>1, <2>2, <3>1, <3>2 DEF Precedes
    <3> QED BY <2>1, <2>2, <3>1, <3>3 DEF TrailInv, AuditTrailIsConnected, Told
  <2>3. CASE i = n
    <3>1. /\ j \in DOMAIN audit /\ audit'[j] = audit[j]
          /\ audit[j].field = field /\ audit[j].tgt = t
          /\ field \in Told /\ req[r].crossed = {} /\ audit'[i].before = before
      BY <1>1, <1>2, <2>1, <2>3 DEF Precedes
    <3>2. LastAbout(j)
      BY <1>1, <1>2, <2>1, <2>3, <3>1 DEF LastAbout, Precedes
    <3>3. /\ Is(field, t) /\ Value(field, t) = audit[j].after
          /\ field = "flag" => audit[j].after \in {"on", "off"}
      BY <2>1, <3>1, <3>2 DEF TrailInv, EventIsTrue
    <3>4. before = Value(field, t) \/ (field = "flag" /\ Value(field, t) = "unset")
      BY <3>1, <3>3 DEF Event, Tells
    <3> QED BY <3>1, <3>3, <3>4
  <2> QED BY <1>1, <2>2, <2>3
<1> QED BY <1>1, <1>4, <1>5, <1>6

LEMMA TrailStep ==
  ASSUME TrailInv, AdminAccountsAssumption, [Next]_vars
  PROVE  TrailInv'
<1>1. TypeInv /\ TypeInv' /\ \A q \in Requests : Known(q)' /\ SeenIsTrue(q)'
  BY TypeStep, KnownStep, SeenStep DEF TrailInv
<1>2. AuditIsASeq' /\ (\A i \in DOMAIN audit' : EventIsTrue(i)') /\ AuditTrailIsConnected'
  BY EventsTell, TrailUntouched, TrailExtended DEF AnEvent
<1> QED BY <1>1, <1>2 DEF TrailInv

\* The trail explains itself: between two undisturbed changes of a role, a
\* status, a plan, a kill switch or a price that follow one another, the later
\* finds what the earlier wrote (record_audit beside every handler's commit).
THEOREM TheTrailIsConnected == Spec => []AuditTrailIsConnected
<1>1. Init => TrailInv
  <2>1. SUFFICES ASSUME Init PROVE TrailInv
    OBVIOUS
  <2>2. RightsInv
    BY <2>1, RightsInit
  <2>3. audit = <<>> /\ DOMAIN audit = {} /\ \A q \in Requests : req[q].pc = "idle"
    BY <2>1, IdleIsTyped DEF Init, AccountsInit
  <2> QED BY <2>2, <2>3
          DEF RightsInv, TrailInv, Known, SeenIsTrue, Loaded, AuditTrailIsConnected
<1>2. TrailInv /\ [Next]_vars => TrailInv'
  BY TrailStep, AdminAccountsAssumption
<1>3. TrailInv => AuditTrailIsConnected
  BY DEF TrailInv
<1> QED BY <1>1, <1>2, <1>3, PTL DEF Spec
=============================================================================
