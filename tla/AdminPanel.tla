------------------------------ MODULE AdminPanel ------------------------------
(***************************************************************************)
(* What signed-in operators edit: plan policies, prompt and persona         *)
(* versions, kill switches, model routes and documents                      *)
(* (api/routes/admin/catalog.py, tutors.py, students.py).  The requests are *)
(* those of AdminAccounts: a session resolved, rows read, one commit with   *)
(* the audit event in it, and no lock on what was read.                     *)
(***************************************************************************)
EXTENDS AdminAccounts

CONSTANTS
  Plans,       \* plan codes
  Blocks,      \* prompt blocks
  Personas,    \* tutors, each with persona versions
  Switches,    \* kill switches
  Routes,      \* (alias, provider, model) of the model catalog
  Prices,
  Documents,
  Shelved,     \* what a shelf may hold when the panel is opened
  MaxVersions  \* bound on the versions of one shelf

ASSUME AdminPanelAssumption ==
  /\ Switches \subseteq KillSwitchKeys
  /\ MaxVersions \in Nat
  /\ Blocks \cap Personas = {}
  /\ Shelved \subseteq Seq({"draft", "active", "retired"})

VARIABLES
  plans,   \* per plan, its published versions
  shelf,   \* per block and tutor, the status of versions 1, 2, ...
  mixed,   \* shelves whose last activation was overtaken by another
  flags,   \* feature_flags
  routes,  \* model_catalog prices
  docs     \* knowledge_sources

catalogVars == <<plans, shelf, mixed, flags, routes, docs>>
vars == <<accountVars, catalogVars>>

Shelves == Blocks \cup Personas

Init ==
  /\ AccountsInit
  /\ plans = [p \in Plans |-> 0]
  /\ shelf \in [Shelves -> Shelved]
  /\ mixed = {}
  /\ flags = [k \in Switches |-> "unset"]
  /\ routes = [k \in Routes |-> "unset"]
  /\ docs = [d \in Documents |-> [status |-> "READY", deleted |-> FALSE]]

-----------------------------------------------------------------------------
(* Reading: the row a handler will change.                                  *)

ActiveIn(k) == {v \in DOMAIN shelf[k] : shelf[k][v] = "active"}

EditOps == {"plan", "draft", "activate", "flag", "route", "delete", "reprocess",
            "note"}

AskEdit(r, s) ==
  /\ left.edits > 0 /\ left' = [left EXCEPT !.edits = @ - 1]
  /\ \/ \E p \in Plans : Admit(r, s, "plan", "plan:write", p, None)
     \/ \E k \in {b \in Blocks : Len(shelf[b]) < MaxVersions} :
          Admit(r, s, "draft", "prompt:write", k, None)
     \/ \E k \in {p \in Personas : Len(shelf[p]) < MaxVersions} :
          Admit(r, s, "draft", "tutor:write", k, None)
     \/ \E k \in Blocks, v \in 1..MaxVersions :
          Admit(r, s, "activate", "prompt:write", k, v)
     \/ \E k \in Personas, v \in 1..MaxVersions :
          Admit(r, s, "activate", "persona:activate", k, v)
     \/ \E k \in Switches, on \in {"on", "off"} : Admit(r, s, "flag", "flag:write", k, on)
     \/ \E k \in Routes, price \in Prices : Admit(r, s, "route", "model:write", k, price)
     \/ \E d \in Documents, op \in {"delete", "reprocess"} :
          Admit(r, s, op, "document:write", d, None)
     \/ Admit(r, s, "note", "student:write", None, None)
  /\ UNCHANGED <<users, sess, tries, audit, past, catalogVars>>

\* What each handler selects; activation takes the target and the live versions.
Read(r) ==
  LET k == req[r].tgt IN
  CASE req[r].op = "plan"     -> plans[k]
    [] req[r].op = "draft"    -> Len(shelf[k])
    [] req[r].op = "activate" -> [target |-> shelf[k][req[r].arg],
                                  live |-> ActiveIn(k) \ {req[r].arg}]
    [] req[r].op = "flag"     -> flags[k]
    [] req[r].op = "route"    -> routes[k]
    [] req[r].op = "note"     -> None
    [] OTHER                  -> docs[k]

LoadEdit(r) ==
  /\ req[r].pc = "admitted"
  /\ req[r].op \in EditOps
  /\ IF req[r].op = "activate" /\ req[r].arg \notin DOMAIN shelf[req[r].tgt]
     THEN Drop(r)
     ELSE req' = [req EXCEPT ![r] = [@ EXCEPT !.pc = "loaded", !.seen = Read(r)]]
  /\ UNCHANGED <<users, sess, tries, audit, past, left, catalogVars>>
-----------------------------------------------------------------------------
(* Committing.                                                              *)

Commits(r, kind) ==
  /\ sess' = Seen(r)
  /\ Finish(r, <<kind, req[r].tgt>>)
  /\ UNCHANGED <<users, tries, past, left>>

\* A unique constraint refuses the second of two equal keys: the handler fails.
Fails(r) ==
  /\ Drop(r)
  /\ UNCHANGED <<users, sess, tries, audit, past, left, catalogVars>>

UpsertPlan(r) ==
  LET p == req[r].tgt IN
  /\ Loaded(r, "plan")
  /\ IF plans[p] # req[r].seen
     THEN Fails(r)
     ELSE /\ plans' = [plans EXCEPT ![p] = req[r].seen + 1]
          /\ Record(r, "plan", req[r].seen, req[r].seen + 1)
          /\ Commits(r, "plan")
          /\ UNCHANGED <<shelf, mixed, flags, routes, docs>>

CreateDraft(r) ==
  LET k == req[r].tgt IN
  /\ Loaded(r, "draft")
  /\ IF Len(shelf[k]) # req[r].seen
     THEN Fails(r)
     ELSE /\ shelf' = [shelf EXCEPT ![k] = Append(@, "draft")]
          /\ Record(r, "draft", req[r].seen, req[r].seen + 1)
          /\ Commits(r, "draft")
          /\ UNCHANGED <<plans, mixed, flags, routes, docs>>

\* Mutant: standing down writes a status nothing else knows.
StoodDownAsInactive(k) == "inactive"

\* A persona is switched off, a prompt version is retired.
StoodDown(k) == IF k \in Blocks THEN "retired" ELSE "draft"

\* Mutant: the new version goes live before the old ones are looked up.
ActivatedBeside(r, k) ==
  [shelf[k] EXCEPT ![req[r].arg] = Assign(req[r].seen.target, "active", @)]

Activated(r, k) ==
  [v \in DOMAIN shelf[k] |->
     IF v = req[r].arg THEN Assign(req[r].seen.target, "active", shelf[k][v])
     ELSE IF v \in req[r].seen.live THEN StoodDown(k)
     ELSE shelf[k][v]]

Activate(r) ==
  LET k == req[r].tgt IN
  /\ Loaded(r, "activate")
  /\ shelf' = [shelf EXCEPT ![k] = Activated(r, k)]
  /\ mixed' = IF <<"activate", k>> \in req[r].crossed
              THEN mixed \cup {k} ELSE mixed \ {k}
  /\ Record(r, "live", req[r].seen.live, req[r].arg)
  /\ Commits(r, "activate")
  /\ UNCHANGED <<plans, flags, routes, docs>>

\* Mutant: an existing row is audited but not assigned.
InsertedOnly(r, table) ==
  [table EXCEPT ![req[r].tgt] = IF req[r].seen = "unset" THEN req[r].arg ELSE @]

\* Insert the row or update the one that was read; `table` has a unique key.
Upserted(r, table) ==
  [table EXCEPT ![req[r].tgt] =
     IF req[r].seen = "unset" THEN req[r].arg ELSE Assign(req[r].seen, req[r].arg, @)]

InsertsTwice(r, table) == req[r].seen = "unset" /\ table[req[r].tgt] # "unset"

SetFlag(r) ==
  /\ Loaded(r, "flag")
  /\ IF InsertsTwice(r, flags)
     THEN Fails(r)
     ELSE /\ flags' = Upserted(r, flags)
          /\ Record(r, "flag", IF req[r].seen = "unset" THEN "on" ELSE req[r].seen,
                    req[r].arg)
          /\ Commits(r, "flag")
          /\ UNCHANGED <<plans, shelf, mixed, routes, docs>>

UpsertRoute(r) ==
  /\ Loaded(r, "route")
  /\ IF InsertsTwice(r, routes)
     THEN Fails(r)
     ELSE /\ routes' = Upserted(r, routes)
          /\ Record(r, "route", req[r].seen, req[r].arg)
          /\ Commits(r, "route")
          /\ UNCHANGED <<plans, shelf, mixed, flags, docs>>

DeleteDocument(r) ==
  /\ Loaded(r, "delete")
  /\ docs' = [docs EXCEPT ![req[r].tgt].deleted = TRUE]
  /\ Record(r, "deleted", None, None)
  /\ Commits(r, "document")
  /\ UNCHANGED <<plans, shelf, mixed, flags, routes>>

ReprocessDocument(r) ==
  /\ Loaded(r, "reprocess")
  /\ docs' = [docs EXCEPT ![req[r].tgt].status = Assign(req[r].seen.status, "PENDING", @)]
  /\ Record(r, "status", req[r].seen.status, "PENDING")
  /\ Commits(r, "document")
  /\ UNCHANGED <<plans, shelf, mixed, flags, routes>>

\* reset_quota and create_tutor: nothing these properties read but the audit.
NoteOnly(r) ==
  /\ Loaded(r, "note")
  /\ Record(r, "note", None, None)
  /\ Commits(r, "note")
  /\ UNCHANGED catalogVars

EditSteps(r) ==
  \/ \E s \in Sessions : AskEdit(r, s)
  \/ LoadEdit(r)
  \/ UpsertPlan(r) \/ CreateDraft(r) \/ Activate(r) \/ SetFlag(r) \/ UpsertRoute(r)
  \/ DeleteDocument(r) \/ ReprocessDocument(r) \/ NoteOnly(r)

Next ==
  \/ AccountsNext /\ UNCHANGED catalogVars
  \/ \E r \in Requests : EditSteps(r)

Spec == Init /\ [][Next]_vars
-----------------------------------------------------------------------------
(* Properties.                                                              *)

\* Every variable keeps its shape.
TypeOK ==
  /\ users \in [Admins -> [exists : BOOLEAN, role : Role, active : BOOLEAN,
                           pw : Nat, weak : BOOLEAN, must : BOOLEAN, failed : Nat,
                           lock : {"none", "held", "lapsed"}]]
  /\ sess \in [Sessions -> [state : {"unused", "live", "revoked"}, user : Admins \cup {None},
                            age : {"fresh", "idle", "expired"}, pw : Nat,
                            since : Nat, made : Nat]]
  /\ tries \in [Ips -> Nat]
  /\ \A r \in Requests : req[r].pc \in {"idle", "counted", "admitted", "loaded", "changed"}
  /\ plans \in [Plans -> Nat]
  /\ shelf \in [Shelves -> Seq({"draft", "active", "retired"})]
  /\ mixed \subseteq Shelves

Supers == {u \in Admins : /\ users[u].exists /\ users[u].active
                          /\ users[u].role = "SUPER_ADMIN"}

\* No account ever was a super admin: there is none yet, or the panel was
\* bootstrapped with a lesser role, and nobody's rights were changed since.
NeverHadOne ==
  /\ \A u \in Admins : users[u].role # "SUPER_ADMIN"
  /\ \A i \in DOMAIN audit : audit[i].field \notin {"role", "active"}

\* Event i: an operator disabled their own account.
SelfDisabled(i) ==
  audit[i].field = "active" /\ audit[i].tgt = audit[i].by /\ audit[i].after = FALSE

\* A team with a super admin keeps one, whatever operators do to each other at
\* once, by any sequence of role and status changes, but for two ways to lose
\* the last: a change committed for an operator who had lost the right to it
\* since the request began, and an operator who disabled their own account.
SuperAdminRemains ==
  \/ Supers # {}
  \/ NeverHadOne
  \/ \E i \in DOMAIN audit : ~audit[i].may \/ SelfDisabled(i)

\* Losing a role or an account takes effect on every request that starts after
\* it: only a request it overtook is committed without the permission it needs.
RevokedRightsEndWithTheRequest ==
  \A i \in DOMAIN audit :
    audit[i].may \/ <<"account", audit[i].by>> \in audit[i].crossed

\* Five revocations share revoke_all_for_user: no live session was issued before
\* the last revocation of its account, and one opened with a password that has
\* been replaced since was being issued while that happened.
RevokedSessionsStayDead ==
  \A s \in Sessions :
    LET u == sess[s].user IN
    sess[s].state = "live" =>
      /\ sess[s].made = past[u].revoked
      /\ \/ sess[s].pw = users[u].pw
         \/ sess[s].since < sess[s].made
         \/ past[u].undone

\* failed_attempts is counted from a value read without a lock, yet as long as no
\* two requests crossed on the account, MaxFailed wrong passwords do lock it.
WrongGuessesLock ==
  \A u \in Admins :
    users[u].lock = "none" => past[u].guesses < MaxFailed \/ past[u].crossed

\* A shelf answers students from one version; only two activations that overtook
\* each other leave two, and the next activation of the shelf repairs it.
OneActiveVersion ==
  \A k \in Shelves \ mixed : Cardinality(ActiveIn(k)) <= 1

\* The last event before i about the same field of the same target.
Precedes(j, i) ==
  /\ j < i /\ audit[j].field = audit[i].field /\ audit[j].tgt = audit[i].tgt
  /\ \A l \in j+1..i-1 : audit[l].field # audit[i].field \/ audit[l].tgt # audit[i].tgt

\* The audit trail explains itself: what an event says a value was is what the
\* event before it says the value became, unless one of the two was overtaken.
AuditTrailIsConnected ==
  \A i \in DOMAIN audit : \A j \in DOMAIN audit :
    /\ Precedes(j, i)
    /\ audit[i].field \in {"role", "active", "plan", "flag", "route"}
    /\ audit[i].crossed = {} /\ audit[j].crossed = {}
    => audit[i].before = audit[j].after
==============================================================================
