------------------------------- MODULE TutorTurn -------------------------------
(***************************************************************************)
(* What a turn may cost (orchestration/entry_service.py,                    *)
(* providers/gateway.py, capabilities/executor.py): it is planned from the  *)
(* ledger, calls the vendors with no transaction open, and writes a row for *)
(* each call when it settles.  Turns that run together see the same ledger, *)
(* and one that dies leaves none of its calls in it.                        *)
(*                                                                          *)
(* EntryService has the message around it: claim, reply, redelivery.        *)
(***************************************************************************)
EXTENDS Budgeting

CONSTANTS
  Sessions,   \* requests the service runs concurrently
  Students,
  Plan,       \* student -> their plan policy
  Limits,     \* the platform's own: hourly, daily, providerDaily, circuit
  Asked,      \* [message, history], what may be asked
  Keys,       \* the sets of vendors that may have a key
  System,     \* tokens of the system prompt
  MaxTurns,   \* bound on the turns
  LastTick    \* bound on the time

ASSUME TutorTurnAssumption ==
  /\ IsFiniteSet(Sessions) /\ Sessions # {} /\ System \in Nat /\ MaxTurns \in Nat /\ LastTick \in Nat
  /\ Keys \subseteq SUBSET {"anthropic", "openai"}
  /\ {Limits.hourly, Limits.daily, Limits.providerDaily} \subseteq Nat \cup {NoLimit}
  /\ Limits.circuit \in Nat \ {0}
  /\ \A who \in Students : {Plan[who].calls, Plan[who].daily, Plan[who].monthly} \subseteq Nat \cup {NoLimit}

VARIABLES
  now,
  wired,    \* vendors with a configured key
  enabled,  \* the ai_enabled flag
  ledger,   \* usage_ledger
  turn,     \* session -> its turn
  turns     \* turns so far

vars == <<now, wired, enabled, ledger, turn, turns>>

Vendors == <<"anthropic", "openai">>

\* Every alias of a text model has one seed with each vendor; the first that
\* is wired serves it.
Aliases == {"CHEAP_TEXT", "STANDARD_TUTOR", "ADVANCED_REASONING", "VERIFIER_PRIMARY"}
VendorOf == [alias \in Aliases |-> Vendors[SelectInSeq(Vendors, LAMBDA v : v \in wired)]]

Price == [CHEAP_TEXT |-> 1, STANDARD_TUTOR |-> 1, ADVANCED_REASONING |-> 2, VERIFIER_PRIMARY |-> 1]

\* What a call may come back with.  A refusal and an answer are billed, an
\* error is not; a refusal or a bad request would only fail again.
Outcomes == {"answer", "doubtful", "refused", "timeout", "bad_request"}
Succeeded(outcome) == outcome \in {"answer", "doubtful"}
Retryable(outcome) == outcome = "timeout"
Cost(alias, outcome) == IF outcome \in {"answer", "doubtful", "refused"} THEN Price[alias] ELSE 0

Idle == [pc |-> "idle"]
-----------------------------------------------------------------------------
(* The gateway: retries, then the fallback, within one cap for both.        *)

\* Mutant: a blocked vendor is called all the same.
CallableBlocked(t, alias) == wired # {}

\* An alias of a blocked vendor is skipped.
Callable(t, alias) == wired # {} /\ VendorOf[alias] \notin t.blocked

\* Mutant: no attempt is kept for the fallback.
CeilingUnreserved(t, i) == MaxAttempts

\* One attempt is kept for each alias still to try.
Ceiling(t, i) == Max({Len(t.calls) + 1, MaxAttempts - (Len(t.decision.aliases) - i)})

\* The next alias from i on that can be called, if any.
Enter(t, i) ==
  LET usable == {j \in i .. Len(t.decision.aliases) : Callable(t, t.decision.aliases[j])} IN
  IF usable = {} THEN [t EXCEPT !.pc = "settle"]
  ELSE [t EXCEPT !.pc = "call", !.alias = Min(usable), !.ceiling = Ceiling(t, Min(usable))]

Call(alias, outcome) ==
  [alias |-> alias, vendor |-> VendorOf[alias], outcome |-> outcome, cost |-> Cost(alias, outcome)]

\* Truncated, hedged or self-contradicting answers are low; only those to a
\* hard STEM question get a second opinion, from a vendor that is not blocked.
Answered(t) ==
  IF t.decision.verifier # "none" /\ Last(t.calls).outcome = "doubtful" /\ Callable(t, t.decision.verifier)
  THEN [t EXCEPT !.pc = "verify"] ELSE [t EXCEPT !.pc = "settle"]

After(t, outcome) ==
  LET tried == [t EXCEPT !.calls = Append(@, Call(t.decision.aliases[t.alias], outcome))]
      n     == Len(tried.calls)
  IN  IF Succeeded(outcome) THEN Answered(tried)
      ELSE IF Retryable(outcome) /\ n < t.ceiling THEN tried
      ELSE IF n >= MaxAttempts THEN [tried EXCEPT !.pc = "settle"]
      ELSE Enter(tried, t.alias + 1)
-----------------------------------------------------------------------------
\* What is known of a question before the ledger is read.
IntentOf  == [ask \in Asked |-> Classify(ask.message, ask.history # <<>>)]
ContextOf == [ask \in Asked |-> Assemble(System, ask.history, ask.message)]

\* The first transaction: what is asked, what may be spent, what is blocked.
\* A rejection is answered there and then and calls nobody.
PlanTurn(s, who, ask) ==
  LET quota   == QuotaSnapshot(ledger, who, now)
      ctx     == [enabled |-> enabled, plan |-> Plan[who], capability |-> IntentOf[ask].capability,
                  difficulty |-> IntentOf[ask].difficulty, tokens |-> ContextOf[ask].tokens,
                  quota |-> quota, limits |-> Limits]
      planned == [pc |-> "plan", who |-> who, decision |-> Decide(ctx), blocked |-> BlockedProviders(quota, Limits),
                  alias |-> 0, ceiling |-> 0, calls |-> <<>>]
  IN  /\ turn[s].pc = "idle" /\ turns < MaxTurns
      /\ turns' = turns + 1
      /\ turn' = [turn EXCEPT ![s] = IF planned.decision.aliases = <<>> THEN Idle ELSE Enter(planned, 1)]
      /\ UNCHANGED <<now, wired, enabled, ledger>>

Invoke(s, outcome) ==
  /\ turn[s].pc = "call"
  /\ turn' = [turn EXCEPT ![s] = After(@, outcome)]
  /\ UNCHANGED <<now, wired, enabled, ledger, turns>>

\* One attempt; if it fails the answer still stands, and what else it says
\* costs the same.
Verify(s, outcome) ==
  /\ turn[s].pc = "verify"
  /\ turn' = [turn EXCEPT ![s].pc = "settle", ![s].calls = Append(@, Call(turn[s].decision.verifier, outcome))]
  /\ UNCHANGED <<now, wired, enabled, ledger, turns>>

LedgerRow(t, call) ==
  [who |-> t.who, vendor |-> call.vendor, cost |-> call.cost, at |-> now]

\* The second transaction: a row for every call, the failed ones too.
Settle(s) ==
  /\ turn[s].pc = "settle"
  /\ LET calls == turn[s].calls
         rows[n \in 0 .. Len(calls)] ==
           IF n = 0 THEN ledger ELSE rows[n - 1] (+) SetToBag({LedgerRow(turn[s], calls[n])})
     IN  ledger' = rows[Len(calls)]
  /\ turn' = [turn EXCEPT ![s] = Idle]
  /\ UNCHANGED <<now, wired, enabled, turns>>

\* The process is gone, and with it what the calls had cost.
Crash(s) ==
  /\ turn[s].pc # "idle"
  /\ turn' = [turn EXCEPT ![s] = Idle]
  /\ UNCHANGED <<now, wired, enabled, ledger, turns>>

Tick ==
  /\ now < LastTick /\ now' = now + 1
  /\ UNCHANGED <<wired, enabled, ledger, turn, turns>>

Init ==
  /\ now = 0
  /\ wired \in Keys
  /\ enabled \in BOOLEAN
  /\ ledger = EmptyBag
  /\ turn = [s \in Sessions |-> Idle]
  /\ turns = 0

Next ==
  \/ \E s \in Sessions, who \in Students, ask \in Asked : PlanTurn(s, who, ask)
  \/ \E s \in Sessions, outcome \in Outcomes : Invoke(s, outcome)
  \/ \E s \in Sessions, outcome \in {"answer", "refused", "timeout"} : Verify(s, outcome)
  \/ \E s \in Sessions : Settle(s) \/ Crash(s)
  \/ Tick

Spec == Init /\ [][Next]_vars
-----------------------------------------------------------------------------
(* Properties.                                                              *)

TurnCost  == Price["ADVANCED_REASONING"] + Price["STANDARD_TUTOR"] + Price["VERIFIER_PRIMARY"]
TurnCalls == MaxAttempts + 1

Running == {s \in Sessions : turn[s].pc # "idle"}

Costs == {Cost(alias, outcome) : alias \in Aliases, outcome \in Outcomes}

\* A ceiling: what of a call of which student with which vendor it counts, in
\* which window, up to what, and what one turn may add.
CeilingOf(kind(_, _), amount(_), window, limit, perTurn) ==
  [counts  |-> [who \in Students |-> [vendor \in ToSet(Vendors) |-> [cost \in Costs |->
                  IF kind(who, vendor) THEN amount(cost) ELSE 0]]],
   window  |-> window, limit |-> limit, perTurn |-> perTurn]

Paid(cost) == IF cost > 0 THEN 1 ELSE 0

\* The spending of the platform in an hour and a day.
PlatformCeilings ==
  LET any(w, v) == TRUE
      spent(cost) == cost
  IN  {CeilingOf(any, spent, HourWindow, Limits.hourly, TurnCost), CeilingOf(any, spent, DayWindow, Limits.daily, TurnCost)}

\* The calls and the spending of a student.
StudentCeilings(who) ==
  LET own(w, v) == w = who
      spent(cost) == cost
  IN  {CeilingOf(own, Paid, DayWindow, Plan[who].calls, TurnCalls),
       CeilingOf(own, spent, DayWindow, Plan[who].daily, TurnCost),
       CeilingOf(own, spent, MonthWindow, Plan[who].monthly, TurnCost)}

\* The spending with a vendor, and the failures that shut it out.  A vendor
\* nothing was spent on is open even when nothing may be: a budget of none
\* lets through what one of one does.
VendorCeilings(vendor) ==
  LET of(w, v) == v = vendor
      spent(cost) == cost
      failed(cost) == 1 - Paid(cost)
  IN  {CeilingOf(of, spent, DayWindow, IF Limits.providerDaily = 0 THEN 1 ELSE Limits.providerDaily, TurnCost),
       CeilingOf(of, failed, FailureWindow, Limits.circuit, MaxAttempts)}

Ceilings ==
  UNION ({PlatformCeilings} \cup {StudentCeilings(who) : who \in Students}
            \cup {VendorCeilings(vendor) : vendor \in ToSet(Vendors)})

\* What a ceiling counts of the rows in its window, and of the calls a turn
\* has yet to record.
Recorded(c) ==
  SumFunction([r \in Since(ledger, now, c.window) |-> ledger[r] * c.counts[r.who][r.vendor][r.cost]])

Unrecorded(c, t) == SumFunction([i \in DOMAIN t.calls |-> c.counts[t.who][t.calls[i].vendor][t.calls[i].cost]])

(* No ceiling is a reservation: turns planned together all see room under   *)
(* it.  What was really paid in its window, recorded or not, still passes   *)
(* it by no more than what every concurrent turn can cost.                  *)
SpendIsBounded ==
  \A c \in Ceilings :
    c.limit # NoLimit =>
      Recorded(c) + SumFunction([s \in Running |-> Unrecorded(c, turn[s])])
        <= c.limit - 1 + c.perTurn * Cardinality(Sessions)

(* A turn that is over made at most MaxAttempts calls for its answer and    *)
(* one, after an answer, to check it; none to a vendor that was blocked     *)
(* when it was planned, and none on an alias after a failure there that     *)
(* would only repeat.  And it did not give up early: with no answer, every  *)
(* alias it was allowed, the fallback too, was tried.                       *)
AttemptsAreRationed ==
  \A s \in Sessions : turn[s].pc = "settle" =>
    LET t     == turn[s]
        calls == t.calls
        n     == Cardinality({i \in DOMAIN calls : calls[i].alias \in ToSet(t.decision.aliases)})
        won   == {i \in 1 .. n : calls[i].outcome \in {"answer", "doubtful"}}
        open  == {alias \in ToSet(t.decision.aliases) : wired # {} /\ VendorOf[alias] \notin t.blocked}
    IN  /\ n <= MaxAttempts /\ won \subseteq {n}
        /\ Len(calls) = n \/ (Len(calls) = n + 1 /\ won = {n} /\ calls[n + 1].alias = t.decision.verifier)
        /\ \A i \in DOMAIN calls : calls[i].vendor \notin t.blocked
        /\ \A i, j \in 1 .. n :
             i < j /\ calls[i].outcome \in {"refused", "bad_request"} => calls[j].alias # calls[i].alias
        /\ won = {} => open = {calls[i].alias : i \in 1 .. n}
=============================================================================
