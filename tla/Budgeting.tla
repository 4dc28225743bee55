------------------------------- MODULE Budgeting -------------------------------
(***************************************************************************)
(* The cost gate (policies/budget_policy.py, domain/budget.py): what the    *)
(* ledger says was spent, and the model tier a question may cost, if any.   *)
(* The ledger is a bag of rows [who, vendor, cost, at]; costs are in units, *)
(* times in ticks.                                                          *)
(***************************************************************************)
EXTENDS Asking

CONSTANTS FailureWindow, HourWindow, DayWindow, MonthWindow

ASSUME WindowsAssumption ==
  /\ {FailureWindow, HourWindow, DayWindow, MonthWindow} \subseteq Nat
  /\ FailureWindow <= HourWindow /\ HourWindow <= DayWindow /\ DayWindow <= MonthWindow

NoLimit == -1

Since(ledger, now, window) == {row \in BagToSet(ledger) : row.at >= now - window}

Rows(ledger, rows)  == SumFunction([r \in rows |-> ledger[r]])
Spend(ledger, rows) == SumFunction([r \in rows |-> ledger[r] * r.cost])

\* A call counts when it produced output or was paid for, whatever it returned:
\* no model is free, so what it produced it was paid for.
Billed(row) == row.cost > 0

\* A failed attempt is a row with neither.
Failed(row) == row.cost = 0

\* A read, not a reservation: the ceilings and what each is measured against.
QuotaSnapshot(ledger, who, now) ==
  LET mine(rows) == {r \in rows : r.who = who}
      day   == Since(ledger, now, DayWindow)
      month == Since(ledger, now, MonthWindow)
      of(rows, v) == {r \in rows : r.vendor = v}
      vendors == {r.vendor : r \in day}
  IN  [calls        |-> Rows(ledger, {r \in mine(day) : Billed(r)}),
       spentToday   |-> Spend(ledger, mine(day)),
       spentMonth   |-> Spend(ledger, mine(month)),
       systemToday  |-> Spend(ledger, day),
       systemHour   |-> Spend(ledger, Since(ledger, now, HourWindow)),
       byVendor     |-> [v \in vendors |-> Spend(ledger, of(day, v))],
       failures     |-> [v \in vendors |-> Rows(ledger, {r \in of(Since(ledger, now, FailureWindow), v) : Failed(r)})]]

\* Mutant: a ceiling is not reached until it is passed.
ReachedPast(amount, limit) == limit # NoLimit /\ amount > limit

Reached(amount, limit) == limit # NoLimit /\ amount >= limit

\* Vendors over their budget of the day, or failing.
BlockedProviders(quota, limits) ==
  {v \in DOMAIN quota.failures : quota.failures[v] >= limits.circuit}
    \cup {v \in DOMAIN quota.byVendor : Reached(quota.byVendor[v], limits.providerDaily)}

MaxContextTokens == 24000
MaxAttempts      == 2

Rejected(outcome) == [outcome |-> outcome, aliases |-> <<>>, verifier |-> "none"]

\* The cheapest tier that will do.  An expensive one falls back one tier down,
\* never up; a second opinion is for hard STEM questions.
SelectTier(ctx) ==
  LET stem     == ctx.capability \in StemCapabilities
      hard     == ctx.difficulty = "ADVANCED"
      aliases  == IF hard /\ ctx.plan.advanced THEN <<"ADVANCED_REASONING", "STANDARD_TUTOR">>
                  ELSE IF ctx.difficulty = "SIMPLE" /\ ~stem THEN <<"CHEAP_TEXT">>
                  ELSE <<"STANDARD_TUTOR">>
      verified == ctx.plan.verifier /\ stem /\ hard
  IN  [outcome |-> IF verified THEN "ALLOW_WITH_VERIFICATION" ELSE "ALLOW", aliases |-> aliases,
       verifier |-> IF verified THEN "VERIFIER_PRIMARY" ELSE "none"]

\* Cheap, certain rejections first; every gate that forbids spending before a
\* tier is chosen.  The two gates on one vendor are left out: the caller names
\* no vendor, so they compare nothing; nor does it call anything high stakes.
Decide(ctx) ==
  LET q == ctx.quota
      gates == <<
        <<~ctx.enabled,                                      "FEATURE_DISABLED">>,
        <<~ctx.plan.paid,                                    "REJECT_PLAN">>,
        <<ctx.capability \notin TextCapabilities,            "FEATURE_DISABLED">>,
        <<ctx.capability \notin ctx.plan.capabilities,       "REJECT_PLAN">>,
        <<Reached(q.systemHour, ctx.limits.hourly),          "REJECT_SYSTEM_BUDGET">>,
        <<Reached(q.systemToday, ctx.limits.daily),          "REJECT_SYSTEM_BUDGET">>,
        <<Reached(q.spentMonth, ctx.plan.monthly),           "REJECT_QUOTA">>,
        <<Reached(q.spentToday, ctx.plan.daily),             "REJECT_QUOTA">>,
        <<Reached(q.calls, ctx.plan.calls),                  "REJECT_QUOTA">>,
        <<ctx.tokens > MaxContextTokens,                     "REJECT_SIZE">> >>
      shut == SelectInSeq(gates, LAMBDA gate : gate[1])
  IN  IF shut # 0 THEN Rejected(gates[shut][2]) ELSE SelectTier(ctx)
=============================================================================
