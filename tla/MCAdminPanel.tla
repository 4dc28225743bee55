----------------------------- MODULE MCAdminPanel -----------------------------
(***************************************************************************)
(* A small instance of AdminPanel: two operators, who start as the super    *)
(* admins of the panel or as nobody.                                        *)
(***************************************************************************)
EXTENDS AdminPanel, TLC

CONSTANTS a1, a2, s1, s2, r1, r2, none, ip, noip, plan, block, tutor, route, document

NobodyOrAll == {{}, Admins}
Rotations == {"SUPER_ADMIN", "SUPPORT"}

Day(logins, writes, edits, ticks, crashes) ==
  [logins |-> logins, writes |-> writes, edits |-> edits, ticks |-> ticks,
   crashes |-> crashes]

\* Operators at one another; operators at the catalog, long enough to repair a
\* shelf; an edit overtaken by a loss of rights; guessing and locks; a crash.
BusyDays == {Day(2, 2, 0, 0, 0), Day(1, 0, 3, 0, 0), Day(2, 1, 1, 0, 0),
             Day(3, 1, 0, 1, 0), Day(1, 1, 1, 1, 1)}

InUse == {<<"active", "draft">>}

\* Requests are interchangeable, and so are sessions
\* and operators.
Symmetry == Permutations(Requests) \cup Permutations(Admins) \cup Permutations(Sessions)
===============================================================================
