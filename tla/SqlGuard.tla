------------------------------- MODULE SqlGuard -------------------------------
(***************************************************************************)
(* sanitize_select() of query-gateway/sql_guard.py: which statements are   *)
(* let through, and what becomes of their LIMIT.  A statement is what the  *)
(* regular expressions of the guard find in it:                            *)
(*   breaks     the rules its text breaks outside of comments,             *)
(*   commented  the rules only a comment in it breaks,                     *)
(*   limit      its LIMIT clause.                                          *)
(***************************************************************************)
EXTENDS Naturals

CONSTANT MaxRows  \* MAX_ROWS, 200 unless the environment says otherwise

ASSUME MaxRowsAssumption == MaxRows \in Nat

\* The rules, in the order of the code: the first one broken is the one told.
Rules == {"empty", "nul", "several", "forbidden", "union", "derived table", "join",
          "no select", "table not named", "qualified name", "no from", "other from"}

\* LIMIT n, LIMIT n OFFSET m, LIMIT n, m at the end of the text; one that is not at
\* the end, as in a subquery, or none.
Forms == {"rows", "page", "pair", "inner", "none"}
Limit(form, n, m) == [form |-> form, n |-> n, m |-> m]

\* A NUL is looked for before the comments are taken out, all else after.
Accepted(s) == s.breaks = {} /\ "nul" \notin s.commented

\* Mutant: a statement without LIMIT is left without.
BugBounded(l) ==
  IF l.form \in {"rows", "page", "pair"} /\ l.n > MaxRows THEN Limit("rows", MaxRows, 0) ELSE l

\* The first number is judged whatever it means.  A larger one replaces the whole
\* clause, and a text that does not end in LIMIT gets one appended.
Bounded(l) ==
  IF l.form \in {"inner", "none"} \/ l.n > MaxRows THEN Limit("rows", MaxRows, 0) ELSE l

Sanitize(s) == [s EXCEPT !.commented = {}, !.limit = Bounded(@)]

\* MySQL's reading of a clause: rows skipped, and rows returned when there are many.
Skipped(l) == CASE l.form = "page" -> l.m [] l.form = "pair" -> l.n [] OTHER -> 0
Returned(l, many) ==
  CASE l.form \in {"rows", "page"} -> l.n [] l.form = "pair" -> l.m [] OTHER -> many
================================================================================
