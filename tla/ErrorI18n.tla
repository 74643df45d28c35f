------------------------------ MODULE ErrorI18n ------------------------------
(***************************************************************************)
(* translate_error() of error_i18n.py (docker/custom and dingtalk-bridge   *)
(* hold the same file): an error text becomes an explanation in Chinese.   *)
(* A text is what the rules can tell of it:                                *)
(*   needles  the needles of the rules that occur in it,                   *)
(*   says     the explanation it consists of or quotes: 0 none, else the   *)
(*            number of a rule, NoReason, or NoText for an empty text,     *)
(*   quoted   how often it has been wrapped as an unrecognised error,      *)
(*   run      where an agent's run id stands: at the end, where the suffix *)
(*            is recognised, elsewhere in the text, or nowhere.            *)
(***************************************************************************)
EXTENDS Naturals, Sequences

\* _RULES: the needles of each, any of which is enough.
Rules ==
  <<{"20015", "system first"}, {"system first"}, {"messages illegal"}, {"input empty"},
    {"incorrect api key"}, {"invalid api key"}, {"provider_not_initialize"},
    {"dify quota"}, {"balance"}, {"insufficient quota"}, {"rate limit"},
    {"too many requests"}, {"context length"}, {"timed out"}, {"content filter"},
    {"no such model"}, {"internal server error"}>>

Needles == UNION {Rules[i] : i \in DOMAIN Rules}

\* Mutant: the explanation of a timeout mentions the rate limit.
BugQuotes(i) == CASE i \in {4, 9} -> Rules[i] [] i = 14 -> Rules[11] [] OTHER -> {}

\* Explanations that contain a needle themselves: "input empty" and "balance" are
\* quoted in their own.
Quotes(i) == IF i \in {4, 9} THEN Rules[i] ELSE {}

NoReason == Len(Rules) + 1
NoText == Len(Rules) + 2
Says == 0..NoText
Spots == {"end", "inside", "nowhere"}

Raw(needles, run) == [needles |-> needles, says |-> 0, quoted |-> 0, run |-> run]
Empty == [Raw({}, "nowhere") EXCEPT !.says = NoText]

Hits(needles) == {i \in DOMAIN Rules : Rules[i] \cap needles # {}}

\* The first rule that matches, 0 without one.
Rule(needles) ==
  IF Hits(needles) = {} THEN 0
  ELSE CHOOSE i \in Hits(needles) : \A j \in Hits(needles) : i <= j

\* Mutant: the run id is cut off and not put back.
BugRunKept(t, recognised) == IF t.run = "inside" /\ ~recognised THEN "inside" ELSE "nowhere"

\* A run id at the end is cut off and put back under the explanation; elsewhere it
\* stays in the text, if the text does.
RunKept(t, recognised) ==
  IF t.run = "end" \/ (t.run = "inside" /\ ~recognised) THEN "inside" ELSE "nowhere"

translate_error(t) ==
  LET i == Rule(t.needles)
  IN  IF t.says = NoText
      THEN [Empty EXCEPT !.says = NoReason]
      ELSE IF i # 0
      THEN [needles |-> Quotes(i), says |-> i, quoted |-> 0, run |-> RunKept(t, TRUE)]
      ELSE [t EXCEPT !.quoted = @ + 1, !.run = RunKept(t, FALSE)]
================================================================================
