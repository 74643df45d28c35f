---------------------------- MODULE MCGatewayQuery ----------------------------
(* Instances of GatewayQuery for TLC. *)
EXTENDS GatewayQuery

\* Last year and this year.
TwoYears == {2025, 2026}

\* By month, by channel with a word for money or not, and what is wanted.
SomeQuestions ==
  {[year |-> 2026, byMonth |-> m, span |-> FALSE, channelWord |-> TRUE,
    money |-> p, want |-> w] :
      m \in BOOLEAN, p \in BOOLEAN, w \in {"table", "excel", "chart"}}

Plain == [breaks |-> {}, commented |-> {}, limit |-> Limit("rows", 2, 0), junk |-> FALSE,
          month |-> TRUE, year |-> 2026, scope |-> {2026}]

\* Every kind of LIMIT, with numbers below and above MaxRows.
SomeLimits ==
  {Limit("none", 0, 0), Limit("inner", 4, 0), Limit("rows", 2, 0), Limit("rows", 4, 0),
   Limit("page", 2, 1), Limit("page", 4, 1), Limit("pair", 0, 4), Limit("pair", 4, 1)}

\* Rejected and accepted statements; over both years without a condition, over one,
\* and over both though 2025 is the year that is written first; every LIMIT; text
\* that is no SQL, and every form of a draft.
SomeDrafts ==
  {[form |-> "json", stmt |-> s] : s \in
     {[Plain EXCEPT !.breaks = b, !.commented = c] :
        b \in {{}, {"forbidden"}}, c \in {{}, {"union"}, {"nul"}}}
     \cup {[Plain EXCEPT !.month = m, !.year = y.year, !.scope = y.scope] :
             m \in BOOLEAN,
             y \in {[year |-> 0, scope |-> TwoYears], [year |-> 2025, scope |-> {2025}],
                    [year |-> 2025, scope |-> TwoYears]}}
     \cup {[Plain EXCEPT !.limit = l] : l \in SomeLimits}}
  \cup {[form |-> f, stmt |-> [Plain EXCEPT !.junk = j]] :
           f \in {"broken", "bare", "none"}, j \in BOOLEAN}

SomeAmounts == {-1, 0, 1}
================================================================================
