------------------------------ MODULE MCAssistant ------------------------------
(* Instances of Assistant for TLC. *)
EXTENDS Assistant, TLC

CONSTANTS m1, m2, m3, p1, p2, room, ann, bob

\* Two people in one chat, neither with a staff id; Ann asks twice.
TwoNicks ==
  LET From(m, who, nick) ==
        [id |-> m, who |-> who, chat |-> room, staff |-> None, nick |-> nick, text |-> TRUE]
  IN  {From(m1, p1, ann), From(m2, p1, ann), From(m3, p2, bob)}

\* Ann's messages are interchangeable.
Symmetry == Permutations({m1, m2})

Once == [m \in Messages |-> 1]

\* An answer names a file, two of a kind, or none.
OneKind ==
  {[files |-> f, long |-> FALSE] :
     f \in {{}, {<<"excel", 1>>}, {<<"excel", 1>>, <<"excel", 2>>}}}

\* The branch that exports, and the one whose model only sees the conversation.
TwoBranches == {"llm_sql_plan", "llm_chat"}

\* No step and no property of the run depends on how files arrived, nor, where every
\* message comes once, on what DingTalk holds acknowledgements for.
Seen ==
  <<now, crashes, copies, inbox, sessions, pc, handling, remote, lastGood, replied,
    flow, store, turn, asker, mark, since, exported>>
================================================================================
