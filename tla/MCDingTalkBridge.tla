--------------------------- MODULE MCDingTalkBridge ---------------------------
(* Instances of DingTalkBridge for TLC. *)
EXTENDS DingTalkBridge, TLC

CONSTANTS m1, m2, m3, m4, p1, p2, p3, p4, room, private, ann, bob

\* Four people in one chat: one with a staff id, two without one and with a nickname
\* that is the id of the first, one with another nickname.
FourPeople ==
  {[id |-> m1, who |-> p1, chat |-> room, staff |-> ann, nick |-> None, text |-> TRUE],
   [id |-> m2, who |-> p2, chat |-> room, staff |-> None, nick |-> ann, text |-> TRUE],
   [id |-> m3, who |-> p3, chat |-> room, staff |-> None, nick |-> ann, text |-> TRUE],
   [id |-> m4, who |-> p4, chat |-> room, staff |-> None, nick |-> bob, text |-> TRUE]}

\* One person: a question and a picture.
OnePerson ==
  {[id |-> m1, who |-> p1, chat |-> private, staff |-> ann, nick |-> None, text |-> TRUE],
   [id |-> m2, who |-> p1, chat |-> private, staff |-> ann, nick |-> None, text |-> FALSE]}

\* Every message comes once; the question comes again, the picture does not.
Once == [m \in Messages |-> 1]
QuestionTwice == [m \in Messages |-> IF m.text THEN 2 ELSE 1]

\* Answers without files; and two Excel files with a chart, in a text that is too
\* long or not.
PlainAnswers == {[files |-> {}, long |-> FALSE]}
FileAnswers ==
  [files : {{<<"excel", 1>>, <<"excel", 2>>, <<"chart", 1>>}}, long : BOOLEAN]

Symmetry == Permutations(Convs)
================================================================================
