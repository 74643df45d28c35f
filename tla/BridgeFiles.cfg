\* File delivery: one person, every shape of answer; time plays no part.
SPECIFICATION FairSpec
CONSTANTS
  Messages <- OnePerson
  Answers <- FileAnswers
  m1 = m1
  m2 = m2
  m3 = m3
  m4 = m4
  p1 = p1
  p2 = p2
  p3 = p3
  p4 = p4
  room = room
  private = private
  ann = ann
  bob = bob
  Convs = {c1, c2}
  NoConv = NoConv
  None = None
  Ttl = 1
  MaxTime = 0
  MaxCopies <- QuestionTwice
  MaxCrashes = 1
INVARIANTS TypeOK NoteTruthful FileOnce AckAfterReply
PROPERTIES Handled
\* Once every message is acknowledged and the clock is at its bound nothing is
\* left to happen.
CHECK_DEADLOCK FALSE
