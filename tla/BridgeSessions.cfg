\* Conversations: four people in one chat, three of them under one session key.
SPECIFICATION Spec
CONSTANTS
  Messages <- FourPeople
  Answers <- PlainAnswers
  m1 = m1
  m2 = m2
  m3 = m3
  m4 = m4
  p1 = p1
  p2 = p2
  p3 = p3
  p4 = p4
  room = room
  private = private
  ann = ann
  bob = bob
  Convs = {c1, c2}
  NoConv = NoConv
  None = None
  Ttl = 2
  MaxTime = 2
  MaxCopies <- Once
  MaxCrashes = 1
SYMMETRY Symmetry
INVARIANTS ContextKept OwnConversation
\* Once every message is acknowledged and the clock is at its bound nothing is
\* left to happen.
CHECK_DEADLOCK FALSE
