\* Two people in one chat, one of them asking twice; Dify runs two of the questions.
SPECIFICATION ASpec
CONSTANTS
  Messages <- TwoNicks
  Answers <- OneKind
  m1 = m1
  m2 = m2
  m3 = m3
  p1 = p1
  p2 = p2
  room = room
  ann = ann
  bob = bob
  Convs = {c1, c2}
  NoConv = NoConv
  None = None
  Ttl = 4
  MaxTime = 3
  MaxCopies <- Once
  MaxCrashes = 0
  Turns = {t1, t2}
  Branches <- TwoBranches
  Links = {l1, l2}
  NoLink = NoLink
  AskLimit = 1
  DownloadLimit = 1
  LinkTtl = 2
SYMMETRY Symmetry
VIEW Seen
INVARIANTS LinkWorks NoForeignFile OneLinkHanded
\* Time, deliveries and turns are bounded.
CHECK_DEADLOCK FALSE
