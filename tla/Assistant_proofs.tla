--------------------------- MODULE Assistant_proofs ---------------------------
(***************************************************************************)
(* Proofs about Assistant: the three parts keep their own specifications   *)
(* when they work together, and what only the composition promises, for    *)
(* any number of messages, turns, conversations and links.                 *)
(***************************************************************************)
EXTENDS Assistant, DingTalkBridge_proofs

FlowP == INSTANCE Chatflow_proofs WITH Runs <- Turns, answer <- said

--------------------------------------------------------------------------------
(* The inductive invariant, beside the bridge's and the chatflow's.           *)

IsAsked(t) == asker[t] # NotAsked
Sender(m) == <<SessionKey(m), User(m)>>
SenderOf(t) == Sender(asker[t].msg)
Mine(t) == {l \in Links : owner[l] = t}
Fetching == {"files"} \cup Sending

ATypes ==
  /\ asker \in [Turns -> [msg : Messages \cup {None}, conv : Convs \cup {NoConv}]]
  /\ turn \in Turns \cup {None}
  /\ mark \in Links \cup {NoLink}
  /\ since \in Nat
  /\ owner \in [Links -> Turns \cup {None}]
  /\ names \in [Turns -> Links \cup {NoLink}]
  /\ deadline \in [Links -> Nat]
  /\ handed \in SUBSET Links

\* Turns of one conversation were begun under one session key and for one Dify user,
\* those of the message that began it.
Conversing ==
  /\ \A t \in Turns : IsAsked(t) => asker[t].msg \in Messages /\ asker[t].conv \in Convs
  /\ \A t, u \in Turns :
       IsAsked(t) /\ IsAsked(u) /\ asker[t].conv = asker[u].conv => SenderOf(t) = SenderOf(u)
  /\ \A c \in Convs : dify[c] # None =>
       \E t \in Turns : IsAsked(t) /\ asker[t].conv = c /\ SenderOf(t) = Sender(dify[c])

\* The turn the bridge waits for was begun for its message, and the link it fetches
\* is one that the gateway's answer to a turn of the same conversation names.
Waiting ==
  /\ turn # None => IsAsked(turn) /\ asker[turn].msg = msg
  /\ pc = "idle" => turn = None
  /\ pc \in {"idle", "ask"} => mark = NoLink
  /\ pc \in Fetching =>
       /\ turn # None
       /\ answer.marks \subseteq answer.promised
       /\ answer.promised # {} => mark # NoLink
  /\ pc \in Sending => \E f \in answer.promised : f[1] = kind
  /\ mark # NoLink =>
       /\ turn # None
       /\ \E t \in Turns :
            /\ IsAsked(t) /\ asker[t].conv = asker[turn].conv
            /\ names[t] = mark /\ at[t] = "succeeded"

\* Links and the turns they were published for.
Published ==
  /\ \A t \in Turns : names[t] # NoLink => owner[names[t]] = t
  /\ \A l \in Links : owner[l] # None => IsAsked(owner[l])
  /\ \A l \in handed : \E t \in Turns : names[t] = l /\ at[t] = "succeeded"
  /\ \A t \in Turns : IsFiniteSet(Mine(t)) /\ Cardinality(Mine(t)) = exports[t]

\* How long the bridge has been busy with its question, and how long the links of
\* its turn are good for.
Clocked ==
  /\ askedAt <= now
  /\ pc = "ask" => now <= askedAt + AskLimit
  /\ pc = "files" /\ answer.marks # {} => now <= askedAt + AskLimit
  /\ pc = "download" => since <= askedAt + AskLimit /\ now <= since + DownloadLimit
  /\ turn # None => \A l \in Links : owner[l] = turn => askedAt + LinkTtl <= deadline[l]

\* When no answer names files of two kinds, there is one download at most.
OneMark == \A a \in Answers : \A j, k \in a.files : j[1] = k[1]
Single ==
  /\ pc = "files" => \A j, k \in answer.marks : j[1] = k[1]
  /\ pc \in Sending => answer.marks = {}

ARest == ATypes /\ Conversing /\ Waiting /\ Published
AInv == OwnInv /\ FlowP!IInv /\ ARest
TInv == AInv /\ Clocked /\ Single

--------------------------------------------------------------------------------
(* Each part keeps its own specification.                                     *)

\* Whatever the composition does is a step of the bridge, or none.
LEMMA BridgeStep == ANext => [Next]_vars
<1> SUFFICES ASSUME ANext PROVE Next \/ UNCHANGED vars
  OBVIOUS
<1> USE DEF ANext, Next
<1>1. CASE Passes
  BY <1>1 DEF Passes
<1>2. CASE TurnAnswered \/ TurnLost \/ DownloadBegins \/ DownloadEnds
  BY <1>2 DEF TurnAnswered, TurnLost, DownloadBegins, DownloadEnds, Process
<1>3. CASE BridgeMoves
  BY <1>3 DEF BridgeMoves, Process
<1>4. CASE AskArrives \/ LinkExpires \/ GatewayRestarts \/ \E t \in Turns : TurnMoves(t)
  BY <1>4 DEF AskArrives, LinkExpires, GatewayRestarts, TurnMoves
<1> QED
  BY <1>1, <1>2, <1>3, <1>4

\* ... a step of one turn of the chatflow, or none.
LEMMA FlowStep == ANext => UNCHANGED flow \/ \E t \in Turns : Flow!Step(t)
<1> SUFFICES ASSUME ANext PROVE UNCHANGED flow \/ \E t \in Turns : Flow!Step(t)
  OBVIOUS
<1> USE DEF ANext
<1>1. CASE AskArrives
  <2>1. PICK t \in AnUnused(Spare) : Flow!Start(t)
    BY <1>1 DEF AskArrives
  <2>2. t \in Turns
    BY DEF AnUnused, Spare
  <2> QED
    BY <2>1, <2>2 DEF Flow!Step
<1>2. CASE \E t \in Turns : TurnMoves(t)
  BY <1>2 DEF TurnMoves
<1>3. CASE \/ Passes \/ TurnAnswered \/ TurnLost \/ LinkExpires \/ GatewayRestarts
           \/ DownloadBegins \/ DownloadEnds \/ BridgeMoves
  BY <1>3 DEF Passes, TurnAnswered, TurnLost, LinkExpires, GatewayRestarts,
     DownloadBegins, DownloadEnds, BridgeMoves
<1> QED
  BY <1>1, <1>2, <1>3

\* Nothing but the clock's own step moves the clock.
LEMMA ClockStands == ASSUME ANext, ~Passes PROVE now' = now
<1> USE DEF ANext
<1>1. CASE TurnAnswered \/ TurnLost \/ DownloadBegins \/ DownloadEnds
  BY <1>1 DEF TurnAnswered, TurnLost, DownloadBegins, DownloadEnds, AskAnswered, AskFailed,
     NextFile, Download, FileStep
<1>2. CASE BridgeMoves
  BY <1>2 DEF BridgeMoves, Receive, Upload, Webhook, Api, Trim, Reply, Ack, Crash, Deliver,
     FileStep
<1>3. CASE AskArrives \/ LinkExpires \/ GatewayRestarts \/ \E t \in Turns : TurnMoves(t)
  BY <1>3 DEF AskArrives, LinkExpires, GatewayRestarts, TurnMoves, vars
<1> QED
  BY <1>1, <1>2, <1>3

\* A file that is on its way has a link.
LEMMA MarkIsLink ==
  ASSUME ATypes, Waiting, pc \in Sending
  PROVE  /\ mark \in Links /\ turn \in Turns
         /\ \E t \in Turns : /\ IsAsked(t) /\ asker[t].conv = asker[turn].conv
                             /\ names[t] = mark /\ at[t] = "succeeded"
<1>1. mark # NoLink
  BY DEF Waiting, Fetching
<1> QED
  BY <1>1 DEF ATypes, Waiting, Fetching

\* ... and a step of the links, or none: only published links are fetched.
LEMMA StoreStep == ASSUME ATypes, Waiting, ANext PROVE Store!Next \/ UNCHANGED Store!vars
<1> USE DEF Store!Next, Store!vars
<1>1. CASE Passes
  BY <1>1 DEF Passes, Tick, Store!Tick, store
<1>2. CASE ~Passes /\ UNCHANGED store
  BY <1>2, ClockStands DEF store
<1>3. CASE \E t \in Turns : TurnMoves(t)
  <2>1. CASE UNCHANGED store
    BY <1>1, <1>2, <2>1
  <2>2. CASE ~UNCHANGED store
    <3>1. PICK l : l \in AnUnused({k \in Links : owner[k] = None}) /\ Store!Publish(l)
      BY <1>3, <2>2 DEF TurnMoves
    <3>2. l \in Links
      BY <3>1 DEF AnUnused
    <3> QED
      BY <3>1, <3>2
  <2> QED
    BY <2>1, <2>2
<1>4. CASE TurnAnswered \/ TurnLost \/ DownloadBegins \/ BridgeMoves \/ AskArrives
  BY <1>1, <1>2, <1>4 DEF TurnAnswered, TurnLost, DownloadBegins, BridgeMoves, AskArrives
<1>5. CASE LinkExpires \/ GatewayRestarts
  <2>1. mark \in Links /\ UNCHANGED now
    BY <1>5, MarkIsLink DEF LinkExpires, GatewayRestarts, Sending, vars
  <2> QED
    BY <1>5, <2>1 DEF LinkExpires, GatewayRestarts
<1>6. CASE DownloadEnds
  <2>1. pc \in Sending
    BY <1>6 DEF DownloadEnds, Download, FileStep, Sending
  <2>2. mark \in Links
    BY <2>1, MarkIsLink
  <2>3. Store!Hand(mark) \/ UNCHANGED store
    BY <1>6 DEF DownloadEnds
  <2>4. UNCHANGED now
    BY <1>6 DEF DownloadEnds, Download, FileStep
  <2> QED
    BY <2>2, <2>3, <2>4 DEF store
<1> QED
  BY <1>1, <1>2, <1>3, <1>4, <1>5, <1>6 DEF ANext

\* The chatflow of the composition is the one its proofs are about.
LEMMA SameStep == ASSUME NEW t \in Turns, Flow!Step(t) PROVE FlowP!Step(t)
<1>1. CASE Flow!Start(t)
  <2>1. FlowP!Start(t)
    BY <1>1 DEF Flow!Start, FlowP!Start, Flow!Follow, FlowP!Follow, Flow!Edges,
       FlowP!Edges
  <2> QED
    BY <2>1 DEF FlowP!Step
<1>2. CASE Flow!Classify(t)
  <2>1. FlowP!Classify(t)
    BY <1>2 DEF Flow!Classify, FlowP!Classify, Flow!Follow, FlowP!Follow,
       Flow!Edges, FlowP!Edges, Flow!Classes, FlowP!Classes
  <2> QED
    BY <2>1 DEF FlowP!Step
<1>3. CASE Flow!Retrieve(t)
  <2>1. FlowP!Retrieve(t)
    BY <1>3 DEF Flow!Retrieve, FlowP!Retrieve, Flow!Follow, FlowP!Follow,
       Flow!Edges, FlowP!Edges, Flow!Retrievals, FlowP!Retrievals
  <2> QED
    BY <2>1 DEF FlowP!Step
<1>4. CASE Flow!TestEmpty(t)
  <2>1. FlowP!TestEmpty(t)
    BY <1>4 DEF Flow!TestEmpty, FlowP!TestEmpty, Flow!Follow, FlowP!Follow,
       Flow!Edges, FlowP!Edges, Flow!EmptyTests, FlowP!EmptyTests, Flow!Tested, FlowP!Tested
  <2> QED
    BY <2>1 DEF FlowP!Step
<1>5. CASE Flow!Generate(t)
  <2>1. FlowP!Generate(t)
    BY <1>5 DEF Flow!Generate, FlowP!Generate, Flow!Follow, FlowP!Follow,
       Flow!Edges, FlowP!Edges, Flow!Llms, FlowP!Llms
  <2> QED
    BY <2>1 DEF FlowP!Step
<1>6. CASE Flow!HttpAnswered(t)
  <2>1. FlowP!HttpAnswered(t)
    BY <1>6 DEF Flow!HttpAnswered, FlowP!HttpAnswered, Flow!Follow, FlowP!Follow,
       Flow!Edges, FlowP!Edges, Flow!Replies, FlowP!Replies
  <2> QED
    BY <2>1 DEF FlowP!Step
<1>7. CASE Flow!HttpFails(t)
  <2>1. FlowP!HttpFails(t)
    BY <1>7 DEF Flow!HttpFails, FlowP!HttpFails, Flow!MaxNodeRetries,
       FlowP!MaxNodeRetries
  <2> QED
    BY <2>1 DEF FlowP!Step
<1>8. CASE Flow!TestStatus(t)
  <2>1. FlowP!TestStatus(t)
    BY <1>8 DEF Flow!TestStatus, FlowP!TestStatus, Flow!Follow, FlowP!Follow,
       Flow!Edges, FlowP!Edges
  <2> QED
    BY <2>1 DEF FlowP!Step
<1>9. CASE Flow!Say(t)
  <2>1. FlowP!Say(t)
    BY <1>9 DEF Flow!Say, FlowP!Say, Flow!AnswerNodes, FlowP!AnswerNodes
  <2> QED
    BY <2>1 DEF FlowP!Step
<1>10. CASE Flow!Fail(t)
  <2>1. FlowP!Fail(t)
    BY <1>10 DEF Flow!Fail, FlowP!Fail, Flow!Retrievals, FlowP!Retrievals,
       Flow!Llms, FlowP!Llms
  <2> QED
    BY <2>1 DEF FlowP!Step
<1> QED
  BY <1>1, <1>2, <1>3, <1>4, <1>5, <1>6, <1>7, <1>8, <1>9, <1>10 DEF Flow!Step

\* A step of the composition is a step of one turn at most, which keeps what is
\* known of all turns; it leaves one link at most, and only before its end.
LEMMA FlowInv == ASSUME FlowP!IInv, ANext PROVE FlowP!IInv'
<1>1. CASE UNCHANGED flow
  <2>1. UNCHANGED FlowP!vars
    BY <1>1 DEF flow, FlowP!vars
  <2> QED
    BY <2>1, FlowP!StutterIInv
<1>2. CASE \E t \in Turns : Flow!Step(t)
  BY <1>2, SameStep, FlowP!StepIInv
<1> QED
  BY <1>1, <1>2, FlowStep

LEMMA TurnStep ==
  ASSUME FlowP!IInv, NEW t \in Turns, Flow!Step(t)
  PROVE  /\ at[t] \notin {"succeeded", "failed"}
         /\ exports'[t] \in {exports[t], exports[t] + 1}
         /\ \A u \in Turns : u # t => at'[u] = at[u] /\ exports'[u] = exports[u]
<1>1. FlowP!Step(t) /\ FlowP!TypeOK
  BY SameStep, FlowP!IInvImplies
<1> QED
  BY <1>1, FlowP!StepOfRun, FlowP!OthersSame DEF FlowP!Ended

--------------------------------------------------------------------------------
(* The beginning.                                                             *)

LEMMA InitAInv == AInit => TInv
<1> SUFFICES ASSUME AInit PROVE TInv
  OBVIOUS
<1> USE AssistantAssumption, BridgeAssumption DEF AInit
<1>1. OwnInv
  BY InitIInv DEF Init, OwnInv, Owned, OwnConversation, NoSession, NoAnswer
<1>2. FlowP!IInv
  BY FlowP!InitIInv DEF Flow!Init, FlowP!Init, Flow!NoReply, FlowP!NoReply,
     Flow!Retrievals, FlowP!Retrievals
<1>3. ATypes
  BY DEF ATypes, NotAsked, Store!Init
<1>4. Conversing
  BY DEF Conversing, IsAsked, Init
<1>5. Waiting
  BY DEF Waiting, Init, Fetching, Sending
<1>6. Published
  <2>1. ASSUME NEW t \in Turns PROVE IsFiniteSet(Mine(t)) /\ Cardinality(Mine(t)) = exports[t]
    <3>1. Mine(t) = {} /\ exports[t] = 0
      BY DEF Mine, Flow!Init
    <3> QED
      BY <3>1, FS_EmptySet
  <2> QED
    BY <2>1 DEF Published, Store!Init
<1>7. Clocked /\ Single
  BY DEF Clocked, Single, Init, NoAnswer, Sending
<1> QED
  BY <1>1, <1>2, <1>3, <1>4, <1>5, <1>6, <1>7 DEF TInv, AInv, ARest

--------------------------------------------------------------------------------
(* What each step does to the rest of the invariant.                          *)

LEMMA AskedTurn ==
  ASSUME ATypes, NEW t \in Turns
  PROVE  /\ asker[t].conv # NoConv => IsAsked(t)
         /\ asker[t].conv \in Convs \cup {NoConv} /\ asker[t].msg \in Messages \cup {None}
BY DEF ATypes, IsAsked, NotAsked

LEMMA PassesRest == ASSUME ARest, Passes PROVE ARest'
BY DEF Passes, Tick, flow, store, exported, handling, remote, ARest, ATypes, Conversing, Waiting,
   Published, IsAsked, SenderOf, Mine, Fetching

LEMMA LinksFail == ASSUME ARest, LinkExpires \/ GatewayRestarts PROVE ARest'
<1>1. /\ deadline' = deadline /\ handed' = handed
      /\ UNCHANGED <<asker, turn, mark, since, owner, names, at, exports>>
      /\ UNCHANGED <<dify, pc, msg, answer, kind>>
  BY DEF LinkExpires, GatewayRestarts, Store!Expire, Store!Restart, vars, handling, remote,
     flow, exported
<1> QED
  BY <1>1 DEF ARest, ATypes, Conversing, Waiting, Published, IsAsked, SenderOf, Sender,
     SessionKey, User, Mine, Fetching

LEMMA AskArrivesRest == ASSUME AInv, AskArrives PROVE ARest'
<1> USE AssistantAssumption, BridgeAssumption DEF AInv, OwnInv, ARest
<1>1. PICK t \in AnUnused(Spare) : \E c \in
             (IF conv = NoConv THEN AnUnused({d \in Convs : \A u \in Turns : asker[u].conv # d})
             ELSE {d \in {conv} : User(dify[d]) = User(msg)}) :
          /\ Flow!Start(t) /\ turn' = t
          /\ asker' = [asker EXCEPT ![t] = [msg |-> msg, conv |-> c]]
  BY DEF AskArrives
<1>2. PICK c : /\ \/ conv = NoConv /\ c \in Convs /\ \A u \in Turns : asker[u].conv # c
                  \/ conv # NoConv /\ c = conv /\ User(dify[c]) = User(msg)
               /\ Flow!Start(t) /\ turn' = t
               /\ asker' = [asker EXCEPT ![t] = [msg |-> msg, conv |-> c]]
  BY <1>1 DEF AnUnused
<1>3. /\ pc = "ask" /\ mark = NoLink /\ t \in Turns /\ asker[t] = NotAsked
      /\ msg \in Messages /\ conv \in Convs \cup {NoConv} /\ c \in Convs
  <2>1. t \in Turns /\ asker[t] = NotAsked
    BY DEF AnUnused, Spare
  <2>2. pc = "ask" /\ mark = NoLink
    BY DEF AskArrives, Waiting
  <2>3. msg \in Messages /\ conv \in Convs \cup {NoConv}
    BY <2>2 DEF IInv, TypeOK
  <2> QED
    BY <1>2, <2>1, <2>2, <2>3
<1>4. /\ pc' = pc /\ sessions' = sessions /\ conv' = conv /\ msg' = msg /\ mark' = mark
      /\ since' = since /\ owner' = owner /\ names' = names /\ deadline' = deadline
      /\ handed' = handed /\ answer' = answer /\ kind' = kind /\ dify' = dify
  BY DEF AskArrives, remote, vars, handling, store, exported
<1>5. exports' = exports /\ at[t] # "succeeded"
  BY <1>2 DEF Flow!Start
<1>6. \A u \in Turns : at[u] = "succeeded" => at'[u] = "succeeded"
  <2>1. FlowP!TypeOK /\ FlowP!Step(t)
    BY <1>2, <1>3, SameStep, FlowP!IInvImplies DEF Flow!Step
  <2> QED
    BY <1>3, <1>5, <2>1, FlowP!OthersSame
<1>7. \A u \in Turns : asker'[u] = IF u = t THEN [msg |-> msg, conv |-> c] ELSE asker[u]
  BY <1>2 DEF ATypes
<1>8. asker'[t] # NotAsked /\ asker'[t].msg = msg /\ asker'[t].conv = c
  BY <1>3, <1>7 DEF NotAsked
<1>9. \A u \in Turns : IsAsked(u) => u # t /\ IsAsked(u)' /\ asker'[u] = asker[u]
  BY <1>3, <1>7 DEF IsAsked, NotAsked
<1>10. \A u \in Turns : IsAsked(u)' => u = t \/ IsAsked(u)
  BY <1>7 DEF IsAsked, NotAsked
<1>11. ATypes'
  <2>1. asker' \in [Turns -> [msg : Messages \cup {None}, conv : Convs \cup {NoConv}]]
    BY <1>2, <1>3 DEF ATypes
  <2> QED
    BY <1>2, <1>3, <1>4, <2>1 DEF ATypes
<1>12. \A u \in Turns : IsAsked(u) /\ asker[u].conv = c => SenderOf(u) = Sender(msg)
  <2>1. CASE conv = NoConv
    BY <1>2, <1>3, <2>1 DEF IsAsked
  <2>2. CASE conv # NoConv
    <3>1. c = conv /\ User(dify[c]) = User(msg)
      BY <1>2, <2>2
    <3>2. dify[c] \in Messages /\ SessionKey(dify[c]) = SessionKey(msg)
      BY <1>3, <2>2, <3>1 DEF Owned, Begun
    <3>3. dify[c] # None
      BY <3>2
    <3>4. PICK v \in Turns : IsAsked(v) /\ asker[v].conv = c /\ SenderOf(v) = Sender(dify[c])
      BY <1>3, <3>3 DEF Conversing
    <3>5. SenderOf(v) = Sender(msg)
      BY <3>1, <3>2, <3>4 DEF Sender
    <3> QED
      BY <3>4, <3>5 DEF Conversing
  <2> QED
    BY <2>1, <2>2
<1>13. Conversing'
  <2>1. SenderOf(t)' = Sender(msg) /\ \A u \in Turns : IsAsked(u) => SenderOf(u)' = SenderOf(u)
    BY <1>8, <1>9 DEF SenderOf, Sender, SessionKey, User
  <2>2. \A u \in Turns : IsAsked(u)' => asker'[u].msg \in Messages /\ asker'[u].conv \in Convs
    BY <1>3, <1>8, <1>9, <1>10 DEF Conversing
  <2>3. ASSUME NEW u \in Turns, NEW v \in Turns, IsAsked(u)', IsAsked(v)',
               asker'[u].conv = asker'[v].conv
        PROVE  SenderOf(u)' = SenderOf(v)'
    <3>1. CASE u = t /\ v = t
      BY <3>1
    <3>2. CASE u # t /\ v = t
      <4>1. IsAsked(u) /\ asker[u].conv = c
        BY <1>8, <1>9, <1>10, <2>3, <3>2
      <4> QED
        BY <1>12, <2>1, <3>2, <4>1
    <3>3. CASE u = t /\ v # t
      <4>1. IsAsked(v) /\ asker[v].conv = c
        BY <1>8, <1>9, <1>10, <2>3, <3>3
      <4> QED
        BY <1>12, <2>1, <3>3, <4>1
    <3>4. CASE u # t /\ v # t
      <4>1. IsAsked(u) /\ IsAsked(v) /\ asker[u].conv = asker[v].conv
        BY <1>9, <1>10, <2>3, <3>4
      <4> QED
        BY <2>1, <4>1 DEF Conversing
    <3> QED
      BY <3>1, <3>2, <3>3, <3>4
  <2>4. ASSUME NEW d \in Convs, dify[d] # None
        PROVE  \E u \in Turns : /\ IsAsked(u)' /\ asker'[u].conv = d
                               /\ SenderOf(u)' = Sender(dify[d])
    <3>1. PICK u \in Turns : IsAsked(u) /\ asker[u].conv = d /\ SenderOf(u) = Sender(dify[d])
      BY <2>4 DEF Conversing
    <3> QED
      BY <1>9, <2>1, <3>1
  <2>5. \A m : Sender(m)' = Sender(m)
    BY DEF Sender, SessionKey, User
  <2> QED
    BY <1>4, <2>2, <2>3, <2>4, <2>5 DEF Conversing
<1>14. Waiting'
  BY <1>2, <1>3, <1>4, <1>8 DEF Waiting, IsAsked, Fetching, Sending
<1>15. Published'
  <2>1. ASSUME NEW l \in Links, owner[l] # None PROVE asker'[owner[l]] # NotAsked
    <3>1. owner[l] \in Turns /\ IsAsked(owner[l])
      BY <2>1 DEF Published, ATypes
    <3> QED
      BY <1>9, <3>1 DEF IsAsked
  <2>2. \A l \in handed : \E u \in Turns : names[u] = l /\ at'[u] = "succeeded"
    BY <1>6 DEF Published
  <2>3. \A u \in Turns : Mine(u)' = Mine(u)
    BY <1>4 DEF Mine
  <2> QED
    BY <1>4, <1>5, <2>1, <2>2, <2>3 DEF Published, IsAsked
<1> QED
  BY <1>11, <1>13, <1>14, <1>15

\* Dify serves the conversation of the turn the bridge waits for.
LEMMA ServedConversing ==
  ASSUME TypeOK, Conversing, turn \in Turns, IsAsked(turn), asker[turn].msg = msg, msg \in Messages,
         Serves(asker[turn].conv), asker' = asker
  PROVE  Conversing'
<1> DEFINE c == asker[turn].conv
<1>1. c \in Convs /\ SenderOf(turn) = Sender(msg)
  BY DEF Conversing, SenderOf
<1>2. /\ \A t \in Turns : IsAsked(t)' = IsAsked(t) /\ SenderOf(t)' = SenderOf(t)
      /\ \A m : Sender(m)' = Sender(m)
  BY DEF IsAsked, SenderOf, Sender, SessionKey, User
<1>3. dify' = dify \/ dify' = [dify EXCEPT ![c] = msg]
  BY DEF Serves
<1>4. ASSUME NEW d \in Convs, dify'[d] # None
      PROVE  \E t \in Turns : IsAsked(t) /\ asker[t].conv = d /\ SenderOf(t) = Sender(dify'[d])
  <2>1. CASE dify'[d] = dify[d]
    BY <1>4, <2>1 DEF Conversing
  <2>2. CASE dify'[d] # dify[d]
    <3>1. d = c /\ dify'[d] = msg
      BY <1>1, <1>3, <2>2 DEF TypeOK
    <3> QED
      BY <1>1, <3>1
  <2> QED
    BY <2>1, <2>2
<1> HIDE DEF c
<1> QED
  BY <1>2, <1>4 DEF Conversing

LEMMA TurnAnsweredRest == ASSUME AInv, TurnAnswered PROVE ARest'
<1> USE AssistantAssumption, BridgeAssumption DEF AInv, OwnInv, ARest
<1>1. /\ pc = "ask" /\ turn \in Turns /\ IsAsked(turn) /\ asker[turn].msg = msg
      /\ msg \in Messages /\ at[turn] = "succeeded" /\ asker[turn].conv \in Convs
  <2>1. pc = "ask" /\ turn # None /\ at[turn] = "succeeded"
    BY DEF TurnAnswered, AskAnswered
  <2>2. msg \in Messages
    BY <2>1 DEF IInv, TypeOK
  <2> QED
    BY <2>1, <2>2 DEF Waiting, ATypes, Conversing
<1>2. /\ asker' = asker /\ turn' = turn /\ since' = since /\ owner' = owner
      /\ names' = names /\ deadline' = deadline /\ handed' = handed /\ at' = at
      /\ exports' = exports /\ msg' = msg /\ conv' = conv /\ kind' = kind /\ pc' = "files"
  BY DEF TurnAnswered, AskAnswered, flow, store, exported
<1>3. PICK c \in Convs, a \in Answers :
        /\ Serves(c)
        /\ sessions' = [sessions EXCEPT ![SessionKey(msg)] = [conv |-> c, at |-> now]]
        /\ answer' = [is |-> "answer", long |-> a.long, marks |-> a.files,
                      promised |-> a.files, notes |-> {}]
  BY DEF TurnAnswered, AskAnswered
<1>4. answer'.marks = answer'.promised /\ c = asker[turn].conv
  <2>1. sessions'[SessionKey(msg)].conv = asker[turn].conv
    BY DEF TurnAnswered
  <2>2. SessionKey(msg) \in Keys /\ DOMAIN sessions = Keys
    BY <1>1, KeyOfMessage DEF IInv, TypeOK
  <2> QED
    BY <1>3, <2>1, <2>2
<1>5. mark' = NoLink \/ \E t \in Turns : /\ IsAsked(t) /\ asker[t].conv = asker[turn].conv
                                         /\ names[t] = mark' /\ at[t] = "succeeded"
  <2>1. mark' \in {NoLink, names[turn]} \cup Remembered(turn)
    BY DEF TurnAnswered, Named
  <2>2. ASSUME NEW t \in Turns, asker[t].conv = asker[turn].conv, said[t] = "data"
        PROVE  IsAsked(t) /\ at[t] = "succeeded"
    <3>1. FlowP!Spoken(t)
      BY DEF FlowP!IInv, FlowP!Sound
    <3>2. asker[t].conv # NoConv
      BY <1>1, <2>2
    <3> QED
      BY <2>2, <3>1, <3>2, AskedTurn DEF FlowP!Spoken
  <2>3. CASE mark' \in Remembered(turn)
    <3>1. PICK t \in Turns : /\ asker[t].conv = asker[turn].conv /\ said[t] = "data"
                             /\ mark' = names[t]
      BY <2>3 DEF Remembered
    <3> QED
      BY <2>2, <3>1
  <2> QED
    BY <1>1, <2>1, <2>3
<1>6. mark' \in Links \cup {NoLink} /\ (answer'.promised # {} => mark' # NoLink)
  <2>1. (mark' = NoLink) = (answer'.promised = {})
    BY DEF TurnAnswered
  <2> QED
    BY <1>5, <2>1 DEF ATypes
<1>7. ATypes'
  BY <1>2, <1>6 DEF ATypes
<1>8. Conversing'
  BY <1>1, <1>2, <1>3, <1>4, ServedConversing DEF IInv
<1>9. Waiting'
  BY <1>1, <1>2, <1>4, <1>5, <1>6 DEF Waiting, IsAsked, Fetching, Sending
<1>10. Published'
  <2>1. \A t \in Turns : Mine(t)' = Mine(t)
    BY <1>2 DEF Mine
  <2> QED
    BY <1>2, <2>1 DEF Published, IsAsked
<1> QED
  BY <1>7, <1>8, <1>9, <1>10

LEMMA TurnLostRest == ASSUME AInv, TurnLost PROVE ARest'
<1> USE AssistantAssumption DEF AInv, OwnInv, ARest
<1>1. /\ asker' = asker /\ turn' = None /\ since' = since /\ owner' = owner
      /\ names' = names /\ deadline' = deadline /\ handed' = handed /\ at' = at
      /\ exports' = exports /\ msg' = msg /\ conv' = conv /\ kind' = kind
      /\ sessions' = sessions /\ pc' = "reply" /\ mark' = mark /\ mark = NoLink
  BY DEF TurnLost, AskFailed, Waiting, flow, store, exported
<1>2. ATypes'
  BY <1>1 DEF ATypes
<1>3. Conversing'
  <2>1. CASE dify' = dify
    BY <1>1, <2>1 DEF Conversing, IsAsked, SenderOf, Sender, SessionKey, User
  <2>2. CASE dify' # dify
    <3>1. turn # None /\ Serves(asker[turn].conv) /\ pc = "ask"
      BY <2>2 DEF TurnLost, AskFailed
    <3>2. turn \in Turns /\ IsAsked(turn) /\ asker[turn].msg = msg
      BY <3>1 DEF Waiting, ATypes
    <3>3. msg \in Messages
      BY <3>1 DEF IInv, TypeOK
    <3> QED
      BY <1>1, <3>1, <3>2, <3>3, ServedConversing DEF IInv
  <2> QED
    BY <2>1, <2>2
<1>4. Waiting'
  BY <1>1 DEF Waiting, Fetching, Sending
<1>5. Published'
  BY <1>1 DEF Published, IsAsked, Mine
<1> QED
  BY <1>2, <1>3, <1>4, <1>5

LEMMA TurnMovesRest == ASSUME AInv, NEW t \in Turns, TurnMoves(t) PROVE ARest'
<1> USE AssistantAssumption DEF AInv, OwnInv, ARest
<1>1. /\ asker' = asker /\ turn' = turn /\ since' = since /\ mark' = mark
      /\ msg' = msg /\ conv' = conv /\ kind' = kind /\ sessions' = sessions /\ pc' = pc
      /\ answer' = answer /\ dify' = dify /\ IsAsked(t)
  BY DEF TurnMoves, vars, handling, remote, IsAsked
<1>2. /\ at[t] # "succeeded" /\ exports'[t] \in {exports[t], exports[t] + 1}
      /\ \A u \in Turns : u # t => at'[u] = at[u] /\ exports'[u] = exports[u]
  BY TurnStep DEF TurnMoves
<1>3. CASE exports'[t] = exports[t]
  <2>1. UNCHANGED <<store, exported>>
    BY <1>3 DEF TurnMoves
  <2>2. /\ owner' = owner /\ names' = names /\ deadline' = deadline /\ handed' = handed
    BY <2>1 DEF store, exported
  <2>3. \A u \in Turns : exports'[u] = exports[u] /\ Mine(u)' = Mine(u)
    BY <1>2, <1>3, <2>2 DEF Mine
  <2>4. \A u \in Turns : at[u] = "succeeded" => at'[u] = "succeeded"
    BY <1>2
  <2>5. ATypes' /\ Conversing'
    BY <1>1, <2>2 DEF ATypes, Conversing, IsAsked, SenderOf, Sender, SessionKey, User
  <2>6. Waiting'
    BY <1>1, <2>2, <2>4 DEF Waiting, IsAsked, Fetching, Sending
  <2>7. Published'
    BY <1>1, <2>2, <2>3, <2>4 DEF Published, IsAsked
  <2> QED
    BY <2>5, <2>6, <2>7
<1>4. CASE exports'[t] # exports[t]
  <2>1. PICK l \in AnUnused({k \in Links : owner[k] = None}) :
          /\ Store!Publish(l)
          /\ owner' = [owner EXCEPT ![l] = t]
          /\ names' = IF reply'[t].export THEN [names EXCEPT ![t] = l] ELSE names
    BY <1>4 DEF TurnMoves
  <2>2. l \in Links /\ owner[l] = None
    BY DEF AnUnused
  <2>3. /\ deadline' = [deadline EXCEPT ![l] = now + LinkTtl] /\ handed' = handed
    BY <2>1 DEF Store!Publish
  <2>4. /\ \A k \in Links : owner'[k] = IF k = l THEN t ELSE owner[k]
        /\ \A u \in Turns : u # t => names'[u] = names[u]
        /\ names'[t] \in {names[t], l}
    BY <2>1, <2>2 DEF ATypes
  <2>5. ATypes'
    <3>1. now + LinkTtl \in Nat
      BY DEF IInv, TypeOK
    <3>2. deadline' \in [Links -> Nat]
      BY <2>3, <3>1 DEF ATypes
    <3>3. owner' \in [Links -> Turns \cup {None}] /\ names' \in [Turns -> Links \cup {NoLink}]
      BY <2>1, <2>2 DEF ATypes
    <3> QED
      BY <1>1, <2>3, <3>2, <3>3 DEF ATypes
  <2>6. Conversing'
    BY <1>1 DEF Conversing, IsAsked, SenderOf, Sender, SessionKey, User
  <2>7. \A u \in Turns : at[u] = "succeeded" => at'[u] = "succeeded" /\ names'[u] = names[u]
    BY <1>2, <2>4
  <2>8. Waiting'
    BY <1>1, <2>7 DEF Waiting, IsAsked, Fetching, Sending
  <2>9. Published'
    <3>1. ASSUME NEW u \in Turns, names'[u] # NoLink PROVE owner'[names'[u]] = u
      <4>1. CASE names'[u] = names[u]
        <5>1. names[u] \in Links /\ owner[names[u]] = u
          BY <3>1, <4>1 DEF Published, ATypes
        <5> QED
          BY <2>2, <2>4, <4>1, <5>1
      <4>2. CASE names'[u] # names[u]
        BY <2>2, <2>4, <4>2
      <4> QED
        BY <4>1, <4>2
    <3>2. ASSUME NEW k \in Links, owner'[k] # None PROVE asker'[owner'[k]] # NotAsked
      BY <1>1, <2>4, <3>2 DEF Published, IsAsked
    <3>3. \A k \in handed' : \E u \in Turns : names'[u] = k /\ at'[u] = "succeeded"
      BY <2>3, <2>7 DEF Published
    <3>4. ASSUME NEW u \in Turns PROVE IsFiniteSet(Mine(u))' /\ Cardinality(Mine(u))' = exports'[u]
      <4>1. IsFiniteSet(Mine(u)) /\ Cardinality(Mine(u)) = exports[u]
        BY DEF Published
      <4>2. CASE u # t
        <5>1. Mine(u)' = Mine(u)
          BY <2>2, <2>4, <4>2 DEF Mine
        <5> QED
          BY <1>2, <4>1, <4>2, <5>1
      <4>3. CASE u = t
        <5>1. Mine(u)' = Mine(u) \cup {l} /\ l \notin Mine(u)
          BY <2>2, <2>4, <4>3 DEF Mine
        <5>2. IsFiniteSet(Mine(u) \cup {l}) /\ Cardinality(Mine(u) \cup {l}) = Cardinality(Mine(u)) + 1
          BY <4>1, <5>1, FS_AddElement
        <5> QED
          BY <1>2, <1>4, <4>1, <4>3, <5>1, <5>2
      <4> QED
        BY <4>2, <4>3
    <3> QED
      BY <3>1, <3>2, <3>3, <3>4 DEF Published, IsAsked
  <2> QED
    BY <2>5, <2>6, <2>8, <2>9
<1> QED
  BY <1>3, <1>4

\* The kind that is sent is one of the answer's, and its marks are gone.
LEMMA FirstKind ==
  ASSUME IInv, NextFile
  PROVE  /\ \E f \in answer.marks : f[1] = kind'
         /\ answer'.marks = {f \in answer.marks : f[1] # kind'}
         /\ answer'.promised = answer.promised
<1>1. answer \in Replies /\ answer.marks \subseteq Kinds \X Nat /\ answer.marks # {}
  BY DEF NextFile, IInv, TypeOK, Replies
<1>2. PICK k \in Kinds : /\ kind' = k /\ \E f \in answer.marks : f[1] = k
                         /\ answer' = [answer EXCEPT !.marks = {f \in @ : f[1] # k}]
  BY <1>1 DEF NextFile, Kinds
<1> QED
  BY <1>1, <1>2 DEF Replies

LEMMA DownloadBeginsRest == ASSUME AInv, DownloadBegins PROVE ARest'
<1> USE DEF AInv, OwnInv, ARest
<1>1. /\ asker' = asker /\ turn' = turn /\ owner' = owner /\ mark' = mark
      /\ names' = names /\ deadline' = deadline /\ handed' = handed /\ at' = at
      /\ exports' = exports /\ msg' = msg /\ conv' = conv
      /\ dify' = dify /\ pc = "files" /\ pc' = "download" /\ since' = now
  BY DEF DownloadBegins, NextFile, remote, flow, store, exported
<1>2. /\ answer'.promised = answer.promised /\ \E f \in answer.marks : f[1] = kind'
      /\ answer'.marks \subseteq answer.marks
  BY FirstKind DEF DownloadBegins
<1>3. ATypes'
  BY <1>1 DEF ATypes, IInv, TypeOK
<1>4. Conversing'
  BY <1>1 DEF Conversing, IsAsked, SenderOf, Sender, SessionKey, User
<1>5. Waiting'
  BY <1>1, <1>2 DEF Waiting, IsAsked, Fetching, Sending
<1>6. Published'
  BY <1>1 DEF Published, IsAsked, Mine
<1> QED
  BY <1>3, <1>4, <1>5, <1>6

\* A request of a file's delivery changes the remarks of the answer only.
LEMMA FileStepKeeps ==
  ASSUME IInv, NEW from, NEW there, NEW heard, NEW to, FileStep(from, there, heard, to)
  PROVE  /\ answer'.promised = answer.promised /\ answer'.marks = answer.marks
         /\ pc = from /\ pc' = to /\ kind' = kind /\ msg' = msg /\ conv' = conv
         /\ dify' = dify /\ now' = now /\ askedAt' = askedAt
BY DEF FileStep, remote, IInv, TypeOK

LEMMA DownloadEndsRest == ASSUME AInv, DownloadEnds PROVE ARest'
<1> USE DEF AInv, OwnInv, ARest
<1>1. /\ asker' = asker /\ turn' = turn /\ owner' = owner /\ mark' = mark
      /\ names' = names /\ at' = at /\ exports' = exports /\ since' = since
  BY DEF DownloadEnds, flow, exported
<1>2. /\ pc = "download" /\ pc' \in {"upload", "files"} /\ kind' = kind /\ msg' = msg
      /\ conv' = conv /\ dify' = dify
      /\ answer'.promised = answer.promised /\ answer'.marks = answer.marks
  BY FileStepKeeps DEF DownloadEnds, Download
<1>3. mark \in Links /\ \E t \in Turns : names[t] = mark /\ at[t] = "succeeded"
  BY <1>2, MarkIsLink DEF Sending
<1>4. deadline' = deadline /\ (handed' = handed \/ handed' = handed \cup {mark})
  BY DEF DownloadEnds, Store!Hand, store
<1>5. ATypes'
  BY <1>1, <1>3, <1>4 DEF ATypes
<1>6. Conversing'
  BY <1>1, <1>2 DEF Conversing, IsAsked, SenderOf, Sender, SessionKey, User
<1>7. Waiting'
  BY <1>1, <1>2 DEF Waiting, IsAsked, Fetching, Sending
<1>8. Published'
  <2>1. \A t \in Turns : Mine(t)' = Mine(t)
    BY <1>1 DEF Mine
  <2> QED
    BY <1>1, <1>3, <1>4, <2>1 DEF Published, IsAsked
<1> QED
  BY <1>5, <1>6, <1>7, <1>8

LEMMA BridgeMovesRest == ASSUME AInv, BridgeMoves PROVE ARest'
<1> USE AssistantAssumption, BridgeAssumption DEF AInv, OwnInv, ARest
<1>1. /\ asker' = asker /\ owner' = owner /\ names' = names /\ deadline' = deadline
      /\ handed' = handed /\ at' = at /\ exports' = exports
      /\ IF pc' = "idle" THEN turn' = None /\ mark' = NoLink /\ since' = 0
                         ELSE turn' = turn /\ mark' = mark /\ since' = since
  BY DEF BridgeMoves, flow, store, exported
<1>2. ATypes' /\ Published'
  <2>1. \A t \in Turns : Mine(t)' = Mine(t)
    BY <1>1 DEF Mine
  <2>2. ATypes'
    BY <1>1 DEF ATypes
  <2> QED
    BY <1>1, <2>1, <2>2 DEF Published, IsAsked
<1>3. Conversing'
  <2>1. dify' = dify
    BY DEF BridgeMoves, Receive, Upload, Webhook, Api, FileStep, Trim, Reply, Ack, Crash,
       Deliver, remote
  <2> QED
    BY <1>1, <2>1 DEF Conversing, IsAsked, SenderOf, Sender, SessionKey, User
\* The actions that go on with a delivery, or are past it.
<1>4. ASSUME pc' # "ask",
             pc' \in Fetching => /\ pc \in Fetching
                                 /\ answer'.promised = answer.promised
                                 /\ answer'.marks \subseteq answer.marks,
             pc' \in Sending => pc \in Sending /\ kind' = kind,
             pc' = "idle" \/ (pc # "idle" /\ msg' = msg)
      PROVE  Waiting'
  BY <1>1, <1>4 DEF Waiting, IsAsked, Fetching, Sending
<1>5. CASE Receive
  <2>1. pc = "idle" /\ turn = None /\ mark = NoLink /\ pc' \in {"reply", "ask"}
    BY <1>5 DEF Receive, Waiting
  <2>2. Waiting'
    BY <1>1, <2>1 DEF Waiting, Fetching, Sending
  <2> QED
    BY <1>2, <1>3, <2>2
<1>6. CASE Upload \/ Webhook \/ Api
  <2>1. /\ pc \in Sending /\ pc' \in {"webhook", "api", "files"}
        /\ answer'.promised = answer.promised /\ answer'.marks = answer.marks
        /\ kind' = kind /\ msg' = msg
    BY <1>6, FileStepKeeps DEF Upload, Webhook, Api, Sending
  <2>2. pc # "idle"
    BY <2>1 DEF Sending
  <2> QED
    BY <1>2, <1>3, <1>4, <2>1, <2>2 DEF Fetching, Sending
<1>7. CASE Trim \/ Reply
  <2>1. pc # "idle" /\ msg' = msg /\ pc' \in {"reply", "ack"}
    BY <1>7 DEF Trim, Reply, handling
  <2> QED
    BY <1>2, <1>3, <1>4, <2>1 DEF Fetching, Sending
<1>8. CASE Ack \/ Crash \/ (pc = "idle" /\ \E m \in Messages : Deliver(m))
  <2>1. pc' = "idle"
    BY <1>8 DEF Ack, Crash, Deliver
  <2> QED
    BY <1>2, <1>3, <1>4, <2>1 DEF Fetching, Sending
<1> QED
  BY <1>5, <1>6, <1>7, <1>8 DEF BridgeMoves

LEMMA NextAInv == AInv /\ [ANext]_everything => AInv'
<1> SUFFICES ASSUME AInv, [ANext]_everything PROVE AInv'
  OBVIOUS
<1>1. CASE UNCHANGED everything
  <2>1. UNCHANGED vars /\ UNCHANGED flow /\ UNCHANGED <<store, turn, asker, mark, since, exported>>
    BY <1>1 DEF everything
  <2>2. OwnInv'
    BY <2>1, NextOwn DEF AInv
  <2>3. FlowP!IInv'
    <3>1. UNCHANGED FlowP!vars
      BY <2>1 DEF flow, FlowP!vars
    <3> QED
      BY <3>1, FlowP!StutterIInv DEF AInv
  <2>4. ARest'
    <3>1. /\ UNCHANGED <<deadline, handed, asker, turn, mark, since, owner, names, at>>
          /\ UNCHANGED <<exports, dify, pc, msg, answer, kind>>
      BY <2>1 DEF vars, handling, remote, flow, store, exported
    <3>2. ATypes'
      BY <3>1 DEF AInv, ARest, ATypes
    <3>3. Conversing'
      BY <3>1 DEF AInv, ARest, Conversing, IsAsked, SenderOf, Sender, SessionKey, User
    <3>4. Waiting'
      BY <3>1 DEF AInv, ARest, Waiting, IsAsked, Fetching
    <3>5. Published'
      BY <3>1 DEF AInv, ARest, Published, IsAsked, Mine
    <3> QED
      BY <3>2, <3>3, <3>4, <3>5 DEF ARest
  <2> QED
    BY <2>2, <2>3, <2>4 DEF AInv
<1>2. CASE ANext
  <2>1. OwnInv' /\ FlowP!IInv'
    BY <1>2, BridgeStep, NextOwn, FlowInv DEF AInv
  <2>2. ARest'
    BY <1>2, PassesRest, LinksFail, AskArrivesRest, TurnAnsweredRest, TurnLostRest,
       TurnMovesRest, DownloadBeginsRest, DownloadEndsRest, BridgeMovesRest DEF ANext, AInv
  <2> QED
    BY <2>1, <2>2 DEF AInv
<1> QED
  BY <1>1, <1>2

--------------------------------------------------------------------------------
(* Time.                                                                      *)

ClockTypes == askedAt \in Nat /\ now \in Nat /\ AskLimit \in Nat /\ DownloadLimit \in Nat
           /\ LinkTtl \in Nat

LEMMA ClockIsTyped == IInv => ClockTypes
BY AssistantAssumption, BridgeAssumption DEF IInv, TypeOK, ClockTypes

LEMMA PassesTime == ASSUME TInv, Passes PROVE (Clocked /\ Single)'
<1> USE DEF TInv, AInv, OwnInv
<1>1. /\ now' = now + 1 /\ askedAt' = askedAt /\ pc' = pc /\ answer' = answer
      /\ since' = since /\ turn' = turn /\ owner' = owner /\ deadline' = deadline
      /\ pc \in {"idle", "ask", "download"}
      /\ pc = "ask" => now - askedAt < AskLimit
      /\ pc = "download" => now - since < DownloadLimit
  BY DEF Passes, Tick, handling, store, exported, Quiet, Handling
<1>2. ClockTypes /\ since \in Nat
  BY ClockIsTyped DEF ARest, ATypes
<1>3. Clocked'
  BY <1>1, <1>2 DEF Clocked, ClockTypes
<1>4. Single'
  BY <1>1 DEF Single, Sending
<1> QED
  BY <1>3, <1>4

LEMMA AskArrivesTime == ASSUME TInv, AskArrives PROVE (Clocked /\ Single)'
<1> USE DEF TInv, AInv, OwnInv
<1>1. PICK t \in AnUnused(Spare) : turn' = t
  BY DEF AskArrives
<1>2. t \in Turns /\ ~IsAsked(t)
  BY DEF AnUnused, Spare, IsAsked
<1>3. \A l \in Links : owner[l] # t
  BY <1>2, AssistantAssumption DEF ARest, Published
<1>4. /\ now' = now /\ askedAt' = askedAt /\ pc' = pc /\ answer' = answer
      /\ since' = since /\ owner' = owner /\ deadline' = deadline
  BY DEF AskArrives, vars, handling, store, exported
<1> QED
  BY <1>1, <1>3, <1>4 DEF Clocked, Single

LEMMA TurnAnsweredTime == ASSUME OneMark, TInv, TurnAnswered PROVE (Clocked /\ Single)'
<1> USE DEF TInv, AInv, OwnInv
<1>1. /\ now' = now /\ askedAt' = askedAt /\ pc = "ask" /\ pc' = "files" /\ since' = since
      /\ owner' = owner /\ deadline' = deadline /\ turn' = turn
  BY DEF TurnAnswered, AskAnswered, store, exported
<1>2. \E a \in Answers : answer'.marks = a.files
  BY DEF TurnAnswered, AskAnswered
<1>3. Single'
  BY <1>1, <1>2 DEF Single, OneMark, Sending
<1> QED
  BY <1>1, <1>3 DEF Clocked

LEMMA TurnMovesTime == ASSUME TInv, NEW t \in Turns, TurnMoves(t) PROVE (Clocked /\ Single)'
<1> USE DEF TInv, AInv, OwnInv
<1>1. /\ now' = now /\ askedAt' = askedAt /\ pc' = pc /\ answer' = answer
      /\ since' = since /\ turn' = turn
  BY DEF TurnMoves, vars, handling
<1>2. CASE UNCHANGED <<store, exported>>
  BY <1>1, <1>2 DEF Clocked, Single, store, exported
<1>3. CASE ~UNCHANGED <<store, exported>>
  <2>1. PICK l \in AnUnused({k \in Links : owner[k] = None}) :
          /\ Store!Publish(l) /\ owner' = [owner EXCEPT ![l] = t]
    BY <1>3 DEF TurnMoves
  <2>2. l \in Links
    BY DEF AnUnused
  <2>3. deadline' = [deadline EXCEPT ![l] = now + LinkTtl]
    BY <2>1 DEF Store!Publish
  <2>4. \A k \in Links : /\ owner'[k] = IF k = l THEN t ELSE owner[k]
                         /\ deadline'[k] = IF k = l THEN now + LinkTtl ELSE deadline[k]
    BY <2>1, <2>2, <2>3 DEF ARest, ATypes
  <2>5. ClockTypes
    BY ClockIsTyped
  <2>6. askedAt + LinkTtl <= now + LinkTtl
    BY <2>5 DEF Clocked, ClockTypes
  <2> QED
    BY <1>1, <2>4, <2>6 DEF Clocked, Single
<1> QED
  BY <1>2, <1>3

LEMMA DownloadBeginsTime == ASSUME TInv, DownloadBegins PROVE (Clocked /\ Single)'
<1> USE DEF TInv, AInv, OwnInv
<1>1. /\ now' = now /\ askedAt' = askedAt /\ pc = "files" /\ pc' = "download"
      /\ since' = now /\ turn' = turn /\ owner' = owner /\ deadline' = deadline
      /\ answer.marks # {}
  BY DEF DownloadBegins, NextFile, store, exported
<1>2. (\E f \in answer.marks : f[1] = kind') /\ answer'.marks = {f \in answer.marks : f[1] # kind'}
  BY FirstKind DEF DownloadBegins
<1>3. answer'.marks = {}
  BY <1>1, <1>2 DEF Single
<1>4. now <= now + DownloadLimit
  BY ClockIsTyped DEF ClockTypes
<1> QED
  BY <1>1, <1>3, <1>4 DEF Clocked, Single

LEMMA LinksFailTime == ASSUME TInv, LinkExpires \/ GatewayRestarts PROVE (Clocked /\ Single)'
BY DEF LinkExpires, GatewayRestarts, Store!Expire, Store!Restart, vars, handling, exported,
   TInv, Clocked, Single

\* Everything else leaves the turn's question behind or is done with its download.
LEMMA BridgeTime ==
  ASSUME TInv, DownloadEnds \/ TurnLost \/ BridgeMoves PROVE (Clocked /\ Single)'
<1> USE BridgeAssumption DEF TInv, AInv, OwnInv
<1>1. /\ owner' = owner /\ deadline' = deadline /\ now' = now
      /\ turn' \in {turn, None}
  <2>1. now' = now
    <3>1. ~Passes \/ now' = now
      BY DEF DownloadEnds, Download, FileStep, TurnLost, AskFailed, BridgeMoves, Receive,
         Upload, Webhook, Api, Trim, Reply, Ack, Crash, Deliver
    <3> QED
      BY <3>1, ClockStands DEF ANext
  <2> QED
    BY <2>1 DEF DownloadEnds, TurnLost, BridgeMoves, Store!Hand, store, exported
<1>2. CASE \/ DownloadEnds \/ (BridgeMoves /\ (Upload \/ Webhook \/ Api))
  <2>1. /\ pc \in Sending /\ pc' \in {"files", "upload", "webhook", "api"}
        /\ answer'.marks = answer.marks /\ askedAt' = askedAt
    BY <1>2, FileStepKeeps DEF DownloadEnds, Download, Upload, Webhook, Api, Sending
  <2>2. answer'.marks = {}
    BY <2>1 DEF Single
  <2> QED
    BY <1>1, <2>1, <2>2 DEF Clocked, Single
<1>3. CASE TurnLost
  <2>1. pc' = "reply" /\ turn' = None /\ askedAt' = askedAt
    BY <1>3 DEF TurnLost, AskFailed
  <2> QED
    BY <1>1, <2>1 DEF Clocked, Single, Sending
<1>4. CASE BridgeMoves /\ (Trim \/ Reply)
  <2>1. pc' \in {"reply", "ack"} /\ askedAt' = askedAt
    BY <1>4 DEF Trim, Reply, handling
  <2> QED
    BY <1>1, <2>1 DEF Clocked, Single, Sending
<1>5. CASE BridgeMoves /\ (Ack \/ Crash)
  <2>1. pc' = "idle" /\ turn' = None /\ askedAt' = 0
    BY <1>5 DEF Ack, Crash, BridgeMoves
  <2>2. 0 <= now
    BY ClockIsTyped DEF ClockTypes
  <2> QED
    BY <1>1, <2>1, <2>2 DEF Clocked, Single, Sending
<1>6. CASE BridgeMoves /\ pc = "idle" /\ \E m \in Messages : Deliver(m)
  <2>1. pc' = "idle" /\ turn' = None /\ askedAt' = askedAt
    BY <1>6 DEF Deliver, BridgeMoves, handling
  <2> QED
    BY <1>1, <2>1 DEF Clocked, Single, Sending
<1>7. CASE BridgeMoves /\ Receive
  <2>1. /\ pc' \in {"reply", "ask"} /\ askedAt' \in {askedAt, now}
        /\ pc' = "ask" => askedAt' = now
        /\ turn = None
    BY <1>7 DEF Receive, ARest, Waiting
  <2>2. now <= now /\ now <= now + AskLimit
    BY ClockIsTyped DEF ClockTypes
  <2> QED
    BY <1>1, <2>1, <2>2 DEF Clocked, Single, Sending
<1> QED
  BY <1>2, <1>3, <1>4, <1>5, <1>6, <1>7 DEF BridgeMoves

LEMMA NextTInv == OneMark /\ TInv /\ [ANext]_everything => TInv'
<1> SUFFICES ASSUME OneMark, TInv, [ANext]_everything PROVE TInv'
  OBVIOUS
<1>1. AInv'
  BY NextAInv DEF TInv
<1>2. CASE UNCHANGED everything
  <2>1. (Clocked /\ Single)'
    BY <1>2 DEF everything, vars, handling, store, exported, TInv, Clocked, Single
  <2> QED
    BY <1>1, <2>1 DEF TInv
<1>3. CASE ANext
  <2>1. (Clocked /\ Single)'
    BY <1>3, PassesTime, AskArrivesTime, TurnAnsweredTime, TurnMovesTime, DownloadBeginsTime,
       LinksFailTime, BridgeTime DEF ANext
  <2> QED
    BY <1>1, <2>1 DEF TInv
<1> QED
  BY <1>2, <1>3

--------------------------------------------------------------------------------
\* The three parts together keep the invariants of the bridge and of the chatflow,
\* and what relates their conversations, turns and links.
THEOREM AssistantSafety == ASpec => []AInv
<1>1. AInit => AInv
  BY InitAInv DEF TInv
<1> QED
  BY <1>1, NextAInv, PTL DEF ASpec

\* Working together, each part still does what it does alone: whatever is proved of
\* the bridge, of a turn and of a link holds of the assistant.
THEOREM PartsKeepTheirSpecs == ASpec => Spec /\ Flow!Spec /\ Store!Spec
<1>1. AInit => Init /\ Flow!Init /\ Store!Init
  BY DEF AInit
<1>2. AInv /\ [ANext]_everything =>
        [Next]_vars /\ [Flow!Next]_(Flow!vars) /\ [Store!Next]_(Store!vars)
  <2> SUFFICES ASSUME AInv, [ANext]_everything
               PROVE  [Next]_vars /\ [Flow!Next]_(Flow!vars) /\ [Store!Next]_(Store!vars)
    OBVIOUS
  <2>1. CASE UNCHANGED everything
    BY <2>1 DEF everything, vars, flow, store, Flow!vars, Store!vars
  <2>2. CASE ANext
    <3>1. [Next]_vars
      BY <2>2, BridgeStep
    <3>2. [Flow!Next]_(Flow!vars)
      BY <2>2, FlowStep DEF Flow!Next, Flow!vars, flow
    <3>3. [Store!Next]_(Store!vars)
      BY <2>2, StoreStep DEF AInv, ARest
    <3> QED
      BY <3>1, <3>2, <3>3
  <2> QED
    BY <2>1, <2>2
<1> QED
  BY <1>1, <1>2, AssistantSafety, PTL DEF ASpec, Spec, Flow!Spec, Store!Spec

\* A link of the answered turn is within its lifetime while the bridge asks for its
\* file, when no answer names files of two kinds (the gateway marks one file per
\* answer, and of each kind the bridge fetches one).
THEOREM LinksWork == ASSUME OneMark PROVE ASpec => []LinkWorks
<1>1. TInv => LinkWorks
  <2> SUFFICES ASSUME TInv, pc = "download", owner[mark] = turn PROVE now <= deadline[mark]
    BY DEF LinkWorks
  <2>1. mark \in Links /\ turn \in Turns
    BY MarkIsLink DEF TInv, AInv, ARest, Sending
  <2>2. turn # None
    BY <2>1, AssistantAssumption
  <2>3. /\ since <= askedAt + AskLimit /\ now <= since + DownloadLimit
        /\ askedAt + LinkTtl <= deadline[mark]
    BY <2>1, <2>2 DEF TInv, Clocked
  <2>4. ClockTypes /\ since \in Nat /\ deadline[mark] \in Nat
    BY <2>1, ClockIsTyped DEF TInv, AInv, OwnInv, ARest, ATypes
  <2>5. AskLimit + DownloadLimit <= LinkTtl
    BY AssistantAssumption
  <2> QED
    BY <2>3, <2>4, <2>5 DEF ClockTypes
<1>2. OneMark /\ TInv /\ [ANext]_everything => TInv'
  BY NextTInv
<1>3. TInv /\ [ANext]_everything => TInv'
  BY <1>2
<1> QED
  BY <1>1, <1>3, InitAInv, PTL DEF ASpec

\* The file on its way was exported for a question under the same session key and
\* for the same Dify user.
SameSession ==
  pc \in {"upload", "webhook", "api"} =>
    /\ asker[owner[mark]].msg \in Messages /\ msg \in Messages
    /\ Sender(asker[owner[mark]].msg) = Sender(msg)

LEMMA FilesOfSession == AInv => SameSession
<1> SUFFICES ASSUME AInv, pc \in {"upload", "webhook", "api"}
             PROVE  /\ asker[owner[mark]].msg \in Messages /\ msg \in Messages
                    /\ Sender(asker[owner[mark]].msg) = Sender(msg)
  BY DEF SameSession
<1> USE AssistantAssumption DEF AInv, OwnInv, ARest
<1>1. pc \in Sending
  BY DEF Sending
<1>2. mark \in Links /\ turn \in Turns
  BY <1>1, MarkIsLink
<1>3. PICK t \in Turns : /\ IsAsked(t) /\ asker[t].conv = asker[turn].conv /\ names[t] = mark
  BY <1>1, MarkIsLink
<1>4. owner[mark] = t
  BY <1>2, <1>3 DEF Published
<1>5. IsAsked(turn) /\ asker[turn].msg = msg
  BY <1>2 DEF Waiting
<1>6. SenderOf(t) = SenderOf(turn) /\ asker[t].msg \in Messages /\ msg \in Messages
  BY <1>2, <1>3, <1>5 DEF Conversing
<1> QED
  BY <1>4, <1>5, <1>6 DEF SenderOf

\* Whatever names DingTalk gives people: a file goes to a person it was exported for,
\* or to one whom neither the bridge nor Dify can tell from that person.
THEOREM NoFileGoesAstray == ASpec => []NoForeignFile
<1>1. AInv => NoForeignFile
  <2> SUFFICES ASSUME AInv, pc \in {"upload", "webhook", "api"}
               PROVE  SameSender(asker[owner[mark]].msg, msg)
    BY DEF NoForeignFile
  <2> QED
    BY FilesOfSession, SharedKey DEF SameSession, Sender
<1> QED
  BY <1>1, AssistantSafety, PTL

\* Of the links that the attempts of one turn publish, three at most, only the one
\* its answer names is ever handed out.
THEOREM OneLinkIsHanded == ASpec => []OneLinkHanded
<1>1. AInv => OneLinkHanded
  <2> SUFFICES ASSUME AInv, NEW t \in Turns
               PROVE  /\ Cardinality(Mine(t)) <= tries[t] /\ tries[t] <= 3
                      /\ Mine(t) \cap handed \subseteq {names[t]}
    BY DEF OneLinkHanded, Mine
  <2>1. Cardinality(Mine(t)) = exports[t]
    BY DEF AInv, ARest, Published
  <2>2. exports[t] <= tries[t] /\ tries[t] <= 3
    BY DEF AInv, FlowP!IInv, FlowP!Sound, FlowP!Counted, FlowP!TypeOK, FlowP!MaxNodeRetries
  <2>3. ASSUME NEW l \in Mine(t) \cap handed PROVE l = names[t]
    <3>1. PICK u \in Turns : names[u] = l
      BY DEF AInv, ARest, Published
    <3>2. l \in Links /\ owner[l] = t
      BY DEF Mine
    <3>3. owner[l] = u
      BY <3>1, <3>2, AssistantAssumption DEF AInv, ARest, Published
    <3> QED
      BY <3>1, <3>2, <3>3
  <2> QED
    BY <2>1, <2>2, <2>3
<1> QED
  BY <1>1, AssistantSafety, PTL
================================================================================
