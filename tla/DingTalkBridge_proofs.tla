------------------------ MODULE DingTalkBridge_proofs ------------------------
(***************************************************************************)
(* Proofs about DingTalkBridge, for any messages, conversations and        *)
(* lifetime, and any bounds on time, deliveries and restarts.              *)
(***************************************************************************)
EXTENDS DingTalkBridge, FiniteSets, SequenceTheorems, FiniteSetTheorems, TLAPS

--------------------------------------------------------------------------------
(* The inductive invariant.                                                   *)

\* What the bridge remembers of a key is the last answer under it since the last
\* restart; only a record that is too old is dropped.
Recall ==
  \A k \in Keys :
    /\ lastGood[k].crash <= crashes
    /\ lastGood[k].at <= now
    /\ IF lastGood[k].conv # NoConv /\ lastGood[k].crash = crashes
       THEN \/ sessions[k] = [conv |-> lastGood[k].conv, at |-> lastGood[k].at]
            \/ sessions[k] = NoSession /\ now - lastGood[k].at >= Ttl
       ELSE sessions[k] = NoSession

\* What may be replied, and the labels of a file's delivery.
Replies == [is : {"none", "hint", "error", "answer"}, long : BOOLEAN,
            marks : SUBSET (Kinds \X Nat), promised : SUBSET (Kinds \X Nat),
            notes : SUBSET Kinds]
Sending == {"download", "upload", "webhook", "api"}

\* The first file of a kind the answer promised is still to be sent, in hand,
\* accepted, or counted as failed; and only the last two of a kind that is done with.
Promises ==
  /\ pc \in {"idle", "ask"} => answer = NoAnswer /\ taken = {}
  /\ answer.notes \cap taken = {}
  /\ pc = "files" \/ pc \in Sending =>
       /\ \A f \in answer.promised : f[2] = 1 =>
            \/ f \in answer.marks \/ f[1] \in taken \cup answer.notes
            \/ pc \in Sending /\ f[1] = kind
       /\ \A f \in answer.marks : f[1] \notin taken \cup answer.notes
  /\ pc \in Sending =>
       /\ kind \in Kinds \ (taken \cup answer.notes)
       /\ \A f \in answer.marks : f[1] # kind

\* A file of kind k may still be sent before this handling is over.
MayCome(k) ==
  \/ pc = "ask"
  \/ (pc = "files" \/ pc \in Sending) /\ \E f \in answer.marks : f[1] = k
  \/ pc \in Sending /\ kind = k

\* Where and how often a message stands in a queue.
Where(q, m) == {i \in 1..Len(q) : q[i] = m}
Times(q, m) == Cardinality(Where(q, m))

\* Every delivery of a message waits, may still bring a file of kind k, or has brought
\* one at most, refusals of the webhook aside.
Counted ==
  \A m \in Messages, k \in Kinds :
    surplus[m][k] + Times(inbox, m) + One(msg = m /\ MayCome(k)) <= copies[m]

\* A handling acknowledges its message after it has replied.
Replying == pc = "ack" => msg \in replied

IInv ==
  /\ TypeOK /\ ContextKept /\ NoteTruthful /\ FileOnce /\ AckAfterReply
  /\ Recall /\ Promises /\ Replying /\ Counted

--------------------------------------------------------------------------------
\* Queues: what a delivery adds, and what the handler takes.
LEMMA TimesTyped ==
  ASSUME NEW q \in Seq(Messages), NEW m
  PROVE  IsFiniteSet(Where(q, m)) /\ Times(q, m) \in Nat
<1>1. IsFiniteSet(1..Len(q))
  BY FS_Interval
<1>2. Where(q, m) \in SUBSET (1..Len(q))
  BY DEF Where
<1> QED
  BY <1>1, <1>2, FS_Subset, FS_CardinalityType DEF Times

LEMMA TimesEmpty == ASSUME NEW m PROVE Times(<<>>, m) = 0
<1>1. Where(<<>>, m) = {}
  BY DEF Where
<1> QED
  BY <1>1, FS_EmptySet DEF Times

LEMMA TimesAppend ==
  ASSUME NEW q \in Seq(Messages), NEW n \in Messages, NEW m
  PROVE  Times(Append(q, n), m) = Times(q, m) + One(n = m)
<1>1. /\ Append(q, n) \in Seq(Messages) /\ Len(Append(q, n)) = Len(q) + 1
      /\ \A i \in 1..Len(q) : Append(q, n)[i] = q[i]
      /\ Append(q, n)[Len(q) + 1] = n
      /\ Len(q) \in Nat
  OBVIOUS
<1>2. Len(q) + 1 \notin Where(q, m)
  BY <1>1 DEF Where
<1>3. CASE n = m
  <2>1. Where(Append(q, n), m) = Where(q, m) \cup {Len(q) + 1}
    BY <1>1, <1>3 DEF Where
  <2> QED
    BY <1>2, <1>3, <2>1, TimesTyped, FS_AddElement DEF Times, One
<1>4. CASE n # m
  <2>1. Where(Append(q, n), m) = Where(q, m)
    BY <1>1, <1>4 DEF Where
  <2> QED
    BY <1>4, <2>1, TimesTyped DEF Times, One
<1> QED
  BY <1>3, <1>4

LEMMA TimesTail ==
  ASSUME NEW q \in Seq(Messages), q # <<>>, NEW m
  PROVE  Times(Tail(q), m) + One(Head(q) = m) <= Times(q, m)
<1> DEFINE S == Where(Tail(q), m)
           T == Where(q, m) \ {1}
           f == [i \in S |-> i + 1]
<1>1. /\ Len(q) \in Nat \ {0} /\ Tail(q) \in Seq(Messages) /\ Len(Tail(q)) = Len(q) - 1
      /\ \A i \in 1..Len(q) - 1 : Tail(q)[i] = q[i + 1]
      /\ Head(q) = q[1]
  OBVIOUS
<1>2. f \in Injection(S, T)
  <2>1. \A i \in S : i \in Nat /\ i + 1 \in T
    BY <1>1 DEF Where
  <2> QED
    BY <2>1 DEF Injection, IsInjective
<1>3. IsFiniteSet(T) /\ Cardinality(T) = Times(q, m) - One(Head(q) = m)
  <2>1. 1 \in Where(q, m) <=> Head(q) = m
    BY <1>1 DEF Where
  <2>2. IsFiniteSet(Where(q, m)) /\ Cardinality(Where(q, m)) \in Nat
    BY TimesTyped DEF Times
  <2>3. /\ IsFiniteSet(T)
        /\ Cardinality(T) = IF 1 \in Where(q, m) THEN Cardinality(Where(q, m)) - 1
                            ELSE Cardinality(Where(q, m))
    BY <2>2, FS_RemoveElement
  <2> QED
    BY <2>1, <2>2, <2>3 DEF Times, One
<1>4. Cardinality(S) <= Cardinality(T)
  <2> HIDE DEF f, S, T
  <2> QED
    BY <1>2, <1>3, FS_Injection
<1>5. Times(Tail(q), m) = Cardinality(S) /\ Times(Tail(q), m) \in Nat /\ Times(q, m) \in Nat
  BY <1>1, TimesTyped DEF Times
<1> HIDE DEF S, T
<1> QED
  BY <1>3, <1>4, <1>5 DEF One

LEMMA CountedTyped ==
  ASSUME TypeOK, NEW m \in Messages, NEW k \in Kinds
  PROVE  surplus[m][k] \in Int /\ copies[m] \in Nat /\ Times(inbox, m) \in Nat
BY TimesTyped DEF TypeOK

\* A step that counts nothing and begins nothing.
LEMMA CountedStays ==
  ASSUME TypeOK, Counted, UNCHANGED <<inbox, copies, surplus>>,
         \A m \in Messages, k \in Kinds :
           msg' = m /\ MayCome(k)' => msg = m /\ MayCome(k)
  PROVE  Counted'
<1> SUFFICES ASSUME NEW m \in Messages, NEW k \in Kinds
             PROVE  (surplus[m][k] + Times(inbox, m) + One(msg = m /\ MayCome(k)) <= copies[m])'
  BY DEF Counted
<1>1. surplus[m][k] + Times(inbox, m) + One(msg = m /\ MayCome(k)) <= copies[m]
  BY DEF Counted
<1> QED
  BY <1>1, CountedTyped DEF One

LEMMA CountedOnce == TypeOK /\ Counted => FileOnce
<1> SUFFICES ASSUME TypeOK, Counted, NEW m \in Messages, NEW k \in Kinds
             PROVE  surplus[m][k] <= copies[m]
  BY DEF FileOnce
<1> QED
  BY CountedTyped DEF Counted, One

--------------------------------------------------------------------------------
LEMMA InitIInv == Init => IInv
<1> SUFFICES ASSUME Init PROVE IInv
  OBVIOUS
<1> USE BridgeAssumption DEF Init
<1>1. TypeOK
  BY DEF TypeOK, NoSession, Never, NoAnswer
<1>2. Recall
  BY DEF Recall, NoSession, Never
<1>3. Counted
  <2>1. \A m \in Messages : m # msg
    OBVIOUS
  <2> QED
    BY <2>1, TimesEmpty DEF Counted, One
<1>4. FileOnce
  BY DEF FileOnce
<1>5. Promises
  BY DEF Promises, Sending, NoAnswer
<1> QED
  BY <1>1, <1>2, <1>3, <1>4, <1>5 DEF IInv, ContextKept, NoteTruthful, AckAfterReply, Replying

LEMMA KeyOfMessage == \A m \in Messages : SessionKey(m) \in Keys
BY DEF Keys

LEMMA TickIInv == ASSUME IInv, Tick PROVE IInv'
<1> USE BridgeAssumption DEF IInv, Tick, outside, handling, remote, history
<1>1. TypeOK'
  BY DEF TypeOK
<1>2. Recall'
  BY DEF Recall, TypeOK
<1>3. (ContextKept /\ NoteTruthful /\ FileOnce /\ AckAfterReply /\ Promises /\ Replying)'
  BY DEF ContextKept, NoteTruthful, FileOnce, AckAfterReply, Promises, Replying
<1>4. Counted'
  BY CountedStays DEF MayCome
<1> QED
  BY <1>1, <1>2, <1>3, <1>4

\* One delivery more, and one more waits.
LEMMA DeliverIInv == ASSUME IInv, NEW m \in Messages, Deliver(m) PROVE IInv'
<1> USE BridgeAssumption DEF IInv, Deliver, handling, remote, history
<1>1. inbox' \in Seq(Messages)
  BY DEF TypeOK
<1>2. TypeOK'
  <2>1. copies' \in [Messages -> Nat]
    BY DEF TypeOK
  <2>2. ASSUME NEW n \in Messages PROVE copies'[n] <= MaxCopies[n]
    <3>1. copies \in [Messages -> Nat] /\ copies[n] <= MaxCopies[n] /\ MaxCopies[n] \in Nat
      BY DEF TypeOK
    <3>2. copies[m] < MaxCopies[m] /\ copies' = [copies EXCEPT ![m] = @ + 1]
      OBVIOUS
    <3> HIDE DEF IInv, Deliver
    <3> QED
      BY <3>1, <3>2
  <2> QED
    BY <1>1, <2>1, <2>2 DEF TypeOK
<1>3. AckAfterReply'
  BY DEF AckAfterReply, TypeOK
<1>4. (ContextKept /\ NoteTruthful /\ Recall /\ Promises /\ Replying)'
  BY DEF ContextKept, NoteTruthful, Recall, Promises, Replying
<1>5. Counted'
  <2> SUFFICES ASSUME NEW n \in Messages, NEW k \in Kinds
               PROVE  (surplus[n][k] + Times(inbox, n) + One(msg = n /\ MayCome(k)) <= copies[n])'
    BY DEF Counted
  <2>1. surplus[n][k] + Times(inbox, n) + One(msg = n /\ MayCome(k)) <= copies[n]
    BY DEF Counted
  <2>2. Times(inbox', n) = Times(inbox, n) + One(m = n) /\ Times(inbox, n) \in Nat
    BY TimesAppend, TimesTyped DEF TypeOK
  <2>3. copies'[n] = copies[n] + One(m = n) /\ copies[n] \in Nat
    BY DEF TypeOK, One
  <2>4. surplus'[n][k] = surplus[n][k] /\ (One(msg = n /\ MayCome(k)))' = One(msg = n /\ MayCome(k))
    BY DEF MayCome
  <2>5. surplus[n][k] \in Int /\ \A yes : One(yes) \in Int
    BY CountedTyped DEF One
  <2> QED
    BY <2>1, <2>2, <2>3, <2>4, <2>5
<1>6. FileOnce'
  <2> HIDE DEF IInv, Deliver
  <2> QED
    BY <1>2, <1>5, CountedOnce, PTL
<1> QED
  BY <1>2, <1>3, <1>4, <1>5, <1>6

LEMMA ForgetIInv == ASSUME IInv, NEW c \in Convs, Forget(c) PROVE IInv'
<1> USE DEF IInv, Forget, outside, handling, history
<1>1. TypeOK'
  BY DEF TypeOK
<1>2. (ContextKept /\ NoteTruthful /\ FileOnce /\ AckAfterReply /\ Recall /\ Promises /\ Replying)'
  BY DEF ContextKept, NoteTruthful, FileOnce, AckAfterReply, Recall, Promises, Replying
<1>3. Counted'
  BY CountedStays DEF MayCome
<1> QED
  BY <1>1, <1>2, <1>3

\* A restart empties the sessions and the queue; every answer before it counts for
\* nothing, and what waited or was in hand brings no file any more.
LEMMA CrashIInv == ASSUME IInv, Crash PROVE IInv'
<1> USE BridgeAssumption DEF IInv, Crash, remote, history
<1>1. TypeOK'
  BY DEF TypeOK, NoSession, NoAnswer
<1>2. Recall'
  BY DEF Recall, TypeOK
<1>3. Promises'
  BY DEF Promises, Sending, NoAnswer
<1>4. (ContextKept /\ NoteTruthful /\ FileOnce /\ AckAfterReply /\ Replying)'
  BY DEF ContextKept, NoteTruthful, FileOnce, AckAfterReply, Replying
<1>5. Counted'
  <2> SUFFICES ASSUME NEW m \in Messages, NEW k \in Kinds
               PROVE  (surplus[m][k] + Times(inbox, m) + One(msg = m /\ MayCome(k)) <= copies[m])'
    BY DEF Counted
  <2>1. surplus[m][k] <= copies[m]
    BY DEF FileOnce
  <2>2. Times(inbox', m) = 0 /\ (One(msg = m /\ MayCome(k)))' = 0
    BY TimesEmpty DEF One
  <2> QED
    BY <2>1, <2>2, CountedTyped
<1> QED
  BY <1>1, <1>2, <1>3, <1>4, <1>5

--------------------------------------------------------------------------------
(* process()                                                                  *)

\* What leaves the queue is in hand.
LEMMA ReceiveCounted == ASSUME IInv, Receive PROVE Counted'
<1> USE DEF IInv
<1> SUFFICES ASSUME NEW m \in Messages, NEW k \in Kinds
             PROVE  (surplus[m][k] + Times(inbox, m) + One(msg = m /\ MayCome(k)) <= copies[m])'
  BY DEF Counted
<1>1. surplus[m][k] + Times(inbox, m) + One(msg = m /\ MayCome(k)) <= copies[m]
  BY DEF Counted
<1>2. inbox \in Seq(Messages) /\ inbox # <<>> /\ inbox' = Tail(inbox) /\ msg' = Head(inbox)
      /\ UNCHANGED <<surplus, copies>>
  BY DEF Receive, TypeOK, history
<1>3. Times(inbox', m) + One(msg' = m) <= Times(inbox, m) /\ Times(inbox', m) \in Nat
  <2>1. Tail(inbox) \in Seq(Messages)
    BY <1>2
  <2>2. Times(Tail(inbox), m) + One(Head(inbox) = m) <= Times(inbox, m)
    BY <1>2, TimesTail
  <2>3. Times(Tail(inbox), m) \in Nat
    BY <2>1, TimesTyped
  <2> QED
    BY <1>2, <2>2, <2>3
<1>4. (One(msg = m /\ MayCome(k)))' <= One(msg' = m)
  BY DEF One
<1>5. surplus[m][k] \in Int /\ copies[m] \in Nat /\ Times(inbox, m) \in Nat
  BY CountedTyped
<1>6. \A yes : One(yes) \in {0, 1}
  BY DEF One
<1>7. surplus'[m][k] = surplus[m][k] /\ copies'[m] = copies[m]
  BY <1>2
<1> QED
  BY <1>1, <1>3, <1>4, <1>5, <1>6, <1>7

\* A record that is not young enough is too old.
LEMMA ReceiveIInv == ASSUME IInv, Receive PROVE IInv'
<1> USE BridgeAssumption DEF IInv, Receive, remote, history
<1> DEFINE m == Head(inbox)
           key == SessionKey(m)
<1>1. m \in Messages /\ inbox' \in Seq(Messages) /\ msg' = m
  BY DEF TypeOK
<1>2. key \in Keys
  BY <1>1, KeyOfMessage
<1> HIDE DEF m, key
<1>3. CASE ~m.text
  <2> USE <1>3 DEF m
  <2>1. answer' = Text("hint") /\ pc' = "reply" /\ UNCHANGED <<sessions, conv, askedAt>>
    BY <1>3
  <2>2. answer' \in Replies /\ answer'.marks = {} /\ answer'.promised = {} /\ answer'.notes = {}
    BY <2>1 DEF Text, NoAnswer, Replies
  <2>3. TypeOK'
    <3>1. TypeOK /\ UNCHANGED <<now, crashes, copies, unacked, kind, taken, dify, gone, lastGood,
                               replied, surplus>>
      OBVIOUS
    <3> HIDE DEF IInv, Receive
    <3> QED
      BY <1>1, <2>1, <2>2, <3>1 DEF TypeOK, Replies
  <2>4. (ContextKept /\ NoteTruthful /\ FileOnce /\ AckAfterReply /\ Recall /\ Promises /\ Replying)'
    BY <2>1, <2>2 DEF ContextKept, NoteTruthful, FileOnce, AckAfterReply, Recall, Promises,
       Replying, Sending
  <2> QED
    BY <2>3, <2>4, ReceiveCounted
<1>4. CASE m.text
  <2>1. /\ conv' = IF Fresh(key) THEN sessions[key].conv ELSE NoConv
        /\ sessions' = IF Fresh(key) THEN sessions ELSE [sessions EXCEPT ![key] = NoSession]
        /\ askedAt' = now
        /\ pc' = "ask"
        /\ pc = "idle"
        /\ UNCHANGED <<answer, now, crashes, copies, unacked, kind, taken, dify, gone,
                       lastGood, replied, surplus>>
    BY <1>4 DEF m, key
  <2> HIDE <1>4 DEF Receive
  <2>2. TypeOK'
    <3>1. /\ sessions' \in [Keys -> [conv : Convs \cup {NoConv}, at : 0..MaxTime]]
          /\ conv' \in Convs \cup {NoConv}
      BY <1>2, <2>1 DEF TypeOK, NoSession
    <3> QED
      BY <1>1, <2>1, <3>1 DEF TypeOK
  <2>3. Recall'
    <3>1. CASE Fresh(key)
      BY <2>1, <3>1 DEF Recall
    <3>2. CASE ~Fresh(key)
      <4>1. ~(sessions[key].conv # NoConv /\ now - sessions[key].at < Ttl)
        BY <3>2 DEF Fresh
      <4>2. sessions' = [sessions EXCEPT ![key] = NoSession]
        BY <2>1, <3>2
      <4>3. lastGood[key].at \in Nat /\ now \in Nat
        BY <1>2 DEF TypeOK
      <4>4. Ttl \in Nat /\ DOMAIN sessions = Keys
        BY <1>2, BridgeAssumption DEF BridgeAssumption, TypeOK
      <4>5. ASSUME NEW k \in Keys, k # key PROVE sessions'[k] = sessions[k]
        BY <4>2, <4>4, <4>5
      <4>6. sessions'[key] = NoSession
        BY <1>2, <4>2, <4>4
      <4>7. ASSUME lastGood[key].conv # NoConv, lastGood[key].crash = crashes
            PROVE  now - lastGood[key].at >= Ttl
        <5>1. \/ sessions[key] = [conv |-> lastGood[key].conv, at |-> lastGood[key].at]
              \/ sessions[key] = NoSession /\ now - lastGood[key].at >= Ttl
          BY <1>2, <4>7 DEF Recall
        <5>2. sessions[key].conv = lastGood[key].conv /\ sessions[key].at = lastGood[key].at
                => ~(now - lastGood[key].at < Ttl)
          BY <4>1, <4>7
        <5> QED
          BY <4>3, <4>4, <5>1, <5>2
      <4> QED
        BY <2>1, <4>5, <4>6, <4>7 DEF Recall
    <3> QED
      BY <3>1, <3>2
  <2>4. ContextKept'
    <3>1. SessionKey(msg') = key
      BY <1>1 DEF key
    <3> QED
      BY <1>2, <2>1, <3>1 DEF ContextKept, Recall, Fresh, TypeOK, NoSession
  <2>5. (NoteTruthful /\ FileOnce /\ AckAfterReply /\ Promises /\ Replying)'
    BY <2>1 DEF NoteTruthful, FileOnce, AckAfterReply, Promises, Replying, Sending
  <2> QED
    BY <2>2, <2>3, <2>4, <2>5, ReceiveCounted
<1> QED
  BY <1>3, <1>4

LEMMA ServesTyped ==
  ASSUME TypeOK, NEW c \in Convs, pc = "ask", Serves(c)
  PROVE  /\ dify' \in [Convs -> Messages \cup {None}]
         /\ \A d \in Convs : dify[d] # None => dify'[d] = dify[d]
         /\ \A d \in Convs : dify'[d] # None => dify[d] # None \/ d = c
<1>1. msg \in Messages
  BY DEF TypeOK
<1>2. CASE conv = NoConv
  <2>1. dify[c] = None /\ dify' = [dify EXCEPT ![c] = msg]
    BY <1>2 DEF Serves
  <2> QED
    BY <1>1, <2>1 DEF TypeOK
<1>3. CASE conv # NoConv
  BY <1>3 DEF Serves, TypeOK
<1> QED
  BY <1>2, <1>3

\* Every answer is new: nothing of it is accepted or counted as failed.
LEMMA AskAnsweredIInv == ASSUME IInv, AskAnswered PROVE IInv'
<1> USE BridgeAssumption DEF IInv, AskAnswered, outside
<1>1. PICK c \in Convs, a \in Answers :
        /\ Serves(c)
        /\ sessions' = [sessions EXCEPT ![SessionKey(msg)] = [conv |-> c, at |-> now]]
        /\ lastGood' = [lastGood EXCEPT
             ![SessionKey(msg)] = [conv |-> c, at |-> now, crash |-> crashes]]
        /\ answer' = [is |-> "answer", long |-> a.long, marks |-> a.files,
                      promised |-> a.files, notes |-> {}]
  OBVIOUS
<1>2. msg \in Messages /\ SessionKey(msg) \in Keys
  BY KeyOfMessage DEF TypeOK
<1>3. answer' \in Replies
  <2>1. a \in [files : SUBSET (Kinds \X (Nat \ {0})), long : BOOLEAN]
    OBVIOUS
  <2>2. a.files \in SUBSET (Kinds \X Nat) /\ a.long \in BOOLEAN
    BY <2>1
  <2> QED
    BY <1>1, <2>2 DEF Replies
<1>4. TypeOK'
  <2>1. dify' \in [Convs -> Messages \cup {None}] /\ gone \subseteq {d \in Convs : dify'[d] # None}
    BY <1>1, ServesTyped DEF TypeOK
  <2> QED
    BY <1>1, <1>2, <1>3, <2>1 DEF TypeOK, Replies
<1>5. Recall'
  BY <1>1, <1>2 DEF Recall, TypeOK
<1>6. Promises'
  BY <1>1 DEF Promises, Sending
<1>7. (ContextKept /\ NoteTruthful /\ FileOnce /\ AckAfterReply /\ Replying)'
  BY DEF ContextKept, NoteTruthful, FileOnce, AckAfterReply, Replying
<1>8. Counted'
  BY CountedStays DEF MayCome
<1> QED
  BY <1>4, <1>5, <1>6, <1>7, <1>8

LEMMA AskFailedIInv == ASSUME IInv, AskFailed PROVE IInv'
<1> USE DEF IInv, AskFailed, outside, history
<1>1. dify' \in [Convs -> Messages \cup {None}] /\ gone \subseteq {d \in Convs : dify'[d] # None}
  <2>1. CASE dify' = dify
    BY <2>1 DEF TypeOK
  <2>2. CASE \E c \in Convs : Serves(c)
    BY <2>2, ServesTyped DEF TypeOK
  <2> QED
    BY <2>1, <2>2
<1>2. TypeOK'
  BY <1>1 DEF TypeOK, Text, NoAnswer
<1>3. (ContextKept /\ NoteTruthful /\ FileOnce /\ AckAfterReply /\ Recall /\ Promises /\ Replying)'
  BY DEF ContextKept, NoteTruthful, FileOnce, AckAfterReply, Recall, Promises, Replying,
     Sending, Text, NoAnswer
<1>4. Counted'
  BY CountedStays DEF MayCome, Sending
<1> QED
  BY <1>2, <1>3, <1>4

\* The marks of one kind leave the text, and one file of that kind is in hand.
LEMMA NextFileIInv == ASSUME IInv, NextFile PROVE IInv'
<1> USE DEF IInv, NextFile, outside, remote, history
<1>1. PICK k \in Kinds : /\ kind' = k /\ \E f \in answer.marks : f[1] = k
                         /\ answer' = [answer EXCEPT !.marks = {f \in @ : f[1] # k}]
  <2>1. answer.marks \subseteq Kinds \X Nat
    BY DEF TypeOK
  <2> QED
    BY <2>1 DEF Kinds
<1>2. answer \in Replies
  BY DEF TypeOK, Replies
<1>3. answer' \in Replies
  <2> HIDE DEF NextFile, IInv
  <2> QED
    BY <1>1, <1>2 DEF Replies
<1>4. TypeOK'
  BY <1>1, <1>3 DEF TypeOK, Replies
<1>5. /\ answer'.notes = answer.notes /\ answer'.promised = answer.promised
      /\ answer'.marks = {f \in answer.marks : f[1] # k}
      /\ taken' = taken /\ pc = "files" /\ pc' = "download"
  BY <1>1, <1>2 DEF Replies
<1>6. Promises'
  <2> HIDE DEF NextFile
  <2> QED
    BY <1>1, <1>5 DEF Promises, Sending
<1>7. (ContextKept /\ NoteTruthful /\ FileOnce /\ AckAfterReply /\ Recall /\ Replying)'
  BY DEF ContextKept, NoteTruthful, FileOnce, AckAfterReply, Recall, Replying
<1>8. Counted'
  <2>1. \A l \in Kinds : MayCome(l)' => MayCome(l)
    <3> HIDE DEF NextFile, IInv
    <3> QED
      BY <1>1, <1>5 DEF MayCome, Sending
  <2> QED
    BY <2>1, CountedStays
<1> QED
  BY <1>4, <1>6, <1>7, <1>8

\* A request of a delivery.  One that leaves the file in hand can have put it into the
\* chat only if the webhook denied it; the others are its last.
LEMMA FileStepIInv ==
  ASSUME IInv, NEW from \in Sending, NEW to \in Sending \cup {"files"},
         NEW there \in BOOLEAN, NEW heard \in {"open", "taken", "refused", "failed"},
         FileStep(from, there, heard, to),
         to = "files" => heard \in {"taken", "failed"},
         to \in Sending => heard = "refused" \/ (heard = "open" /\ ~there)
  PROVE  IInv'
<1> USE DEF IInv, FileStep, outside, remote
<1>1. /\ pc \in Sending /\ kind \in Kinds /\ kind \notin taken \cup answer.notes
      /\ \A f \in answer.marks : f[1] # kind
      /\ msg \in Messages
  BY DEF Promises, TypeOK, Sending
<1>2. answer \in Replies /\ taken \subseteq Kinds
  BY DEF TypeOK, Replies
<1>3. answer' \in Replies /\ taken' \subseteq Kinds
  <2> HIDE DEF IInv
  <2> QED
    BY <1>1, <1>2 DEF Replies
<1>4. surplus' \in [Messages -> [Kinds -> Int]]
  <2>1. surplus \in [Messages -> [Kinds -> Int]]
    BY DEF TypeOK
  <2>2. One(there) \in Int /\ One(heard = "refused") \in Int
    BY DEF One
  <2> QED
    BY <1>1, <2>1, <2>2
<1>5. TypeOK'
  <2>1. pc' \in Sending \cup {"files"}
    OBVIOUS
  <2> QED
    BY <1>3, <1>4, <2>1 DEF TypeOK, Sending, Replies
<1>6. /\ answer'.marks = answer.marks /\ answer'.promised = answer.promised
      /\ answer'.notes = IF heard = "failed" THEN answer.notes \cup {kind} ELSE answer.notes
      /\ taken' = IF heard = "taken" THEN taken \cup {kind} ELSE taken
      /\ kind' = kind /\ pc' = to
  BY <1>2 DEF Replies
<1>7. Promises'
  <2>1. Promises
    OBVIOUS
  <2>2. "files" \notin Sending /\ "idle" \notin Sending /\ "ask" \notin Sending
    BY DEF Sending
  <2> HIDE DEF IInv, FileStep
  <2> QED
    BY <1>1, <1>6, <2>1, <2>2 DEF Promises
<1>8. (ContextKept /\ NoteTruthful /\ AckAfterReply /\ Recall /\ Replying)'
  BY DEF ContextKept, NoteTruthful, AckAfterReply, Recall, Replying, Sending
<1>9. Counted'
  <2> SUFFICES ASSUME NEW m \in Messages, NEW k \in Kinds
               PROVE  (surplus[m][k] + Times(inbox, m) + One(msg = m /\ MayCome(k)) <= copies[m])'
    BY DEF Counted
  <2>1. surplus[m][k] + Times(inbox, m) + One(msg = m /\ MayCome(k)) <= copies[m]
    BY DEF Counted
  <2>2. surplus[m][k] \in Int /\ copies[m] \in Nat /\ Times(inbox, m) \in Nat
    BY CountedTyped
  <2>3. UNCHANGED <<inbox, copies, msg>>
    BY DEF handling
  <2>4. MayCome(k)' => MayCome(k)
    <3>1. pc' = "files" \/ pc' \in Sending
      BY <1>6
    <3>2. "ask" \notin Sending
      BY DEF Sending
    <3> HIDE DEF IInv, FileStep
    <3> QED
      BY <1>1, <1>6, <3>1, <3>2 DEF MayCome
  <2>5. surplus \in [Messages -> [Kinds -> Int]]
    BY DEF TypeOK
  <2>6. CASE m = msg /\ k = kind
    <3>1. surplus'[m][k] = surplus[m][k] + One(there) - One(heard = "refused")
      BY <2>5, <2>6
    <3>2. msg = m /\ MayCome(k)
      BY <1>1, <2>6 DEF MayCome
    <3>3. to = "files" => ~MayCome(k)'
      <4>1. "files" \notin Sending
        BY DEF Sending
      <4> QED
        BY <1>1, <1>6, <2>6, <4>1 DEF MayCome
    <3>4. to \in Sending \/ to = "files"
      OBVIOUS
    <3> HIDE DEF IInv, FileStep
    <3> QED
      BY <2>1, <2>2, <2>3, <3>1, <3>2, <3>3, <3>4 DEF One
  <2>7. CASE ~(m = msg /\ k = kind)
    <3>1. surplus'[m][k] = surplus[m][k]
      BY <1>1, <2>5, <2>7
    <3> HIDE DEF IInv, FileStep
    <3> QED
      BY <2>1, <2>2, <2>3, <2>4, <3>1 DEF One
  <2> QED
    BY <2>6, <2>7
<1>10. FileOnce'
  <2> HIDE DEF IInv, FileStep
  <2> QED
    BY <1>5, <1>9, CountedOnce, PTL
<1> QED
  BY <1>5, <1>7, <1>8, <1>9, <1>10

LEMMA TrimIInv == ASSUME IInv, Trim PROVE IInv'
<1> USE DEF IInv, Trim, outside, remote, history
<1>1. TypeOK'
  BY DEF TypeOK
<1>2. /\ answer'.promised = answer.promised /\ answer'.long = answer.long
      /\ answer'.notes = IF answer.long THEN {} ELSE answer.notes
      /\ taken' = taken
  BY DEF TypeOK
<1>3. NoteTruthful'
  <2>1. Promises /\ pc = "files" /\ answer.marks = {} /\ "files" \notin Sending
    BY DEF Sending
  <2> HIDE DEF Trim
  <2> QED
    BY <1>2, <2>1 DEF NoteTruthful, Promises
<1>4. Promises'
  BY <1>2 DEF Promises, Sending
<1>5. (ContextKept /\ FileOnce /\ AckAfterReply /\ Recall /\ Replying)'
  BY DEF ContextKept, FileOnce, AckAfterReply, Recall, Replying
<1>6. Counted'
  BY CountedStays DEF MayCome, Sending
<1> QED
  BY <1>1, <1>3, <1>4, <1>5, <1>6

LEMMA ReplyIInv == ASSUME IInv, Reply PROVE IInv'
<1> USE DEF IInv, Reply, outside, remote, handling
<1>1. TypeOK'
  BY DEF TypeOK
<1>2. (ContextKept /\ NoteTruthful /\ FileOnce /\ AckAfterReply /\ Recall /\ Promises /\ Replying)'
  BY DEF ContextKept, NoteTruthful, FileOnce, AckAfterReply, Recall, Promises, Replying, Sending
<1>3. Counted'
  BY CountedStays DEF MayCome, Sending
<1> QED
  BY <1>1, <1>2, <1>3

LEMMA AckIInv == ASSUME IInv, Ack PROVE IInv'
<1> USE BridgeAssumption DEF IInv, Ack, remote, history
<1>1. TypeOK'
  BY DEF TypeOK, NoAnswer
<1>2. AckAfterReply'
  BY DEF AckAfterReply, Replying
<1>3. Promises'
  BY DEF Promises, Sending, NoAnswer
<1>4. (ContextKept /\ NoteTruthful /\ FileOnce /\ Recall /\ Replying)'
  BY DEF ContextKept, NoteTruthful, FileOnce, Recall, Replying
<1>5. Counted'
  BY CountedStays DEF MayCome, Sending
<1> QED
  BY <1>1, <1>2, <1>3, <1>4, <1>5

LEMMA ProcessIInv == ASSUME IInv, Process PROVE IInv'
<1>1. CASE Download \/ Upload
  BY <1>1, FileStepIInv DEF Download, Upload, Sending
<1>2. CASE Webhook
  BY <1>2, FileStepIInv DEF Webhook, Sending
<1>3. CASE Api
  BY <1>3, FileStepIInv DEF Api, Sending
<1> QED
  BY <1>1, <1>2, <1>3, ReceiveIInv, AskAnsweredIInv, AskFailedIInv, NextFileIInv, TrimIInv,
     ReplyIInv, AckIInv DEF Process

LEMMA NextIInv == IInv /\ [Next]_vars => IInv'
<1> SUFFICES ASSUME IInv, [Next]_vars PROVE IInv'
  OBVIOUS
<1>1. CASE UNCHANGED vars
  <2> USE <1>1 DEF vars, outside, handling, remote, history, IInv
  <2>1. Counted'
    BY CountedStays DEF MayCome
  <2>2. (TypeOK /\ Recall /\ Promises /\ Replying)'
    BY DEF TypeOK, Recall, Promises, Replying
  <2>3. (ContextKept /\ NoteTruthful /\ FileOnce /\ AckAfterReply)'
    BY DEF ContextKept, NoteTruthful, FileOnce, AckAfterReply
  <2> QED
    BY <2>1, <2>2, <2>3
<1> QED
  BY <1>1, ProcessIInv, TickIInv, DeliverIInv, ForgetIInv, CrashIInv DEF Next

--------------------------------------------------------------------------------
\* Every reachable state satisfies the invariant.
THEOREM BridgeSafety == Spec => []IInv
BY InitIInv, NextIInv, PTL DEF Spec

\* Every variable of the bridge keeps its type, no mark is left in a reply, and
\* Dify's conversations belong to people who have written.
THEOREM BridgeTyped == Spec => []TypeOK
<1>1. IInv => TypeOK
  BY DEF IInv
<1> QED
  BY <1>1, BridgeSafety, PTL

\* A question goes on with the conversation of its sender's last answer exactly when
\* that is younger than the lifetime, whatever failed, was redelivered or was asked
\* by others in between.
THEOREM ContextIsKept == Spec => []ContextKept
<1>1. IInv => ContextKept
  BY DEF IInv
<1> QED
  BY <1>1, BridgeSafety, PTL

\* Of every kind of file the answer promised DingTalk has accepted the first, or the
\* reply owns up to the kind or was cut; and it never denies a kind it was accepted of.
THEOREM NotesAreTruthful == Spec => []NoteTruthful
<1>1. IInv => NoteTruthful
  BY DEF IInv
<1> QED
  BY <1>1, BridgeSafety, PTL

\* Over all deliveries of a message, lost handlings and restarts, a kind of file
\* reaches the chat at most once for each delivery and each refusal of the webhook.
THEOREM FilesArriveOnce == Spec => []FileOnce
<1>1. IInv => FileOnce
  BY DEF IInv
<1> QED
  BY <1>1, BridgeSafety, PTL

\* No message is acknowledged before a reply to it was attempted.
THEOREM AcksFollowReplies == Spec => []AckAfterReply
<1>1. IInv => AckAfterReply
  BY DEF IInv
<1> QED
  BY <1>1, BridgeSafety, PTL

--------------------------------------------------------------------------------
(* Whose conversation it is.  The session key takes the nickname of a sender  *)
(* without a staff id, so that one key may stand for several people; Dify     *)
(* serves a conversation only to the user who began it, and who has a staff   *)
(* id is a user of his own.                                                   *)

\* A conversation remembered under a key, or continued for one, was begun under it.
Begun(c, key) == c \in Convs /\ dify[c] \in Messages /\ SessionKey(dify[c]) = key
Owned ==
  /\ \A k \in Keys : sessions[k].conv # NoConv => Begun(sessions[k].conv, k)
  /\ pc = "ask" /\ conv # NoConv => Begun(conv, SessionKey(msg))

OwnInv == IInv /\ Owned /\ OwnConversation

\* One session key and one Dify user: one person, or two whom nothing tells apart.
LEMMA SharedKey ==
  ASSUME NEW m \in Messages, NEW n \in Messages,
         SessionKey(m) = SessionKey(n), User(m) = User(n)
  PROVE  SameSender(m, n)
<1>1. m.chat = n.chat
  BY DEF SessionKey
<1>2. CASE m.staff # None
  BY <1>1, <1>2, StaffIds DEF SameSender, User
<1>3. CASE m.staff = None
  <2>1. n.staff = None
    BY <1>3, StaffIds DEF User
  <2> QED
    BY <1>1, <1>3, <2>1 DEF SameSender, SessionKey
<1> QED
  BY <1>2, <1>3

\* Dify's conversations do not change hands.
LEMMA BegunStays ==
  ASSUME BridgeAssumption, \A c \in Convs : dify[c] # None => dify'[c] = dify[c],
         NEW c, NEW key, Begun(c, key)
  PROVE  Begun(c, key)'
BY DEF BridgeAssumption, Begun

LEMMA AnsweredOwn == ASSUME OwnInv, AskAnswered PROVE (Owned /\ OwnConversation)'
<1> USE DEF OwnInv, IInv
<1>1. PICK c \in Convs :
        /\ Serves(c)
        /\ sessions' = [sessions EXCEPT ![SessionKey(msg)] = [conv |-> c, at |-> now]]
  BY DEF AskAnswered
<1>2. pc = "ask" /\ pc' = "files" /\ msg' = msg /\ msg \in Messages /\ SessionKey(msg) \in Keys
  BY KeyOfMessage DEF AskAnswered, TypeOK
<1>3. \A d \in Convs : dify[d] # None => dify'[d] = dify[d]
  BY <1>1, <1>2, ServesTyped
<1>4. Begun(c, SessionKey(msg))' /\ SameSender(dify'[c], msg)
  <2>1. CASE conv = NoConv
    <3>1. dify'[c] = msg
      BY <1>1, <2>1 DEF Serves, TypeOK
    <3> QED
      BY <1>2, <3>1 DEF Begun, SameSender
  <2>2. CASE conv # NoConv
    <3>1. c = conv /\ dify' = dify /\ User(dify[c]) = User(msg)
      BY <1>1, <2>2 DEF Serves
    <3>2. Begun(c, SessionKey(msg))
      BY <1>2, <2>2, <3>1 DEF Owned
    <3> QED
      BY <1>2, <3>1, <3>2, SharedKey DEF Begun
  <2> QED
    BY <2>1, <2>2
<1>5. ASSUME NEW k \in Keys, sessions'[k].conv # NoConv
      PROVE  Begun(sessions[k].conv, k)'
  <2>1. CASE k = SessionKey(msg)
    BY <1>1, <1>2, <1>4, <2>1 DEF TypeOK, Begun
  <2>2. CASE k # SessionKey(msg)
    <3>1. sessions'[k] = sessions[k]
      BY <1>1, <2>2 DEF TypeOK
    <3>2. Begun(sessions[k].conv, k)
      BY <1>5, <3>1 DEF Owned
    <3> QED
      BY <1>3, <3>1, <3>2, BridgeAssumption DEF BridgeAssumption, Begun
  <2> QED
    BY <2>1, <2>2
<1>6. sessions'[SessionKey(msg)].conv = c
  BY <1>1, <1>2 DEF TypeOK
<1> QED
  BY <1>2, <1>4, <1>5, <1>6 DEF Owned, OwnConversation

LEMMA NextOwn == OwnInv /\ [Next]_vars => OwnInv'
<1> SUFFICES ASSUME OwnInv, [Next]_vars PROVE OwnInv'
  OBVIOUS
<1> USE DEF OwnInv, IInv
<1>1. IInv'
  BY NextIInv
<1>2. CASE AskAnswered
  BY <1>1, <1>2, AnsweredOwn
<1>3. CASE Receive
  <2> DEFINE key == SessionKey(Head(inbox))
  <2>1. Head(inbox) \in Messages /\ key \in Keys /\ msg' = Head(inbox)
    BY <1>3, KeyOfMessage DEF Receive, TypeOK
  <2>2. dify' = dify /\ sessions \in [Keys -> [conv : Convs \cup {NoConv}, at : 0..MaxTime]]
    BY <1>3 DEF Receive, remote, TypeOK
  <2>3. answer'.is # "answer"
    BY <1>3 DEF Receive, Promises, NoAnswer, Text
  <2>4. pc' = "ask" => conv' = IF Fresh(key) THEN sessions[key].conv ELSE NoConv
    BY <1>3 DEF Receive
  <2>5. sessions' = sessions \/ sessions' = [sessions EXCEPT ![key] = NoSession]
    BY <1>3 DEF Receive
  <2> HIDE DEF key
  <2>6. \A k \in Keys : sessions'[k] = sessions[k] \/ sessions'[k].conv = NoConv
    BY <2>1, <2>2, <2>5 DEF NoSession
  <2>7. Owned'
    BY <2>1, <2>2, <2>4, <2>6 DEF Owned, Begun, key
  <2> QED
    BY <1>1, <2>3, <2>7 DEF OwnConversation
<1>4. CASE AskFailed
  <2>1. \A d \in Convs : dify[d] # None => dify'[d] = dify[d]
    BY <1>4, ServesTyped DEF AskFailed
  <2>2. Owned'
    BY <1>4, <2>1, BridgeAssumption DEF BridgeAssumption, AskFailed, Owned, Begun
  <2>3. OwnConversation'
    BY <1>4 DEF AskFailed, OwnConversation, Text, NoAnswer
  <2> QED
    BY <1>1, <2>2, <2>3
<1>5. CASE Crash
  BY <1>1, <1>5 DEF Crash, Owned, OwnConversation, NoSession, NoAnswer
<1>6. ASSUME UNCHANGED <<sessions, dify>>, pc' = "ask" => pc = "ask" /\ UNCHANGED <<conv, msg>>,
             answer'.is = "answer" => answer.is = "answer" /\ msg' = msg
      PROVE  OwnInv'
  BY <1>1, <1>6 DEF Owned, Begun, OwnConversation
<1>7. CASE Ack
  BY <1>6, <1>7 DEF Ack, remote, NoAnswer
<1>8. CASE Tick \/ (\E m \in Messages : Deliver(m)) \/ (\E c \in Convs : Forget(c))
  BY <1>6, <1>8 DEF Tick, Deliver, Forget, handling, remote
<1>9. CASE NextFile \/ Trim \/ Reply
  <2>1. answer'.is = answer.is
    BY <1>9 DEF NextFile, Trim, Reply, handling, TypeOK
  <2> QED
    BY <1>6, <1>9, <2>1 DEF NextFile, Trim, Reply, handling, remote
<1>10. CASE Download \/ Upload \/ Webhook \/ Api
  <2>1. answer'.is = answer.is
    BY <1>10 DEF Download, Upload, Webhook, Api, FileStep, TypeOK
  <2> QED
    BY <1>6, <1>10, <2>1 DEF Download, Upload, Webhook, Api, FileStep, remote
<1>11. CASE UNCHANGED vars
  BY <1>6, <1>11 DEF vars, handling, remote
<1> QED
  BY <1>2, <1>3, <1>4, <1>5, <1>7, <1>8, <1>9, <1>10, <1>11 DEF Next, Process

\* An answer comes from a conversation that the person it goes to began in that chat,
\* but for people without a staff id who share a name.
THEOREM ConversationsAreOwn == Spec => []OwnConversation
<1>1. Init => OwnInv
  BY InitIInv DEF Init, OwnInv, Owned, OwnConversation, NoSession, NoAnswer
<1>2. OwnInv /\ [Next]_vars => OwnInv'
  BY NextOwn
<1>3. OwnInv => OwnConversation
  BY DEF OwnInv
<1> QED
  BY <1>1, <1>2, <1>3, PTL DEF Spec
================================================================================
