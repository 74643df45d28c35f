---------------------------- MODULE DingTalkBridge ----------------------------
(***************************************************************************)
(* dingtalk-bridge/bot.py: the Stream handler between DingTalk and Dify.   *)
(* process() never awaits, so one message is handled at a time on the      *)
(* event loop and the others wait in the order they came.  Between two of  *)
(* its requests the clock moves, DingTalk delivers and redelivers, Dify    *)
(* forgets conversations, and the bridge may be killed and started again.  *)
(* DingTalk, Dify and the gateway are external: each request has every     *)
(* outcome that bot.py tells apart.                                        *)
(***************************************************************************)
EXTENDS Integers, Sequences

CONSTANTS
  Messages,   \* what people send: records [id, who, chat, staff, nick, text]
  Answers,    \* what Dify answers: records [files, long]
  Convs,      \* conversation identifiers Dify can hand out (a bound)
  NoConv,     \* "", no conversation
  None,       \* a field DingTalk left out
  Ttl,        \* CONVERSATION_TTL_SEC
  MaxTime,    \* bound on the clock
  MaxCopies,  \* bounds on the deliveries of each message
  MaxCrashes  \* bound on restarts of the bridge

Kinds == {"excel", "chart"}

ASSUME BridgeAssumption ==
  /\ NoConv \notin Convs
  /\ None \notin Messages /\ None # "user"
  /\ Ttl \in Nat
  /\ MaxTime \in Nat
  /\ MaxCopies \in [Messages -> Nat]
  /\ MaxCrashes \in Nat
  /\ \A m \in Messages : m.text \in BOOLEAN
  /\ Answers \subseteq [files : SUBSET (Kinds \X (Nat \ {0})), long : BOOLEAN]

\* A mark of an answer is its kind and its place among those of its kind.
ASSUME MarksAssumption ==
  \A a \in Answers : \A f \in a.files : <<f[1], 1>> \in a.files

\* `who` really wrote a message: nothing in the code knows that.  DingTalk gives
\* a staff id to one person only, and none is the word the bridge uses for nobody.
ASSUME StaffIds ==
  \A m, n \in Messages :
    m.staff # None => /\ m.staff # "user"
                      /\ m.staff = n.staff => m.who = n.who

\* What a sender without a staff id is called.
Name(m) == IF m.nick # None THEN m.nick ELSE "unknown"

\* Mutant: one session for a whole chat.
BugSessionKey(m) == <<m.chat, "everyone">>

\* _session_key(): the chat and the best name DingTalk gave for the sender.
SessionKey(m) == <<m.chat, IF m.staff # None THEN m.staff ELSE Name(m)>>

\* The `user` under which Dify keeps the conversation.
User(m) == IF m.staff # None THEN m.staff ELSE "user"

Keys == {SessionKey(m) : m \in Messages}

VARIABLES
  now,       \* time.time()
  crashes,   \* restarts of the bridge so far
  copies,    \* deliveries of each message so far
  unacked,   \* messages DingTalk holds no acknowledgement for
  inbox,     \* deliveries waiting on the event loop
  sessions,  \* _sessions: key -> conversation and time of its last answer
  pc,        \* where process() is
  msg,       \* the message it handles
  conv,      \* the conversation it continues
  askedAt,   \* when it looked the conversation up
  answer,    \* what it is going to reply
  kind,      \* which file it is sending
  taken,     \* kinds of which DingTalk has accepted a file of this answer
  dify,      \* Dify's conversations: the message that began each, if any
  gone,      \* conversations Dify has deleted
  lastGood,  \* history: last answer received under each key
  replied,   \* history: messages some handling of which reached its reply
  surplus    \* history: how many files of each kind reached the chat for a message,
             \* less those the webhook said it had refused

outside == <<copies, unacked, inbox>>
handling == <<msg, conv, askedAt, answer, kind, taken>>
remote == <<dify, gone>>
history == <<lastGood, replied, surplus>>
vars == <<now, crashes, outside, sessions, pc, handling, remote, history>>

\* `marks` are the [[DIFY_..]] marks still in the text, `promised` those it came
\* with, `notes` the "failed to send" remarks.
NoAnswer == [is |-> "none", long |-> FALSE, marks |-> {}, promised |-> {}, notes |-> {}]
Text(what) == [NoAnswer EXCEPT !.is = what]
NoSession == [conv |-> NoConv, at |-> 0]
Never == [conv |-> NoConv, at |-> 0, crash |-> 0]

Init ==
  /\ now = 0
  /\ crashes = 0
  /\ copies = [m \in Messages |-> 0]
  /\ unacked = {}
  /\ inbox = <<>>
  /\ sessions = [k \in Keys |-> NoSession]
  /\ pc = "idle"
  /\ msg = None
  /\ conv = NoConv
  /\ askedAt = 0
  /\ answer = NoAnswer
  /\ kind = None
  /\ taken = {}
  /\ dify = [c \in Convs |-> None]
  /\ gone = {}
  /\ lastGood = [k \in Keys |-> Never]
  /\ replied = {}
  /\ surplus = [m \in Messages |-> [k \in Kinds |-> 0]]

--------------------------------------------------------------------------------
(* The world around the bridge.                                               *)

Tick ==
  /\ now < MaxTime
  /\ now' = now + 1
  /\ UNCHANGED <<crashes, outside, sessions, pc, handling, remote, history>>

\* DingTalk delivers a message, and again as long as it has no acknowledgement:
\* nothing in the handler recognises a copy.
Deliver(m) ==
  /\ copies[m] = 0 \/ m \in unacked
  /\ copies[m] < MaxCopies[m]
  /\ copies' = [copies EXCEPT ![m] = @ + 1]
  /\ unacked' = unacked \cup {m}
  /\ inbox' = Append(inbox, m)
  /\ UNCHANGED <<now, crashes, sessions, pc, handling, remote, history>>

\* Dify loses a conversation (deleted in its console, or its data reset).
Forget(c) ==
  /\ dify[c] # None /\ c \notin gone
  /\ gone' = gone \cup {c}
  /\ UNCHANGED <<now, crashes, outside, sessions, pc, handling, dify, history>>

\* The container restarts: sessions and waiting deliveries were in memory only.
Crash ==
  /\ crashes < MaxCrashes
  /\ crashes' = crashes + 1
  /\ sessions' = [k \in Keys |-> NoSession]
  /\ inbox' = <<>>
  /\ pc' = "idle"
  /\ msg' = None
  /\ conv' = NoConv
  /\ askedAt' = 0
  /\ answer' = NoAnswer
  /\ kind' = None
  /\ taken' = {}
  /\ UNCHANGED <<now, copies, unacked, remote, history>>

--------------------------------------------------------------------------------
(* process()                                                                  *)

\* Mutant: the conversation is used for one instant too long.
BugFresh(key) == sessions[key].conv # NoConv /\ now - sessions[key].at <= Ttl

\* The record of _conversation_id() is young enough to continue.
Fresh(key) == sessions[key].conv # NoConv /\ now - sessions[key].at < Ttl

\* Mutant: a delivery without text is passed over.
BugReceive ==
  /\ pc = "idle" /\ inbox # <<>> /\ ~Head(inbox).text
  /\ inbox' = Tail(inbox)
  /\ UNCHANGED <<now, crashes, copies, unacked, sessions, pc, handling, remote, history>>

\* A delivery leaves the queue; one without text is answered with a hint, one
\* with text looks its conversation up and drops a record that is too old.
Receive ==
  /\ pc = "idle" /\ inbox # <<>>
  /\ inbox' = Tail(inbox)
  /\ LET m == Head(inbox)
         key == SessionKey(m)
     IN  /\ msg' = m
         /\ \/ /\ ~m.text
               /\ answer' = Text("hint")
               /\ pc' = "reply"
               /\ UNCHANGED <<sessions, conv, askedAt>>
            \/ /\ m.text
               /\ conv' = IF Fresh(key) THEN sessions[key].conv ELSE NoConv
               /\ sessions' = IF Fresh(key) THEN sessions
                                            ELSE [sessions EXCEPT ![key] = NoSession]
               /\ askedAt' = now
               /\ pc' = "ask"
               /\ UNCHANGED answer
  /\ UNCHANGED <<now, crashes, copies, unacked, kind, taken, remote, history>>

\* Dify serves conversation c to this user: a new one, or the one it was given.
Serves(c) ==
  IF conv = NoConv
  THEN /\ dify[c] = None
       /\ dify' = [dify EXCEPT ![c] = msg]
  ELSE /\ c = conv /\ c \notin gone /\ User(dify[c]) = User(msg)
       /\ dify' = dify

\* Dify answers: the conversation is remembered with the time of the answer.
AskAnswered ==
  /\ pc = "ask"
  /\ \E c \in Convs, a \in Answers :
       /\ Serves(c)
       /\ sessions' = [sessions EXCEPT ![SessionKey(msg)] = [conv |-> c, at |-> now]]
       /\ lastGood' = [lastGood EXCEPT
            ![SessionKey(msg)] = [conv |-> c, at |-> now, crash |-> crashes]]
       /\ answer' = [is |-> "answer", long |-> a.long, marks |-> a.files,
                     promised |-> a.files, notes |-> {}]
  /\ pc' = "files"
  /\ UNCHANGED <<now, crashes, outside, msg, conv, askedAt, kind, taken, gone,
                 replied, surplus>>

\* Mutant: a failed question counts as activity and keeps the record young.
BugAskFailed ==
  /\ pc = "ask"
  /\ answer' = Text("error")
  /\ pc' = "reply"
  /\ sessions' = IF conv = NoConv THEN sessions
                 ELSE [sessions EXCEPT ![SessionKey(msg)].at = now]
  /\ UNCHANGED <<now, crashes, outside, msg, conv, askedAt, kind, taken, remote,
                 history>>

\* Mutant: the user hears nothing of the failure.
BugAskSilent ==
  /\ pc = "ask"
  /\ answer' = Text("error")
  /\ pc' = "ack"
  /\ UNCHANGED <<now, crashes, outside, sessions, msg, conv, askedAt, kind, taken,
                 remote, history>>

\* An HTTP error, a timeout, a lost connection: Dify may have run the question
\* all the same, and then a new conversation exists that nobody remembers.
AskFailed ==
  /\ pc = "ask"
  /\ \/ dify' = dify
     \/ \E c \in Convs : Serves(c)
  /\ answer' = Text("error")
  /\ pc' = "reply"
  /\ UNCHANGED <<now, crashes, outside, sessions, msg, conv, askedAt, kind, taken,
                 gone, history>>

\* The Excel file first, then the chart.  The first mark of a kind is looked at,
\* and with it all marks of its kind are deleted from the text.
NextFile ==
  /\ pc = "files" /\ answer.marks # {}
  /\ LET next == IF \E f \in answer.marks : f[1] = "excel" THEN "excel" ELSE "chart"
     IN  /\ kind' = next
         /\ answer' = [answer EXCEPT !.marks = {f \in @ : f[1] # next}]
  /\ pc' = "download"
  /\ UNCHANGED <<now, crashes, outside, sessions, msg, conv, askedAt, taken, remote,
                 history>>

One(yes) == IF yes THEN 1 ELSE 0

\* A request of the file's delivery is over: whether the file is in the chat now,
\* what process() heard of it ("open": nothing yet that ends the delivery), and
\* where it goes on.
FileStep(from, there, heard, to) ==
  /\ pc = from
  /\ surplus' = [surplus EXCEPT ![msg][kind] = @ + One(there) - One(heard = "refused")]
  /\ taken' = IF heard = "taken" THEN taken \cup {kind} ELSE taken
  /\ answer' = IF heard = "failed" THEN [answer EXCEPT !.notes = @ \cup {kind}] ELSE answer
  /\ pc' = to
  /\ UNCHANGED <<now, crashes, outside, sessions, msg, conv, askedAt, kind, remote,
                 lastGood, replied>>

\* _download_export()
Download ==
  \/ FileStep("download", FALSE, "open", "upload")
  \/ FileStep("download", FALSE, "failed", "files")

\* get_access_token() and upload_media()
Upload ==
  \/ FileStep("upload", FALSE, "open", "webhook")
  \/ FileStep("upload", FALSE, "failed", "files")

\* Mutant: an exception of the webhook is treated like its refusal.
BugWebhook ==
  \E there \in BOOLEAN :
    \/ FileStep("webhook", there, "taken", "files")
    \/ FileStep("webhook", there, "open", "api")

\* The session webhook accepts the file; or it answers with another status or
\* an error code, and the message API is tried; or its answer is lost or no JSON,
\* and the exception ends the delivery.  None of them tells whether the file is
\* in the chat.
Webhook ==
  \E there \in BOOLEAN :
    \/ FileStep("webhook", there, "taken", "files")
    \/ FileStep("webhook", there, "refused", "api")
    \/ FileStep("webhook", there, "failed", "files")

\* Mutant: the response of the message API is not looked at.
BugApi == \E there \in BOOLEAN : FileStep("api", there, "open", "files")

\* The robot message API: a good status is all that is asked of its response.
Api ==
  \E there \in BOOLEAN :
    \/ FileStep("api", there, "taken", "files")
    \/ FileStep("api", there, "failed", "files")

\* Mutant: one file is enough, the other mark stays in the text.
BugTrim ==
  /\ pc = "files"
  /\ pc' = "reply"
  /\ UNCHANGED <<now, crashes, outside, sessions, handling, remote, history>>

\* Text past 18000 characters is cut off, remarks included.
Trim ==
  /\ pc = "files" /\ answer.marks = {}
  /\ answer' = IF answer.long THEN [answer EXCEPT !.notes = {}] ELSE answer
  /\ pc' = "reply"
  /\ UNCHANGED <<now, crashes, outside, sessions, msg, conv, askedAt, kind, taken,
                 remote, history>>

\* reply_text(): the library swallows its failures.
Reply ==
  /\ pc = "reply"
  /\ replied' = replied \cup {msg}
  /\ pc' = "ack"
  /\ UNCHANGED <<now, crashes, outside, sessions, handling, remote, lastGood, surplus>>

\* process() returns STATUS_OK whatever has happened; it may not get through, and
\* then DingTalk delivers the message again.
Ack ==
  /\ pc = "ack"
  /\ unacked' \in {unacked, unacked \ {msg}}
  /\ pc' = "idle"
  /\ msg' = None
  /\ conv' = NoConv
  /\ askedAt' = 0
  /\ answer' = NoAnswer
  /\ kind' = None
  /\ taken' = {}
  /\ UNCHANGED <<now, crashes, copies, inbox, sessions, remote, history>>

Process ==
  \/ Receive \/ AskAnswered \/ AskFailed \/ NextFile \/ Download \/ Upload
  \/ Webhook \/ Api \/ Trim \/ Reply \/ Ack

Next ==
  \/ Process
  \/ Tick
  \/ \E m \in Messages : Deliver(m)
  \/ \E c \in Convs : Forget(c)
  \/ Crash

Spec == Init /\ [][Next]_vars

\* Every request of process() has a timeout and the loop always takes the next
\* delivery, so the handler keeps moving; nothing is assumed of the others.
FairSpec == Spec /\ WF_vars(Process)

--------------------------------------------------------------------------------
\* Types, and the shape of a handling: there is a message while one runs, and no
\* mark is left in the text that is replied.
TypeOK ==
  /\ now \in 0..MaxTime
  /\ crashes \in 0..MaxCrashes
  /\ copies \in [Messages -> Nat] /\ \A m \in Messages : copies[m] <= MaxCopies[m]
  /\ unacked \subseteq Messages
  /\ inbox \in Seq(Messages)
  /\ sessions \in [Keys -> [conv : Convs \cup {NoConv}, at : 0..MaxTime]]
  /\ pc \in {"idle", "ask", "files", "download", "upload", "webhook", "api",
             "reply", "ack"}
  /\ (pc = "idle") = (msg = None)
  /\ pc \in {"reply", "ack"} => answer.marks = {}
  /\ msg \in Messages \cup {None}
  /\ conv \in Convs \cup {NoConv}
  /\ askedAt \in 0..MaxTime
  /\ answer \in [is : {"none", "hint", "error", "answer"}, long : BOOLEAN,
                 marks : SUBSET (Kinds \X Nat), promised : SUBSET (Kinds \X Nat),
                 notes : SUBSET Kinds]
  /\ kind \in Kinds \cup {None}
  /\ taken \subseteq Kinds
  /\ dify \in [Convs -> Messages \cup {None}]
  /\ gone \subseteq {c \in Convs : dify[c] # None}
  /\ lastGood \in [Keys -> [conv : Convs \cup {NoConv}, at : 0..MaxTime, crash : 0..MaxCrashes]]
  /\ replied \subseteq Messages
  /\ surplus \in [Messages -> [Kinds -> Int]]

\* A question continues the conversation of the last answer under its session key
\* when that answer is younger than the lifetime and the bridge has not restarted
\* since, and starts a new one otherwise: failed questions, questions under other
\* keys and redelivered copies in between change nothing.  So a conversation Dify
\* has lost fails a person for less than one lifetime.
ContextKept ==
  pc = "ask" =>
    LET last == lastGood[SessionKey(msg)]
    IN  conv = IF last.conv # NoConv /\ last.crash = crashes /\ askedAt - last.at < Ttl
               THEN last.conv ELSE NoConv

\* As far as the bridge and Dify can tell people apart: one person, or two who
\* both have no staff id and go by one name, in one chat.
SameSender(m, n) ==
  /\ m.chat = n.chat
  /\ m.who = n.who \/ (m.staff = None /\ n.staff = None /\ Name(m) = Name(n))

\* An answer comes from a conversation that the person it goes to began in this
\* chat; only people without a staff id share one, with those of their own name
\* (or, like themselves, of none).  Somebody whose nickname is a colleague's staff
\* id has that colleague's session, and still no part in the conversation.
OwnConversation ==
  answer.is = "answer" => SameSender(dify[sessions[SessionKey(msg)].conv], msg)

\* Of every kind of file that Dify's answer promised DingTalk has accepted the
\* first, or the reply says that the kind failed, or the reply was cut for its
\* length; and it says so of no kind of which one was accepted.  Accepted is not
\* arrived, and further files of a kind are neither sent nor mentioned.
NoteTruthful ==
  pc \in {"reply", "ack"} =>
    /\ \A f \in answer.promised :
         f[2] = 1 => f[1] \in taken \cup answer.notes \/ answer.long
    /\ answer.notes \cap taken = {}

\* However often a message is delivered, a handling lost or an answer of DingTalk's
\* wrong: a kind of file reaches the chat at most once for each delivery, and once
\* more only for each time the webhook said that it had refused it.
FileOnce ==
  \A m \in Messages, k \in Kinds : surplus[m][k] <= copies[m]

\* A message is acknowledged only after a reply to it was attempted: a crash
\* before that leaves it to DingTalk's redelivery.
AckAfterReply ==
  \A m \in Messages : copies[m] > 0 /\ m \notin unacked => m \in replied

\* A delivery that has come in is handled to its acknowledgement, unless the bridge
\* dies first.
Handled ==
  \A m \in Messages, n \in 0..MaxCrashes :
    (crashes = n /\ \E i \in DOMAIN inbox : inbox[i] = m)
      ~> (crashes # n \/ (pc = "ack" /\ msg = m))
================================================================================
