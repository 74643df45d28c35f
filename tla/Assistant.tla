------------------------------ MODULE Assistant ------------------------------
(***************************************************************************)
(* The three parts that work together on one question: the DingTalk bridge *)
(* asks Dify, Dify's engine runs a turn of the chatflow, the turn's HTTP   *)
(* node makes the gateway publish export links, and the bridge downloads   *)
(* the link the answer names.  Every step is a step of the parts' own      *)
(* modules, taken together.  What only the composition shows is time: the  *)
(* bridge gives up on a turn that goes on, links grow old, and the models' *)
(* memory of a conversation holds the links of earlier answers.            *)
(***************************************************************************)
EXTENDS DingTalkBridge, FiniteSets

CONSTANTS
  Turns,         \* runs of the chatflow (a bound)
  Branches,      \* nodes the questions lead to from the classifier (a bound)
  Links,         \* export links (a bound)
  NoLink,        \* no link
  AskLimit,      \* the bridge's timeout for a question
  DownloadLimit, \* its timeout for a download
  LinkTtl        \* lifetime of a link

\* 120 s and 30 s against 15 minutes.
ASSUME AssistantAssumption ==
  /\ NoLink \notin Links /\ None \notin Turns
  /\ {AskLimit, DownloadLimit, LinkTtl} \subseteq Nat
  /\ AskLimit + DownloadLimit <= LinkTtl

VARIABLES
  tokenOk, at, found, reply, tries, exports, path, said,  \* of Chatflow
  link, deadline, handed,                                 \* of ExportLinks
  turn,      \* the turn the bridge waits for, or has the answer of
  asker,     \* the message each turn was started for, and its conversation
  mark,      \* the link named first by the answer that is being handled
  since,     \* when the download was begun
  owner,     \* the turn each link was published for
  names      \* the link the gateway's answer to each turn names

flow == <<tokenOk, at, found, reply, tries, exports, path, said>>
store == <<link, deadline, handed>>
exported == <<owner, names>>
everything == <<vars, flow, store, turn, asker, mark, since, exported>>

Flow == INSTANCE Chatflow WITH Runs <- Turns, answer <- said
Store == INSTANCE ExportLinks WITH Ids <- Links, Ttl <- LinkTtl, clock <- now

NotAsked == [msg |-> None, conv |-> NoConv]

AInit ==
  /\ Init /\ Flow!Init /\ Store!Init
  /\ turn = None
  /\ asker = [t \in Turns |-> NotAsked]
  /\ mark = NoLink
  /\ since = 0
  /\ owner = [l \in Links |-> None]
  /\ names = [t \in Turns |-> NoLink]

--------------------------------------------------------------------------------
(* Time and scheduling.                                                        *)

\* A turn between two requests to the gateway, or the bridge with an answer it has
\* no link to fetch for any more: what they do there touches nothing of the others
\* and could as well be done later, so the others wait until it is over.
Between(t) == at[t] \notin {"start", "http_sql", "succeeded", "failed"}
Handling == pc \notin {"idle", "ask", "download"}
Quiet == ~Handling /\ \A t \in Turns : ~Between(t)

\* Turns left to start; without one no further message is looked at (a bound).
Spare == {t \in Turns : asker[t] = NotAsked}

\* A request is over when its limit is reached; work between two requests takes
\* no time.  Before the first question and after the last nothing depends on time.
Passes ==
  /\ Quiet
  /\ pc # "idle" \/ Spare \notin {{}, Turns}
  /\ Tick
  /\ pc = "ask" => now - askedAt < AskLimit
  /\ pc = "download" => now - since < DownloadLimit
  /\ UNCHANGED <<flow, store, turn, asker, mark, since, exported>>

--------------------------------------------------------------------------------
(* The bridge and Dify.                                                        *)

\* A new identifier; which one makes no difference.
AnUnused(unused) == IF unused = {} THEN {} ELSE {CHOOSE x \in unused : TRUE}

\* POST /chat-messages arrives: a turn begins, in the conversation the bridge
\* continues, if it may, or in a new one.
AskArrives ==
  /\ Quiet
  /\ pc = "ask" /\ turn = None
  /\ \E t \in AnUnused(Spare),
        c \in IF conv = NoConv THEN AnUnused({d \in Convs : \A u \in Turns : asker[u].conv # d})
             ELSE {d \in {conv} : User(dify[d]) = User(msg)} :
       /\ Flow!Start(t)
       /\ turn' = t
       /\ asker' = [asker EXCEPT ![t] = [msg |-> msg, conv |-> c]]
  /\ UNCHANGED <<vars, store, mark, since, exported>>

\* Links that answers in the conversation of t have named.
Remembered(t) ==
  {names[u] : u \in {v \in Turns : asker[v].conv = asker[t].conv /\ said[v] = "data"}}

\* The first link in the text of t's answer: the body of the gateway holds its own
\* and no other; a model that sees the conversation may repeat earlier ones.
Named(t) ==
  CASE said[t] = "data" -> {names[t]}
    [] said[t] \in {"answer_oa", "answer_project", "answer_chat"} -> {NoLink} \cup Remembered(t)
    [] OTHER -> {NoLink}

\* The answer of a turn that succeeded arrives in time.
TurnAnswered ==
  /\ Quiet
  /\ turn # None /\ at[turn] = "succeeded"
  /\ AskAnswered
  /\ sessions'[SessionKey(msg)].conv = asker[turn].conv
  /\ mark' \in Named(turn)
  /\ (mark' = NoLink) = (answer'.promised = {})
  /\ said[turn] = "data" => Cardinality(answer'.promised) <= 1
  /\ UNCHANGED <<flow, store, turn, asker, since, exported>>

\* The bridge gets an error or nothing at all; a turn that runs goes on.
TurnLost ==
  /\ Quiet
  /\ AskFailed
  /\ IF turn = None THEN dify' = dify ELSE Serves(asker[turn].conv)
  /\ turn' = None
  /\ UNCHANGED <<flow, store, asker, mark, since, exported>>

--------------------------------------------------------------------------------
(* Dify and the gateway.                                                       *)

\* A turn moves; when its HTTP node made the gateway export, a link is published,
\* and an answer that arrived names it.
TurnMoves(t) ==
  /\ Quiet \/ Between(t)
  /\ asker[t] # NotAsked
  /\ Flow!Step(t)
  /\ at[t] = "intent" => at'[t] \in Branches \cup {"failed"}
  /\ IF exports'[t] = exports[t] THEN UNCHANGED <<store, exported>>
     ELSE \E l \in AnUnused({k \in Links : owner[k] = None}) :
            /\ Store!Publish(l)
            /\ owner' = [owner EXCEPT ![l] = t]
            /\ names' = IF reply'[t].export THEN [names EXCEPT ![t] = l] ELSE names
  /\ UNCHANGED <<vars, turn, asker, mark, since>>

\* The download finds its link expired: the gateway sweeps before it looks.
LinkExpires ==
  /\ Quiet /\ pc = "download"
  /\ Store!Expire(mark)
  /\ UNCHANGED <<vars, flow, turn, asker, mark, since, exported>>

\* A restart shows when the bridge comes for a link it has withdrawn.
GatewayRestarts ==
  /\ Quiet /\ pc = "download" /\ link[mark] = "live"
  /\ Store!Restart
  /\ UNCHANGED <<vars, flow, turn, asker, mark, since, exported>>

--------------------------------------------------------------------------------
(* The bridge and the gateway.                                                 *)

DownloadBegins ==
  /\ NextFile
  /\ since' = now
  /\ UNCHANGED <<flow, store, turn, asker, mark, exported>>

\* The gateway hands out the file of a live link; a dead one, and whatever else
\* goes wrong, is an exception.
DownloadEnds ==
  /\ Download
  /\ IF pc' = "upload" THEN Store!Hand(mark) ELSE UNCHANGED store
  /\ UNCHANGED <<flow, turn, asker, mark, since, exported>>

\* What else the bridge does; a handling that is over, or dies, forgets its turn.
\* A delivery that would wait in the inbox comes when the bridge is free instead.
BridgeMoves ==
  /\ Quiet \/ Handling
  /\ pc = "idle" => Spare # {}
  /\ \/ Receive \/ Upload \/ Webhook \/ Api \/ Trim \/ Reply \/ Ack \/ Crash
     \/ pc = "idle" /\ inbox = <<>> /\ \E m \in Messages : Deliver(m)
  /\ IF pc' = "idle" THEN turn' = None /\ mark' = NoLink /\ since' = 0
                     ELSE UNCHANGED <<turn, mark, since>>
  /\ UNCHANGED <<flow, store, asker, exported>>

ANext ==
  \/ Passes
  \/ AskArrives \/ TurnAnswered \/ TurnLost
  \/ \E t \in Turns : TurnMoves(t)
  \/ LinkExpires \/ GatewayRestarts
  \/ DownloadBegins \/ DownloadEnds \/ BridgeMoves

ASpec == AInit /\ [][ANext]_everything

--------------------------------------------------------------------------------
\* A link that the answered turn made is within its lifetime as long as the bridge
\* asks for its file, whatever the turn and the answer took: only a restart of the
\* gateway can have withdrawn it, and only a link that a model repeats from the
\* memory of the conversation can have expired.
LinkWorks ==
  pc = "download" /\ owner[mark] = turn =>
    now <= deadline[mark]

\* A file that is on its way into a chat was exported for a question of the same
\* person in the same chat, repeated links included; people without a staff id who
\* go by one name are, here too, as one.
NoForeignFile ==
  pc \in {"upload", "webhook", "api"} => SameSender(asker[owner[mark]].msg, msg)

\* The HTTP node asks the gateway at most three times for one turn; each attempt
\* publishes one link at most, and of them only the one the answer names is ever
\* handed out: the others wait for the gateway's sweep.
OneLinkHanded ==
  \A t \in Turns :
    LET mine == {l \in Links : owner[l] = t}
    IN  /\ Cardinality(mine) <= tries[t] /\ tries[t] <= 3
        /\ mine \cap handed \subseteq {names[t]}
================================================================================
