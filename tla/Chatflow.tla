------------------------------- MODULE Chatflow -------------------------------
(***************************************************************************)
(* The chatflow that docker/custom/patch_workflow.py writes into Dify: its *)
(* graph as data, a run of Dify's engine over it, and the answers of the   *)
(* gateway's /query as the http_sql node meets them.  Dify's engine, the   *)
(* models and the knowledge bases are external: they may choose any class, *)
(* find anything or nothing, and fail at any node.                         *)
(***************************************************************************)
EXTENDS Naturals, FiniteSets

CONSTANT Runs  \* chat turns, each one run of the graph

--------------------------------------------------------------------------------
(* The graph of _rebuild_graph()                                              *)

Classes == {"oa", "project", "sql", "chitchat", "oos"}
Retrievals == {"kr_oa", "kr_project"}
EmptyTests == {"if_oa", "if_project"}
Llms == {"llm_oa", "llm_project", "llm_sql_plan", "llm_chat"}
AnswerNodes == {"answer_oa", "answer_oa_miss", "answer_project", "answer_project_miss",
            "answer_sql", "answer_sql_fail", "answer_chat", "answer_oos"}
Nodes == {"start", "intent", "http_sql", "if_sql"}
           \cup Retrievals \cup EmptyTests \cup Llms \cup AnswerNodes

\* Mutants: the two branches of if_oa swapped, the plan shown to the chat model
\* after it was executed, the failure branch not connected.
BugEdges == {<<"start", "source", "intent">>,
  <<"intent", "oa", "kr_oa">>, <<"kr_oa", "source", "if_oa">>,
  <<"if_oa", "false", "answer_oa_miss">>, <<"if_oa", "true", "llm_oa">>,
  <<"llm_oa", "source", "answer_oa">>}
BugEdgesRewrite == {<<"start", "source", "intent">>,
  <<"intent", "sql", "llm_sql_plan">>, <<"llm_sql_plan", "source", "http_sql">>,
  <<"http_sql", "source", "if_sql">>, <<"if_sql", "true", "llm_chat">>,
  <<"if_sql", "false", "answer_sql_fail">>, <<"llm_chat", "source", "answer_chat">>}
BugEdgesOpen == {<<"start", "source", "intent">>,
  <<"intent", "sql", "llm_sql_plan">>, <<"llm_sql_plan", "source", "http_sql">>,
  <<"http_sql", "source", "if_sql">>, <<"if_sql", "true", "answer_sql">>}

\* Edges: source node, source handle, target node.
Edges ==
  {<<"start", "source", "intent">>,
   <<"intent", "oa", "kr_oa">>, <<"intent", "project", "kr_project">>,
   <<"intent", "sql", "llm_sql_plan">>, <<"intent", "chitchat", "llm_chat">>,
   <<"intent", "oos", "answer_oos">>,
   <<"kr_oa", "source", "if_oa">>, <<"kr_project", "source", "if_project">>,
   <<"if_oa", "true", "answer_oa_miss">>, <<"if_oa", "false", "llm_oa">>,
   <<"if_project", "true", "answer_project_miss">>,
   <<"if_project", "false", "llm_project">>,
   <<"llm_oa", "source", "answer_oa">>, <<"llm_project", "source", "answer_project">>,
   <<"llm_sql_plan", "source", "http_sql">>, <<"http_sql", "source", "if_sql">>,
   <<"if_sql", "true", "answer_sql">>, <<"if_sql", "false", "answer_sql_fail">>,
   <<"llm_chat", "source", "answer_chat">>}

\* The retrieval whose result an if-else tests (_if_empty) and whose result a
\* model is given as its context (_llm_node); the plan and chat models have none.
Tested == [if_oa |-> "kr_oa", if_project |-> "kr_project"]
Context == [llm_oa |-> "kr_oa", llm_project |-> "kr_project"]

\* retry_config of the http_sql node.
MaxNodeRetries == 2

--------------------------------------------------------------------------------
(* /query as seen by the node: query() answers 200 with a text whatever        *)
(* happens after the token test.                                              *)

Replies(agree) ==
  IF agree
  THEN {[status |-> 200, body |-> "data", export |-> FALSE],
        [status |-> 200, body |-> "data", export |-> TRUE],
        [status |-> 200, body |-> "rejected", export |-> FALSE],
        [status |-> 200, body |-> "failed", export |-> FALSE]}
  ELSE {[status |-> 401, body |-> "denied", export |-> FALSE]}

NoReply == [status |-> 0, body |-> "none", export |-> FALSE]

VARIABLES
  tokenOk,   \* QUERY_API_TOKEN is the same in the graph and at the gateway
  at,        \* node each run is at, or how it ended
  found,     \* what its retrievals have returned
  reply,     \* what http_sql got from the gateway
  tries,     \* attempts of http_sql
  exports,   \* export links the gateway made for the run
  path,      \* history: nodes the run has left behind
  answer     \* what the run says: the answer node and what filled it

vars == <<tokenOk, at, found, reply, tries, exports, path, answer>>

Init ==
  /\ tokenOk \in BOOLEAN
  /\ at = [r \in Runs |-> "start"]
  /\ found = [r \in Runs |-> [k \in Retrievals |-> "none"]]
  /\ reply = [r \in Runs |-> NoReply]
  /\ tries = [r \in Runs |-> 0]
  /\ exports = [r \in Runs |-> 0]
  /\ path = [r \in Runs |-> {}]
  /\ answer = [r \in Runs |-> "none"]

\* Dify's engine takes the edge of the handle a node has chosen.
Follow(r, handle) ==
  /\ \E e \in Edges : /\ e[1] = at[r] /\ e[2] = handle
                      /\ at' = [at EXCEPT ![r] = e[3]]
  /\ path' = [path EXCEPT ![r] = @ \cup {at[r]}]

Start(r) ==
  /\ at[r] = "start"
  /\ Follow(r, "source")
  /\ UNCHANGED <<tokenOk, found, reply, tries, exports, answer>>

Classify(r) ==
  /\ at[r] = "intent"
  /\ \E class \in Classes : Follow(r, class)
  /\ UNCHANGED <<tokenOk, found, reply, tries, exports, answer>>

\* The datasets may hold nothing that matches, or may not exist any more.
Retrieve(r) ==
  /\ at[r] \in Retrievals
  /\ \E result \in {"empty", "segments"} : found' = [found EXCEPT ![r][at[r]] = result]
  /\ Follow(r, "source")
  /\ UNCHANGED <<tokenOk, reply, tries, exports, answer>>

TestEmpty(r) ==
  /\ at[r] \in EmptyTests
  /\ Follow(r, IF found[r][Tested[at[r]]] = "empty" THEN "true" ELSE "false")
  /\ UNCHANGED <<tokenOk, found, reply, tries, exports, answer>>

Generate(r) ==
  /\ at[r] \in Llms
  /\ Follow(r, "source")
  /\ UNCHANGED <<tokenOk, found, reply, tries, exports, answer>>

\* The gateway answers the request of http_sql and the answer arrives.
HttpAnswered(r) ==
  /\ at[r] = "http_sql"
  /\ tries' = [tries EXCEPT ![r] = @ + 1]
  /\ \E p \in Replies(tokenOk) :
       /\ reply' = [reply EXCEPT ![r] = p]
       /\ exports' = [exports EXCEPT ![r] = IF p.export THEN @ + 1 ELSE @]
  /\ Follow(r, "source")
  /\ UNCHANGED <<tokenOk, found, answer>>

\* Mutant: one attempt too many.
BugHttpFails(r) ==
  /\ at[r] = "http_sql"
  /\ tries' = [tries EXCEPT ![r] = @ + 1]
  /\ exports' \in {exports, [exports EXCEPT ![r] = @ + 1]}
  /\ at' = [at EXCEPT ![r] = IF tries[r] <= MaxNodeRetries THEN "http_sql" ELSE "failed"]
  /\ UNCHANGED <<tokenOk, found, reply, path, answer>>

\* No connection, a timeout, an error status, a lost answer: tried again while
\* retries are left, else the run fails.  The gateway may have done its work all
\* the same, and then an export is there that no answer will name.
HttpFails(r) ==
  /\ at[r] = "http_sql"
  /\ tries' = [tries EXCEPT ![r] = @ + 1]
  /\ \/ UNCHANGED exports
     \/ tokenOk /\ exports' = [exports EXCEPT ![r] = @ + 1]
  /\ at' = [at EXCEPT ![r] = IF tries[r] < MaxNodeRetries THEN "http_sql" ELSE "failed"]
  /\ UNCHANGED <<tokenOk, found, reply, path, answer>>

TestStatus(r) ==
  /\ at[r] = "if_sql"
  /\ Follow(r, IF reply[r].status = 200 THEN "true" ELSE "false")
  /\ UNCHANGED <<tokenOk, found, reply, tries, exports, answer>>

\* An answer node renders its template: fixed text, a model's text, or the body.
Say(r) ==
  /\ at[r] \in AnswerNodes
  /\ answer' = [answer EXCEPT ![r] = IF at[r] = "answer_sql" THEN reply[r].body ELSE at[r]]
  /\ path' = [path EXCEPT ![r] = @ \cup {at[r]}]
  /\ at' = [at EXCEPT ![r] = "succeeded"]
  /\ UNCHANGED <<tokenOk, found, reply, tries, exports>>

\* A model or a retrieval fails: the run ends in an error, which the bridge gets
\* as an HTTP status.
Fail(r) ==
  /\ at[r] \in Retrievals \cup Llms \cup {"intent"}
  /\ at' = [at EXCEPT ![r] = "failed"]
  /\ UNCHANGED <<tokenOk, found, reply, tries, exports, path, answer>>

Step(r) ==
  \/ Start(r) \/ Classify(r) \/ Retrieve(r) \/ TestEmpty(r) \/ Generate(r)
  \/ HttpAnswered(r) \/ HttpFails(r) \/ TestStatus(r) \/ Say(r) \/ Fail(r)

Next == \E r \in Runs : Step(r)

Spec == Init /\ [][Next]_vars

--------------------------------------------------------------------------------
TypeOK ==
  /\ at \in [Runs -> Nodes \cup {"succeeded", "failed"}]
  /\ found \in [Runs -> [Retrievals -> {"none", "empty", "segments"}]]
  /\ tokenOk \in BOOLEAN
  /\ reply \in [Runs -> Replies(tokenOk) \cup {NoReply}]
  /\ tries \in [Runs -> 0..(MaxNodeRetries + 1)]
  /\ exports \in [Runs -> 0..(MaxNodeRetries + 1)]
  /\ path \in [Runs -> SUBSET Nodes]
  /\ answer \in [Runs -> {"none", "data", "rejected", "failed", "denied"} \cup AnswerNodes]

\* desc of the retrieval and if-else nodes, and the README's "refuses when nothing
\* is found": a model asked about rules or projects has segments of the right
\* knowledge base before it, and a run whose retrieval came back empty says the
\* fixed refusal.
NoInvention ==
  \A r \in Runs :
    /\ at[r] \in DOMAIN Context => found[r][Context[at[r]]] = "segments"
    /\ at[r] = "succeeded" /\ (\E k \in Retrievals : found[r][k] = "empty") =>
         answer[r] \in {"answer_oa_miss", "answer_project_miss"}

\* README, "numbers are not rewritten": once the gateway has been asked, no model
\* runs any more and the run says the body or the fixed failure text; a refused
\* token ("denied") never reads like a result.
NumbersUntouched ==
  \A r \in Runs :
    "http_sql" \in path[r] =>
      /\ at[r] \notin Llms
      /\ at[r] = "succeeded" => answer[r] \in {"data", "rejected", "failed", "answer_sql_fail"}

\* Every turn ends: no class, branch or handle leads nowhere.
TurnsEnd == \A r \in Runs : <>(at[r] \in {"succeeded", "failed"})

\* docs: "200: the body as it is, else the failure text", which says "gateway not
\* reachable or execution failed": a failed execution is answered with that text.
FailureText ==
  \A r \in Runs :
    reply[r].body = "failed" /\ at[r] = "succeeded" => answer[r] = "answer_sql_fail"
================================================================================
