--------------------------- MODULE Chatflow_proofs ---------------------------
(***************************************************************************)
(* Proofs about Chatflow, for any number of turns: what the graph and the  *)
(* engine's step together make sure of.                                    *)
(***************************************************************************)
EXTENDS Chatflow, TLAPS

--------------------------------------------------------------------------------
(* The inductive invariant: what the node a run is at says of its past.       *)

Misses == {"answer_oa_miss", "answer_project_miss"}
SqlTail == {"if_sql", "answer_sql", "answer_sql_fail"}
SqlAnswers == {"data", "rejected", "failed", "answer_sql_fail"}
Ended == {"succeeded", "failed"}

\* A run without segments is on its way to the refusal, a model of the two
\* knowledge branches has the segments of its own branch.
Grounded(r) ==
  /\ at[r] \in {"start", "intent"} \cup Retrievals =>
       \A k \in Retrievals : found[r][k] = "none"
  /\ at[r] \in EmptyTests =>
       /\ found[r][Tested[at[r]]] \in {"empty", "segments"}
       /\ \A k \in Retrievals \ {Tested[at[r]]} : found[r][k] = "none"
  /\ at[r] \in DOMAIN Context => found[r][Context[at[r]]] = "segments"
  /\ \A k \in Retrievals : found[r][k] = "empty" =>
       /\ at[r] \in EmptyTests \cup Misses \cup Ended
       /\ at[r] = "succeeded" => answer[r] \in Misses

\* A run that has asked the gateway is past every model, and says its text only
\* after it has seen status 200.
Asked(r) ==
  /\ "http_sql" \in path[r] => at[r] \in SqlTail \cup Ended
  /\ "http_sql" \in path[r] /\ at[r] = "succeeded" => answer[r] \in SqlAnswers
  /\ at[r] = "answer_sql" => reply[r].status = 200

\* What is said is said last.
Spoken(r) == answer[r] # "none" => at[r] = "succeeded"

\* Attempts are counted from the node's first, and none leaves two links.
Counted(r) ==
  /\ exports[r] <= tries[r]
  /\ at[r] \in {"start", "intent", "llm_sql_plan"} => tries[r] = 0
  /\ at[r] = "http_sql" => tries[r] <= MaxNodeRetries

Sound(r) == Grounded(r) /\ Asked(r) /\ Spoken(r) /\ Counted(r)

IInv == TypeOK /\ \A r \in Runs : Sound(r)

--------------------------------------------------------------------------------
\* Where the edges lead.
LEMMA EdgeTargets ==
  ASSUME NEW e \in Edges
  PROVE  /\ e[1] \in Nodes /\ e[3] \in Nodes
         /\ e[1] = "start" => e[3] = "intent"
         /\ e[1] = "intent" =>
              e[3] \in Retrievals \cup {"llm_sql_plan", "llm_chat", "answer_oos"}
         /\ e[1] = "kr_oa" => e[3] = "if_oa"
         /\ e[1] = "kr_project" => e[3] = "if_project"
         /\ e[1] = "if_oa" => e[3] = IF e[2] = "true" THEN "answer_oa_miss" ELSE "llm_oa"
         /\ e[1] = "if_project" =>
              e[3] = IF e[2] = "true" THEN "answer_project_miss" ELSE "llm_project"
         /\ e[1] \in DOMAIN Context => e[3] \in {"answer_oa", "answer_project"}
         /\ e[1] = "llm_sql_plan" => e[3] = "http_sql"
         /\ e[1] = "llm_chat" => e[3] = "answer_chat"
         /\ e[1] = "http_sql" => e[3] = "if_sql"
         /\ e[1] = "if_sql" => e[3] = IF e[2] = "true" THEN "answer_sql" ELSE "answer_sql_fail"
BY DEF Edges, Nodes, Retrievals, EmptyTests, Llms, AnswerNodes, Context

\* What a step along an edge does to the run.
LEMMA FollowEdge ==
  ASSUME TypeOK, NEW r \in Runs, NEW handle, Follow(r, handle)
  PROVE  \E e \in Edges :
           /\ e[1] = at[r] /\ e[2] = handle
           /\ at' = [at EXCEPT ![r] = e[3]] /\ at'[r] = e[3]
           /\ path' = [path EXCEPT ![r] = @ \cup {at[r]}]
           /\ path'[r] = path[r] \cup {at[r]}
           /\ at' \in [Runs -> Nodes \cup Ended] /\ path' \in [Runs -> SUBSET Nodes]
<1>1. PICK e \in Edges : e[1] = at[r] /\ e[2] = handle /\ at' = [at EXCEPT ![r] = e[3]]
  BY DEF Follow
<1>2. e[1] \in Nodes /\ e[3] \in Nodes
  BY EdgeTargets
<1>3. at \in [Runs -> Nodes \cup Ended] /\ path \in [Runs -> SUBSET Nodes]
  BY DEF TypeOK, Ended
<1>4. path' = [path EXCEPT ![r] = path[r] \cup {at[r]}]
  BY DEF Follow
<1> HIDE DEF Nodes, Ended, Edges
<1>5. path[r] \cup {at[r]} \in SUBSET Nodes
  BY <1>1, <1>2, <1>3
<1> QED
  BY <1>1, <1>2, <1>3, <1>4, <1>5

LEMMA InitIInv == Init => IInv
<1> SUFFICES ASSUME Init PROVE IInv
  OBVIOUS
<1> USE DEF Init
<1>1. TypeOK
  BY DEF TypeOK, Nodes, MaxNodeRetries
<1>2. ASSUME NEW r \in Runs PROVE Sound(r)
  BY DEF Sound, Grounded, Asked, Spoken, Counted, EmptyTests, Context
<1> QED
  BY <1>1, <1>2 DEF IInv

\* The other runs are left alone.
LEMMA OthersSame ==
  ASSUME TypeOK, NEW r \in Runs, Step(r), NEW q \in Runs, q # r
  PROVE  /\ at'[q] = at[q] /\ found'[q] = found[q] /\ reply'[q] = reply[q]
         /\ tries'[q] = tries[q] /\ exports'[q] = exports[q] /\ path'[q] = path[q]
         /\ answer'[q] = answer[q]
<1> USE DEF TypeOK
<1>1. CASE Start(r)
  BY <1>1 DEF Start, Follow
<1>2. CASE Classify(r)
  BY <1>2 DEF Classify, Follow
<1>3. CASE Retrieve(r)
  BY <1>3 DEF Retrieve, Follow
<1>4. CASE TestEmpty(r)
  BY <1>4 DEF TestEmpty, Follow
<1>5. CASE Generate(r)
  BY <1>5 DEF Generate, Follow
<1>6. CASE HttpAnswered(r)
  BY <1>6 DEF HttpAnswered, Follow
<1>7. CASE HttpFails(r)
  BY <1>7 DEF HttpFails
<1>8. CASE TestStatus(r)
  BY <1>8 DEF TestStatus, Follow
<1>9. CASE Say(r)
  BY <1>9 DEF Say
<1>10. CASE Fail(r)
  BY <1>10 DEF Fail
<1> QED
  BY <1>1, <1>2, <1>3, <1>4, <1>5, <1>6, <1>7, <1>8, <1>9, <1>10 DEF Step

LEMMA OthersKept ==
  ASSUME IInv, NEW r \in Runs, Step(r), NEW q \in Runs, q # r PROVE Sound(q)'
<1>1. /\ at'[q] = at[q] /\ found'[q] = found[q] /\ reply'[q] = reply[q]
      /\ tries'[q] = tries[q] /\ exports'[q] = exports[q] /\ path'[q] = path[q]
      /\ answer'[q] = answer[q]
  BY OthersSame DEF IInv
<1>2. Sound(q)
  BY DEF IInv
<1> QED
  BY <1>1, <1>2 DEF Sound, Grounded, Asked, Spoken, Counted

\* A reply is one of the gateway's, and says so by its status.
LEMMA ReplyBody ==
  ASSUME TypeOK, NEW r \in Runs, reply[r].status = 200
  PROVE  reply[r].body \in {"data", "rejected", "failed"}
<1>1. reply[r] \in Replies(tokenOk) \cup {NoReply}
  BY DEF TypeOK
<1> QED
  BY <1>1 DEF Replies, NoReply

\* A step keeps every variable in its type ...
LEMMA StepTypes == ASSUME IInv, NEW r \in Runs, Step(r) PROVE TypeOK'
<1>0. TypeOK /\ Sound(r)
  BY DEF IInv
<1>1. ASSUME NEW handle, Follow(r, handle)
      PROVE /\ at' \in [Runs -> Nodes \cup {"succeeded", "failed"}]
            /\ path' \in [Runs -> SUBSET Nodes]
  BY <1>0, <1>1, FollowEdge DEF Ended
<1>2. CASE Start(r)
  BY <1>0, <1>1, <1>2 DEF Start, TypeOK
<1>3. CASE Classify(r)
  BY <1>0, <1>1, <1>3 DEF Classify, TypeOK
<1>4. CASE Retrieve(r)
  <2>1. PICK result \in {"empty", "segments"} : found' = [found EXCEPT ![r][at[r]] = result]
    BY <1>4 DEF Retrieve
  <2>2. found' \in [Runs -> [Retrievals -> {"none", "empty", "segments"}]]
    BY <1>0, <2>1 DEF TypeOK
  <2> QED
    BY <1>0, <1>1, <1>4, <2>2 DEF Retrieve, TypeOK
<1>5. CASE TestEmpty(r)
  BY <1>0, <1>1, <1>5 DEF TestEmpty, TypeOK
<1>6. CASE Generate(r)
  BY <1>0, <1>1, <1>6 DEF Generate, TypeOK
<1>7. CASE HttpAnswered(r)
  <2>1. PICK p \in Replies(tokenOk) :
          /\ reply' = [reply EXCEPT ![r] = p]
          /\ exports' = [exports EXCEPT ![r] = IF p.export THEN @ + 1 ELSE @]
    BY <1>7 DEF HttpAnswered
  <2>2. reply' \in [Runs -> Replies(tokenOk) \cup {NoReply}]
    BY <1>0, <2>1 DEF TypeOK
  <2>3. /\ tries[r] \in 0..MaxNodeRetries /\ exports[r] \in 0..MaxNodeRetries
    BY <1>0, <1>7 DEF TypeOK, Sound, Counted, HttpAnswered, MaxNodeRetries
  <2>4. tries' \in [Runs -> 0..(MaxNodeRetries + 1)]
    BY <1>0, <1>7, <2>3 DEF TypeOK, HttpAnswered, MaxNodeRetries
  <2>5. exports' \in [Runs -> 0..(MaxNodeRetries + 1)]
    BY <1>0, <2>1, <2>3 DEF TypeOK, MaxNodeRetries
  <2> QED
    BY <1>0, <1>1, <1>7, <2>2, <2>4, <2>5 DEF HttpAnswered, TypeOK
<1>8. CASE HttpFails(r)
  <2>1. /\ tries[r] \in 0..MaxNodeRetries /\ exports[r] \in 0..MaxNodeRetries
    BY <1>0, <1>8 DEF TypeOK, Sound, Counted, HttpFails, MaxNodeRetries
  <2>2. tries' \in [Runs -> 0..(MaxNodeRetries + 1)]
    BY <1>0, <1>8, <2>1 DEF TypeOK, HttpFails, MaxNodeRetries
  <2>3. exports' \in [Runs -> 0..(MaxNodeRetries + 1)]
    BY <1>0, <1>8, <2>1 DEF TypeOK, HttpFails, MaxNodeRetries
  <2>4. at' \in [Runs -> Nodes \cup {"succeeded", "failed"}]
    BY <1>0, <1>8 DEF TypeOK, HttpFails, Nodes
  <2> QED
    BY <1>0, <1>8, <2>2, <2>3, <2>4 DEF HttpFails, TypeOK
<1>9. CASE TestStatus(r)
  BY <1>0, <1>1, <1>9 DEF TestStatus, TypeOK
<1>10. CASE Say(r)
  <2>1. at[r] \in AnswerNodes /\ at[r] \in Nodes
    BY <1>10 DEF Say, Nodes
  <2>2. path' = [path EXCEPT ![r] = path[r] \cup {at[r]}] /\ path[r] \cup {at[r]} \in SUBSET Nodes
    BY <1>0, <1>10, <2>1 DEF Say, TypeOK
  <2>3. path' \in [Runs -> SUBSET Nodes]
    BY <1>0, <2>2 DEF TypeOK
  <2>4. at[r] = "answer_sql" => reply[r].body \in {"data", "rejected", "failed"}
    BY <1>0, ReplyBody DEF Sound, Asked
  <2>5. answer' \in [Runs -> {"none", "data", "rejected", "failed", "denied"} \cup AnswerNodes]
    BY <1>0, <1>10, <2>1, <2>4 DEF Say, TypeOK
  <2>6. at' \in [Runs -> Nodes \cup {"succeeded", "failed"}]
    BY <1>0, <1>10 DEF Say, TypeOK
  <2> QED
    BY <1>0, <1>10, <2>3, <2>5, <2>6 DEF Say, TypeOK
<1>11. CASE Fail(r)
  BY <1>0, <1>11 DEF Fail, TypeOK
<1> QED
  BY <1>2, <1>3, <1>4, <1>5, <1>6, <1>7, <1>8, <1>9, <1>10, <1>11 DEF Step

\* A run that is not refusing, and goes to a node that asks nothing of its
\* retrievals.
LEMMA GroundedElsewhere ==
  ASSUME NEW r \in Runs, Grounded(r), found'[r] = found[r],
         at[r] \notin EmptyTests \cup Misses \cup Ended,
         at'[r] \notin {"start", "intent"} \cup Retrievals \cup EmptyTests \cup DOMAIN Context
  PROVE  Grounded(r)'
<1>1. \A k \in Retrievals : found'[r][k] # "empty"
  BY DEF Grounded
<1> QED
  BY <1>1 DEF Grounded

\* ... and what the run's new place says of its past.
LEMMA StepSound == ASSUME IInv, NEW r \in Runs, Step(r) PROVE Sound(r)'
<1>0. TypeOK /\ Sound(r) /\ tries[r] \in Nat /\ exports[r] \in Nat
  BY DEF IInv, TypeOK, MaxNodeRetries
<1>1. ASSUME NEW handle, Follow(r, handle)
      PROVE \E e \in Edges : /\ e[1] = at[r] /\ e[2] = handle /\ at'[r] = e[3]
                             /\ path'[r] = path[r] \cup {at[r]}
  BY <1>0, <1>1, FollowEdge
<1> USE DEF Sound, Asked, Spoken, Counted
<1>2. CASE Start(r)
  <2>1. at[r] = "start" /\ at'[r] = "intent" /\ path'[r] = path[r] \cup {"start"}
    BY <1>1, <1>2, EdgeTargets DEF Start
  <2> QED
    BY <1>0, <1>2, <2>1 DEF Start, Grounded, MaxNodeRetries, EmptyTests, Context, SqlTail, Ended, Misses
<1>3. CASE Classify(r)
  <2>1. /\ at[r] = "intent" /\ path'[r] = path[r] \cup {"intent"}
        /\ at'[r] \in Retrievals \cup {"llm_sql_plan", "llm_chat", "answer_oos"}
    BY <1>1, <1>3, EdgeTargets DEF Classify
  <2> QED
    BY <1>0, <1>3, <2>1 DEF Classify, Grounded, EmptyTests, Context, SqlTail, Ended, Misses, Retrievals
<1>4. CASE Retrieve(r)
  <2>1. /\ at[r] \in Retrievals /\ path'[r] = path[r] \cup {at[r]}
        /\ at'[r] = IF at[r] = "kr_oa" THEN "if_oa" ELSE "if_project"
    BY <1>1, <1>4, EdgeTargets DEF Retrieve, Retrievals
  <2>2. PICK result \in {"empty", "segments"} : found' = [found EXCEPT ![r][at[r]] = result]
    BY <1>4 DEF Retrieve
  <2>3. /\ found'[r][at[r]] = result
        /\ \A k \in Retrievals \ {at[r]} : found'[r][k] = found[r][k]
    BY <1>0, <2>1, <2>2 DEF TypeOK
  <2>4. at'[r] \in EmptyTests /\ Tested[at'[r]] = at[r]
    BY <2>1 DEF EmptyTests, Tested, Retrievals
  <2>5. \A k \in Retrievals : found[r][k] = "none"
    BY <1>0, <2>1 DEF Grounded
  <2>6. Grounded(r)'
    BY <2>2, <2>3, <2>4, <2>5 DEF Grounded, EmptyTests, Retrievals, Context
  <2> QED
    BY <1>0, <1>4, <2>1, <2>4, <2>6
    DEF Retrieve, EmptyTests, SqlTail, Ended, Retrievals
<1>5. CASE TestEmpty(r)
  <2>1. /\ at[r] \in EmptyTests /\ path'[r] = path[r] \cup {at[r]}
        /\ at[r] = "if_oa" =>
             at'[r] = IF found[r]["kr_oa"] = "empty" THEN "answer_oa_miss" ELSE "llm_oa"
        /\ at[r] = "if_project" =>
             at'[r] = IF found[r]["kr_project"] = "empty" THEN "answer_project_miss"
                                                          ELSE "llm_project"
    BY <1>1, <1>5, EdgeTargets DEF TestEmpty, Tested
  <2>2. /\ found'[r] = found[r]
        /\ found[r][Tested[at[r]]] \in {"empty", "segments"}
        /\ \A k \in Retrievals \ {Tested[at[r]]} : found[r][k] = "none"
    BY <1>0, <1>5, <2>1 DEF TestEmpty, Grounded
  <2>3. CASE found[r][Tested[at[r]]] = "empty"
    <3>1. at'[r] \in Misses
      BY <2>1, <2>3 DEF EmptyTests, Tested, Misses
    <3> QED
      BY <1>0, <1>5, <2>1, <2>2, <3>1
      DEF Grounded, TestEmpty, EmptyTests, Retrievals, Context, SqlTail, Ended, Misses
  <2>4. CASE found[r][Tested[at[r]]] = "segments"
    <3>1. at'[r] \in DOMAIN Context /\ Context[at'[r]] = Tested[at[r]]
      BY <2>1, <2>4 DEF EmptyTests, Tested, Context
    <3>2. \A k \in Retrievals : found'[r][k] # "empty"
      BY <2>2, <2>4
    <3>3. Grounded(r)'
      BY <2>2, <2>4, <3>1, <3>2 DEF Grounded, EmptyTests, Retrievals, Context
    <3> QED
      BY <1>0, <1>5, <2>1, <3>1, <3>3
      DEF TestEmpty, EmptyTests, Context, SqlTail, Ended
  <2> QED
    BY <2>2, <2>3, <2>4
<1>6. CASE Generate(r)
  <2>1. /\ at[r] \in Llms /\ path'[r] = path[r] \cup {at[r]}
        /\ at[r] \in DOMAIN Context => at'[r] \in {"answer_oa", "answer_project"}
        /\ at[r] = "llm_sql_plan" => at'[r] = "http_sql"
        /\ at[r] = "llm_chat" => at'[r] = "answer_chat"
    BY <1>1, <1>6, EdgeTargets DEF Generate
  <2>2. Grounded(r)'
    BY <1>0, <1>6, <2>1, GroundedElsewhere
    DEF Generate, Llms, EmptyTests, Retrievals, Context, Ended, Misses
  <2> QED
    BY <1>0, <1>6, <2>1, <2>2 DEF Generate, MaxNodeRetries, Llms, Context, SqlTail, Ended
<1>7. CASE HttpAnswered(r)
  <2>1. PICK p \in Replies(tokenOk) :
          /\ reply' = [reply EXCEPT ![r] = p]
          /\ exports' = [exports EXCEPT ![r] = IF p.export THEN @ + 1 ELSE @]
    BY <1>7 DEF HttpAnswered
  <2>2. exports'[r] <= exports[r] + 1
    BY <1>0, <2>1 DEF TypeOK
  <2> HIDE <2>1
  <2>3. at'[r] = "if_sql" /\ path'[r] = path[r] \cup {"http_sql"} /\ at[r] = "http_sql"
    BY <1>1, <1>7, EdgeTargets DEF HttpAnswered
  <2>4. tries'[r] = tries[r] + 1 /\ found'[r] = found[r] /\ answer'[r] = answer[r]
    BY <1>0, <1>7 DEF HttpAnswered, TypeOK
  <2>5. exports'[r] \in Nat
    BY <1>7, StepTypes DEF Step, TypeOK, MaxNodeRetries
  <2>6. Grounded(r)'
    BY <1>0, <2>3, <2>4, GroundedElsewhere DEF EmptyTests, Retrievals, Context, Ended, Misses
  <2> QED
    BY <1>0, <2>2, <2>3, <2>4, <2>5, <2>6 DEF SqlTail, Ended
<1>8. CASE HttpFails(r)
  <2>1. /\ at[r] = "http_sql" /\ tries'[r] = tries[r] + 1
        /\ exports'[r] \in {exports[r], exports[r] + 1}
        /\ at'[r] = IF tries[r] < MaxNodeRetries THEN "http_sql" ELSE "failed"
        /\ found'[r] = found[r] /\ path'[r] = path[r] /\ answer'[r] = answer[r]
    BY <1>0, <1>8 DEF HttpFails, TypeOK
  <2>2. Grounded(r)'
    BY <1>0, <2>1, GroundedElsewhere DEF EmptyTests, Retrievals, Context, Ended, Misses
  <2> QED
    BY <1>0, <2>1, <2>2 DEF SqlTail, Ended, MaxNodeRetries
<1>9. CASE TestStatus(r)
  <2>1. /\ at[r] = "if_sql" /\ path'[r] = path[r] \cup {"if_sql"}
        /\ at'[r] = IF reply[r].status = 200 THEN "answer_sql" ELSE "answer_sql_fail"
    BY <1>1, <1>9, EdgeTargets DEF TestStatus
  <2>2. Grounded(r)'
    BY <1>0, <1>9, <2>1, GroundedElsewhere
    DEF TestStatus, EmptyTests, Retrievals, Context, Ended, Misses
  <2> QED
    BY <1>0, <1>9, <2>1, <2>2 DEF TestStatus, SqlTail, Ended
<1>10. CASE Say(r)
  <2>1. /\ at[r] \in AnswerNodes /\ at'[r] = "succeeded" /\ path'[r] = path[r] \cup {at[r]}
        /\ answer'[r] = IF at[r] = "answer_sql" THEN reply[r].body ELSE at[r]
        /\ found'[r] = found[r] /\ tries'[r] = tries[r] /\ exports'[r] = exports[r]
    BY <1>0, <1>10 DEF Say, TypeOK
  <2>2. at[r] = "answer_sql" => answer'[r] \in SqlAnswers
    BY <1>0, <2>1, ReplyBody DEF SqlAnswers
  <2>3. ASSUME NEW k \in Retrievals, found'[r][k] = "empty" PROVE answer'[r] \in Misses
    BY <1>0, <2>1, <2>3 DEF Grounded, AnswerNodes, EmptyTests, Misses, Ended
  <2>4. Grounded(r)'
    BY <2>1, <2>3 DEF Grounded, EmptyTests, Retrievals, Context, Ended
  <2> QED
    BY <1>0, <2>1, <2>2, <2>4 DEF AnswerNodes, SqlTail, SqlAnswers, Ended
<1>11. CASE Fail(r)
  <2>1. /\ at[r] \in Retrievals \cup Llms \cup {"intent"} /\ at'[r] = "failed"
    BY <1>0, <1>11 DEF Fail, TypeOK
  <2>2. Grounded(r)'
    BY <1>0, <1>11, <2>1, GroundedElsewhere
    DEF Fail, Retrievals, Llms, EmptyTests, Context, Ended, Misses
  <2> QED
    BY <1>0, <1>11, <2>1, <2>2 DEF Fail, Retrievals, Llms, SqlTail, Ended
<1> QED
  BY <1>2, <1>3, <1>4, <1>5, <1>6, <1>7, <1>8, <1>9, <1>10, <1>11 DEF Step

\* A run that has ended takes no step; a step leaves one link at most.
LEMMA StepOfRun ==
  ASSUME IInv, NEW r \in Runs, Step(r)
  PROVE  at[r] \notin Ended /\ exports'[r] \in {exports[r], exports[r] + 1}
<1> USE DEF IInv, TypeOK, Ended
<1>1. CASE Start(r) \/ Classify(r) \/ TestEmpty(r) \/ Generate(r) \/ TestStatus(r)
  BY <1>1 DEF Start, Classify, TestEmpty, Generate, TestStatus, EmptyTests, Llms
<1>2. CASE Retrieve(r) \/ Say(r) \/ Fail(r)
  BY <1>2 DEF Retrieve, Say, Fail, Retrievals, AnswerNodes, Llms
<1>3. CASE HttpAnswered(r)
  <2>1. PICK p \in Replies(tokenOk) :
          exports' = [exports EXCEPT ![r] = IF p.export THEN @ + 1 ELSE @]
    BY <1>3 DEF HttpAnswered
  <2> QED
    BY <1>3, <2>1 DEF HttpAnswered
<1>4. CASE HttpFails(r)
  BY <1>4 DEF HttpFails
<1> QED
  BY <1>1, <1>2, <1>3, <1>4 DEF Step

LEMMA StepIInv == ASSUME IInv, NEW r \in Runs, Step(r) PROVE IInv'
<1>1. \A q \in Runs : Sound(q)'
  BY OthersKept, StepSound
<1> QED
  BY <1>1, StepTypes DEF IInv

LEMMA StutterIInv == ASSUME IInv, UNCHANGED vars PROVE IInv'
BY DEF IInv, vars, TypeOK, Sound, Grounded, Asked, Spoken, Counted

LEMMA NextIInv == IInv /\ [Next]_vars => IInv'
BY StepIInv, StutterIInv DEF Next

\* What the invariant is for.
LEMMA IInvImplies == IInv => TypeOK /\ NoInvention /\ NumbersUntouched
<1> SUFFICES ASSUME IInv PROVE NoInvention /\ NumbersUntouched
  BY DEF IInv
<1>1. ASSUME NEW r \in Runs PROVE Sound(r)
  BY DEF IInv
<1>2. NoInvention
  BY <1>1 DEF NoInvention, Sound, Grounded, Misses
<1>3. NumbersUntouched
  BY <1>1 DEF NumbersUntouched, Sound, Asked, SqlTail, SqlAnswers, Ended, Llms
<1> QED
  BY <1>2, <1>3

--------------------------------------------------------------------------------
\* Types; a turn asks the gateway at most three times and leaves at most that many
\* links.
THEOREM ChatflowTyped == Spec => []TypeOK
BY InitIInv, NextIInv, IInvImplies, PTL DEF Spec

\* No model of a knowledge branch runs without the segments of its own branch, and
\* a retrieval that came back empty ends in the refusal.
THEOREM NothingIsInvented == Spec => []NoInvention
BY InitIInv, NextIInv, IInvImplies, PTL DEF Spec

\* What the gateway answered reaches the answer without passing a model.
THEOREM NumbersPassThrough == Spec => []NumbersUntouched
BY InitIInv, NextIInv, IInvImplies, PTL DEF Spec
================================================================================
