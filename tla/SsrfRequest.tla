----------------------------- MODULE SsrfRequest -----------------------------
(***************************************************************************)
(* docker/custom/patches/ssrf_proxy.py: make_request() with its retries,   *)
(* and buffer_response() on the open response it may return.  Callers      *)
(* share one pooled httpx client, which has PoolSize connections; a        *)
(* response keeps its connection until it is read to its end or closed.    *)
(* Squid, the origin server and what a caller does with a returned         *)
(* response are external.                                                  *)
(***************************************************************************)
EXTENDS Integers, FiniteSets

CONSTANTS
  Callers,     \* threads of the Dify API and worker that send requests
  PoolSize,    \* max_connections of the pooled client
  RetryLimits, \* values of max_retries callers pass
  ByteLimits,  \* values of max_response_bytes callers pass
  MaxBody,     \* bound on the length of a body
  None         \* no response

ASSUME SsrfAssumption ==
  /\ PoolSize \in Nat \ {0}
  /\ RetryLimits \subseteq Nat
  /\ ByteLimits \subseteq Int
  /\ MaxBody \in Nat

\* A response as make_request() tells them apart: who wrote it, the status, and
\* whether it is an HTML page.  Whatever came through Squid says so in Via.
Responses ==
  [by : {"origin"}, status : {"ok", "auth", "forced"}, html : BOOLEAN]
    \cup {[by |-> "squid", status |-> "auth", html |-> TRUE],
          [by |-> "squid", status |-> "forced", html |-> TRUE]}

VARIABLES
  asked,     \* max_retries and stream_response of each caller's request
  pc,        \* where each caller is
  retries,   \* its counter `retries`
  response,  \* the response in its hands
  held,      \* connections its responses keep
  content,   \* bytes it has buffered
  cap,       \* max_response_bytes of its buffer_response()
  outcome,   \* how its request ended
  attempts,  \* history: requests it tried to send
  waited,    \* history: its total sleep, in units of BACKOFF_FACTOR
  executed   \* history: how often the origin carried its request out

local == <<asked, content, cap>>
vars == <<asked, pc, retries, response, held, content, cap, outcome, attempts,
          waited, executed>>

Init ==
  /\ asked \in [Callers -> [max : RetryLimits, stream : BOOLEAN]]
  /\ pc = [c \in Callers |-> "loop"]
  /\ retries = [c \in Callers |-> 0]
  /\ response = [c \in Callers |-> None]
  /\ held = [c \in Callers |-> 0]
  /\ content = [c \in Callers |-> 0]
  /\ cap = [c \in Callers |-> 0]
  /\ outcome = [c \in Callers |-> "none"]
  /\ attempts = [c \in Callers |-> 0]
  /\ waited = [c \in Callers |-> 0]
  /\ executed = [c \in Callers |-> 0]

Goto(c, label) == pc' = [pc EXCEPT ![c] = label]

Finish(c, how) ==
  /\ outcome' = [outcome EXCEPT ![c] = how]
  /\ Goto(c, "done")

Close(c) == held' = [held EXCEPT ![c] = IF @ = 0 THEN 0 ELSE @ - 1]

\* A connection of the pool is free.
Free == Cardinality({c \in Callers : held[c] > 0}) < PoolSize

\* client.send() returns a response; a streaming one keeps its connection, and
\* another has been read to its end.
Send(c) ==
  /\ pc[c] = "loop" /\ retries[c] <= asked[c].max
  /\ Free
  /\ attempts' = [attempts EXCEPT ![c] = @ + 1]
  /\ \E r \in Responses :
       /\ response' = [response EXCEPT ![c] = r]
       /\ executed' = [executed EXCEPT ![c] = IF r.by = "origin" THEN @ + 1 ELSE @]
  /\ held' = [held EXCEPT ![c] = IF asked[c].stream THEN @ + 1 ELSE @]
  /\ Goto(c, "judge")
  /\ UNCHANGED <<local, retries, outcome, waited>>

\* client.send() raises httpx.RequestError: the origin may have got the request,
\* or the pool had no connection in time.
SendFails(c) ==
  /\ pc[c] = "loop" /\ retries[c] <= asked[c].max
  /\ attempts' = [attempts EXCEPT ![c] = @ + 1]
  /\ \/ UNCHANGED executed
     \/ Free /\ executed' = [executed EXCEPT ![c] = @ + 1]
  /\ \/ asked[c].max = 0 /\ Finish(c, "request_error")
     \/ asked[c].max # 0 /\ Goto(c, "again") /\ UNCHANGED outcome
  /\ UNCHANGED <<local, retries, response, held, waited>>

\* The proxy itself refused: identified as Squid's and generated by it.
Denied(r) == r.status = "auth" /\ (r.by = "squid" \/ r.html)

\* Mutants: the response that is going to be retried stays open, or the last of
\* the failing responses is returned.
BugJudgeOpen(c) ==
  /\ pc[c] = "judge"
  /\ ~Denied(response[c]) /\ response[c].status = "forced" /\ asked[c].max # 0
  /\ response' = [response EXCEPT ![c] = None]
  /\ Goto(c, "again")
  /\ UNCHANGED <<local, retries, held, outcome, attempts, waited, executed>>
\* The status decides: an error of the proxy is raised, a status of the force
\* list is closed and tried again unless retries are off, the rest is returned.
Judge(c) ==
  /\ pc[c] = "judge"
  /\ LET r == response[c]
     IN  \/ /\ Denied(r)
            /\ Close(c)
            /\ response' = [response EXCEPT ![c] = None]
            /\ Finish(c, "ssrf_error")
         \/ /\ ~Denied(r) /\ (r.status # "forced" \/ asked[c].max = 0)
            /\ outcome' = [outcome EXCEPT ![c] = "returned"]
            /\ Goto(c, IF asked[c].stream THEN "caller" ELSE "done")
            /\ UNCHANGED <<response, held>>
         \/ /\ ~Denied(r) /\ r.status = "forced" /\ asked[c].max # 0
            /\ Close(c)
            /\ response' = [response EXCEPT ![c] = None]
            /\ Goto(c, "again")
            /\ UNCHANGED outcome
  /\ UNCHANGED <<local, retries, attempts, waited, executed>>

\* Mutant: the exponent is off by one.
BugAgain(c) ==
  /\ pc[c] = "again"
  /\ retries' = [retries EXCEPT ![c] = @ + 1]
  /\ waited' = [waited EXCEPT
       ![c] = IF retries'[c] <= asked[c].max THEN @ + 2 ^ retries'[c] ELSE @]
  /\ Goto(c, "loop")
  /\ UNCHANGED <<local, response, held, outcome, attempts, executed>>

\* The counter goes up; the wait doubles, and there is none after the last try.
Again(c) ==
  /\ pc[c] = "again"
  /\ retries' = [retries EXCEPT ![c] = @ + 1]
  /\ waited' = [waited EXCEPT
       ![c] = IF retries'[c] <= asked[c].max THEN @ + 2 ^ (retries'[c] - 1) ELSE @]
  /\ Goto(c, "loop")
  /\ UNCHANGED <<local, response, held, outcome, attempts, executed>>

\* Mutant: nobody leaves the loop.
BugGiveUp(c) ==
  /\ pc[c] = "loop" /\ retries[c] > asked[c].max + 1
  /\ Finish(c, "exceeded")
  /\ UNCHANGED <<local, retries, response, held, attempts, waited, executed>>

\* The loop is over without a response to return.
GiveUp(c) ==
  /\ pc[c] = "loop" /\ retries[c] > asked[c].max
  /\ Finish(c, "exceeded")
  /\ UNCHANGED <<local, retries, response, held, attempts, waited, executed>>

--------------------------------------------------------------------------------
\* A streaming response is the caller's to close, or to hand to buffer_response,
\* which refuses a limit that is not positive before anything else.
CallerCloses(c) ==
  /\ pc[c] = "caller"
  /\ Close(c)
  /\ Goto(c, "done")
  /\ UNCHANGED <<local, retries, response, outcome, attempts, waited, executed>>

Buffer(c) ==
  /\ pc[c] = "caller"
  /\ \E limit \in ByteLimits :
       /\ cap' = [cap EXCEPT ![c] = limit]
       /\ \/ limit > 0 /\ Goto(c, "buffer") /\ UNCHANGED outcome
          \/ limit <= 0 /\ Finish(c, "bad_limit")
  /\ UNCHANGED <<asked, content, retries, response, held, attempts, waited, executed>>

\* Mutant: the chunk is taken before its length is tested.
BugChunk(c) ==
  /\ pc[c] = "buffer"
  /\ \E n \in 1..MaxBody :
       /\ content[c] + n <= MaxBody
       /\ content' = [content EXCEPT ![c] = @ + n]
       /\ IF content[c] >= cap[c]
          THEN Close(c) /\ Finish(c, "too_large")
          ELSE UNCHANGED <<pc, held, outcome>>
  /\ UNCHANGED <<asked, cap, retries, response, attempts, waited, executed>>

\* One chunk of the body: taken if it fits, else the error, and `finally` closes.
Chunk(c) ==
  /\ pc[c] = "buffer"
  /\ \E n \in 1..MaxBody :
       /\ content[c] + n <= MaxBody
       /\ \/ /\ content[c] + n <= cap[c]
             /\ content' = [content EXCEPT ![c] = @ + n]
             /\ UNCHANGED <<pc, held, outcome>>
          \/ /\ content[c] + n > cap[c]
             /\ Close(c)
             /\ Finish(c, "too_large")
             /\ UNCHANGED content
  /\ UNCHANGED <<asked, cap, retries, response, attempts, waited, executed>>

\* The body ends, its encoding is not identity, or reading it fails: every way
\* out passes through `finally`.
Buffered(c) ==
  /\ pc[c] = "buffer"
  /\ Close(c)
  /\ \E how \in {"buffered", "bad_encoding", "read_error"} : Finish(c, how)
  /\ UNCHANGED <<local, retries, response, attempts, waited, executed>>

Step(c) ==
  \/ Send(c) \/ SendFails(c) \/ Judge(c) \/ Again(c) \/ GiveUp(c)
  \/ CallerCloses(c) \/ Buffer(c) \/ Chunk(c) \/ Buffered(c)

Next == \E c \in Callers : Step(c)

Spec == Init /\ [][Next]_vars

\* Connect, read, write and pool timeouts bound every request, and a caller that
\* got a response does something with it.
FairSpec == Spec /\ \A c \in Callers : WF_vars(Step(c))

--------------------------------------------------------------------------------
Outcomes == {"none", "returned", "ssrf_error", "request_error", "exceeded",
             "buffered", "bad_encoding", "read_error", "too_large", "bad_limit"}

\* Types; a caller never reads more than its limit, of attempts or of bytes.
TypeOK ==
  /\ asked \in [Callers -> [max : RetryLimits, stream : BOOLEAN]]
  /\ pc \in [Callers -> {"loop", "judge", "again", "caller", "buffer", "done"}]
  /\ \A c \in Callers :
       /\ retries[c] \in 0..(asked[c].max + 1)
       /\ attempts[c] \in Nat
       /\ content[c] \in 0..MaxBody
       /\ pc[c] = "buffer" => content[c] <= cap[c]
  /\ response \in [Callers -> Responses \cup {None}]
  /\ held \in [Callers -> Nat]
  /\ cap \in [Callers -> ByteLimits \cup {0}]
  /\ outcome \in [Callers -> Outcomes]
  /\ waited \in [Callers -> Nat]
  /\ executed \in [Callers -> Nat]

\* A connection of the shared pool is held only by a caller that has an open
\* streaming response in its hands: never while it sleeps, retries or has failed.
\* The one way out that keeps it is buffer_response() refusing its limit.
NoConnectionLeak ==
  \A c \in Callers :
    held[c] = IF /\ asked[c].stream
                 /\ pc[c] \in {"judge", "caller", "buffer"} \/ outcome[c] = "bad_limit"
              THEN 1 ELSE 0

\* Attempts, waits and the outcome agree: one attempt more than retries, waits
\* that add up to 2^k - 1 before attempt k + 1, and MaxRetriesExceededError only
\* after all of them.  The origin carries a request out at most once per attempt,
\* so exactly the callers that pass max_retries = 0 are safe from doing it twice;
\* and only they are handed a status of the force list.
AttemptsAccounted ==
  \A c \in Callers :
    /\ attempts[c] <= asked[c].max + 1
    /\ executed[c] <= attempts[c]
    /\ pc[c] = "loop" => attempts[c] = retries[c]
    /\ pc[c] = "loop" /\ retries[c] <= asked[c].max => waited[c] = 2 ^ retries[c] - 1
    /\ outcome[c] = "exceeded" =>
         attempts[c] = asked[c].max + 1 /\ waited[c] = 2 ^ asked[c].max - 1
    /\ response[c] # None /\ pc[c] # "judge" /\ response[c].status = "forced" =>
         asked[c].max = 0

\* Every request ends, in a response or an error.
Terminates == \A c \in Callers : <>(pc[c] = "done")

\* make_request(), its comment on origin 401/403: an error page of the origin is
\* not taken for a refusal of the proxy.
OriginErrorsPass ==
  \A c \in Callers :
    pc[c] = "judge" /\ response[c].by = "origin" => ~Denied(response[c])

\* buffer_response(), its docstring: the stream is closed when it is through.
BufferCloses ==
  \A c \in Callers :
    outcome[c] \in {"buffered", "bad_encoding", "read_error", "too_large", "bad_limit"} =>
      held[c] = 0
================================================================================
