-------------------------- MODULE SsrfRequest_proofs --------------------------
(***************************************************************************)
(* Proofs about SsrfRequest, for any number of callers, any pool and any   *)
(* limits that callers pass.                                               *)
(***************************************************************************)
EXTENDS SsrfRequest, FiniteSetTheorems, TLAPS

--------------------------------------------------------------------------------
(* Powers of two.  The provers know no exponentiation; the number of subsets  *)
(* of an interval does.                                                       *)

LEMMA PowerIsNatural == ASSUME NEW n \in Nat PROVE 2 ^ n \in Nat /\ 2 ^ n = Cardinality(SUBSET (1..n))
<1>1. IsFiniteSet(1..n) /\ Cardinality(1..n) = n
  BY FS_Interval
<1>2. IsFiniteSet(SUBSET (1..n)) /\ Cardinality(SUBSET (1..n)) = 2 ^ n
  BY <1>1, FS_SUBSET
<1> QED
  BY <1>2, FS_CardinalityType

\* Half of the subsets of 1..n+1 hold n+1.
LEMMA PowerDoubles == ASSUME NEW n \in Nat PROVE 2 ^ (n + 1) = 2 * 2 ^ n
<1> DEFINE x == n + 1
           S == SUBSET (1..n)
           W == {A \cup {x} : A \in S}
<1>1. IsFiniteSet(1..n) /\ IsFiniteSet(S)
  <2>1. IsFiniteSet(1..n)
    BY FS_Interval
  <2> QED
    BY <2>1, FS_SUBSET
<1>2. IsFiniteSet(W) /\ Cardinality(W) = Cardinality(S)
  <2> DEFINE f == [A \in S |-> A \cup {x}]
  <2>1. \A A, B \in S : f[A] = f[B] => A = B
    <3> SUFFICES ASSUME NEW A \in S, NEW B \in S, A \cup {x} = B \cup {x} PROVE A = B
      OBVIOUS
    <3>1. x \notin A /\ x \notin B
      OBVIOUS
    <3> QED
      BY <3>1
  <2>2. f \in [S -> W] /\ \A B \in W : \E A \in S : f[A] = B
    OBVIOUS
  <2>3. f \in Bijection(S, W)
    <3> HIDE DEF f, S, W
    <3>1. f \in Injection(S, W)
      BY <2>1, <2>2 DEF Injection, IsInjective
    <3>2. f \in Surjection(S, W)
      BY <2>2 DEF Surjection
    <3> QED
      BY <3>1, <3>2 DEF Bijection
  <2>4. ExistsBijection(S, W)
    BY <2>3 DEF ExistsBijection
  <2> QED
    BY <1>1, <2>4, FS_Bijection
<1>3. SUBSET (1..(n + 1)) = S \cup W
  <2>1. ASSUME NEW A \in SUBSET (1..(n + 1)) PROVE A \in S \cup W
    <3>1. CASE x \in A
      <4>1. A \ {x} \in S /\ A = (A \ {x}) \cup {x}
        BY <3>1
      <4> QED
        BY <4>1
    <3>2. CASE x \notin A
      BY <3>2
    <3> QED
      BY <3>1, <3>2
  <2>2. ASSUME NEW A \in S \cup W PROVE A \in SUBSET (1..(n + 1))
    OBVIOUS
  <2> QED
    BY <2>1, <2>2
<1>4. S \cap W = {}
  <2>1. ASSUME NEW A \in S PROVE A \notin W
    OBVIOUS
  <2> QED
    BY <2>1
<1>5. Cardinality(S \cup W) = Cardinality(S) + Cardinality(W)
  <2>1. Cardinality(S \cup W) = Cardinality(S) + Cardinality(W) - Cardinality(S \cap W)
    BY <1>1, <1>2, FS_Union
  <2>2. Cardinality(S \cap W) = 0
    BY <1>4, FS_EmptySet
  <2>3. Cardinality(S) \in Nat
    BY <1>1, FS_CardinalityType
  <2> QED
    BY <1>2, <2>1, <2>2, <2>3
<1>6. Cardinality(S) = 2 ^ n /\ Cardinality(SUBSET (1..(n + 1))) = 2 ^ (n + 1)
  BY PowerIsNatural, n + 1 \in Nat
<1>7. 2 ^ n \in Nat
  BY PowerIsNatural
<1>8. 2 ^ (n + 1) = 2 ^ n + 2 ^ n
  BY <1>2, <1>3, <1>5, <1>6
<1> QED
  BY <1>7, <1>8

--------------------------------------------------------------------------------
(* The inductive invariant, one caller at a time: a step of a caller touches  *)
(* nothing of another.                                                        *)

Types ==
  /\ asked \in [Callers -> [max : RetryLimits, stream : BOOLEAN]]
  /\ pc \in [Callers -> {"loop", "judge", "again", "caller", "buffer", "done"}]
  /\ retries \in [Callers -> Nat]
  /\ response \in [Callers -> Responses \cup {None}]
  /\ held \in [Callers -> Nat]
  /\ content \in [Callers -> Nat]
  /\ cap \in [Callers -> ByteLimits \cup {0}]
  /\ outcome \in [Callers -> Outcomes]
  /\ attempts \in [Callers -> Nat]
  /\ waited \in [Callers -> Nat]
  /\ executed \in [Callers -> Nat]

\* TypeOK's limits.
Limited(c) ==
  /\ retries[c] <= asked[c].max + 1
  /\ content[c] <= MaxBody
  /\ pc[c] = "buffer" => content[c] <= cap[c]

\* NoConnectionLeak.
Holding(c) ==
  held[c] = IF /\ asked[c].stream
               /\ pc[c] \in {"judge", "caller", "buffer"} \/ outcome[c] = "bad_limit"
            THEN 1 ELSE 0

\* AttemptsAccounted.
Accounted(c) ==
  /\ attempts[c] <= asked[c].max + 1
  /\ executed[c] <= attempts[c]
  /\ pc[c] = "loop" => attempts[c] = retries[c]
  /\ pc[c] = "loop" /\ retries[c] <= asked[c].max => waited[c] = 2 ^ retries[c] - 1
  /\ outcome[c] = "exceeded" =>
       attempts[c] = asked[c].max + 1 /\ waited[c] = 2 ^ asked[c].max - 1
  /\ response[c] # None /\ pc[c] # "judge" /\ response[c].status = "forced" =>
       asked[c].max = 0

\* What a caller's place in the code says of its response, outcome and counters:
\* a retry has dropped its response, and has made one attempt more than it counts.
Phase(c) ==
  /\ pc[c] \in {"loop", "again"} => response[c] = None
  /\ pc[c] = "judge" => response[c] \in Responses
  /\ pc[c] \in {"loop", "judge", "again"} => outcome[c] = "none" /\ content[c] = 0
  /\ pc[c] \in {"caller", "buffer"} => outcome[c] = "returned" /\ asked[c].stream
  /\ pc[c] = "caller" => content[c] = 0
  /\ pc[c] \in {"judge", "again"} =>
       /\ retries[c] <= asked[c].max
       /\ attempts[c] = retries[c] + 1
       /\ waited[c] = 2 ^ retries[c] - 1
  /\ pc[c] = "loop" /\ retries[c] > asked[c].max => waited[c] = 2 ^ asked[c].max - 1

Sound(c) == Limited(c) /\ Holding(c) /\ Accounted(c) /\ Phase(c)

IInv == Types /\ \A c \in Callers : Sound(c)

--------------------------------------------------------------------------------
LEMMA InitIInv == Init => IInv
<1> SUFFICES ASSUME Init PROVE IInv
  OBVIOUS
<1> USE SsrfAssumption DEF Init
<1>1. Types
  BY DEF Types, Outcomes
<1>2. ASSUME NEW c \in Callers PROVE Sound(c)
  <2>1. asked[c] \in [max : RetryLimits, stream : BOOLEAN]
    OBVIOUS
  <2>2. asked[c].max \in Nat
    BY <2>1
  <2>3. 2 ^ 0 = 1
    OBVIOUS
  <2> QED
    BY <2>2, <2>3 DEF Sound, Limited, Holding, Accounted, Phase
<1> QED
  BY <1>1, <1>2 DEF IInv

\* What a caller asked for never changes, and its limit is a number.
LEMMA AskedKept == ASSUME Types, NEW c \in Callers, Step(c)
                   PROVE asked' = asked /\ asked[c].max \in Nat /\ asked[c].stream \in BOOLEAN
<1>1. asked[c] \in [max : RetryLimits, stream : BOOLEAN]
  BY DEF Types
<1>2. asked' = asked
  BY DEF Step, Send, SendFails, Judge, Again, GiveUp, CallerCloses, Buffer, Chunk,
     Buffered, local
<1> QED
  BY <1>1, <1>2, SsrfAssumption

\* The other callers are left alone.
LEMMA OthersKept ==
  ASSUME IInv, NEW c \in Callers, Step(c), NEW d \in Callers, d # c PROVE Sound(d)'
<1>1. asked' = asked
  BY AskedKept DEF IInv
<1>2. /\ pc'[d] = pc[d] /\ retries'[d] = retries[d] /\ response'[d] = response[d]
      /\ held'[d] = held[d] /\ content'[d] = content[d] /\ cap'[d] = cap[d]
      /\ outcome'[d] = outcome[d] /\ attempts'[d] = attempts[d]
      /\ waited'[d] = waited[d] /\ executed'[d] = executed[d]
  <2> USE DEF IInv, Types, local, Goto, Finish, Close
  <2>1. CASE Send(c)
    BY <2>1 DEF Send
  <2>2. CASE SendFails(c)
    BY <2>2 DEF SendFails
  <2>3. CASE Judge(c)
    BY <2>3 DEF Judge
  <2>4. CASE Again(c)
    BY <2>4 DEF Again
  <2>5. CASE GiveUp(c)
    BY <2>5 DEF GiveUp
  <2>6. CASE CallerCloses(c)
    BY <2>6 DEF CallerCloses
  <2>7. CASE Buffer(c)
    BY <2>7 DEF Buffer
  <2>8. CASE Chunk(c)
    BY <2>8 DEF Chunk
  <2>9. CASE Buffered(c)
    BY <2>9 DEF Buffered
  <2> QED
    BY <2>1, <2>2, <2>3, <2>4, <2>5, <2>6, <2>7, <2>8, <2>9 DEF Step
<1>3. Sound(d)
  BY DEF IInv
<1> QED
  BY <1>1, <1>2, <1>3 DEF Sound, Limited, Holding, Accounted, Phase

LEMMA CloseTyped == ASSUME Types, NEW c \in Callers, Close(c) PROVE held' \in [Callers -> Nat]
<1>1. held[c] \in Nat
  BY DEF Types
<1> DEFINE left == IF held[c] = 0 THEN 0 ELSE held[c] - 1
<1>2. left \in Nat
  BY <1>1
<1>3. held' = [held EXCEPT ![c] = left]
  BY DEF Close
<1> HIDE DEF left
<1> QED
  BY <1>2, <1>3 DEF Types

\* A step keeps every variable in its type ...
LEMMA StepTypes == ASSUME IInv, NEW c \in Callers, Step(c) PROVE Types'
<1> USE SsrfAssumption DEF local, Goto, Finish, Outcomes
<1>0. /\ Types /\ Sound(c) /\ asked' = asked
      /\ asked[c].max \in Nat /\ asked[c].stream \in BOOLEAN
  BY AskedKept DEF IInv
<1>1. CASE Send(c)
  <2>1. PICK r \in Responses :
          /\ response' = [response EXCEPT ![c] = r]
          /\ executed' = [executed EXCEPT ![c] = IF r.by = "origin" THEN @ + 1 ELSE @]
    BY <1>1 DEF Send
  <2>2. executed' \in [Callers -> Nat] /\ response' \in [Callers -> Responses \cup {None}]
    <3> HIDE DEF Outcomes
    <3> QED
      BY <1>0, <2>1 DEF Types
  <2>3. held' \in [Callers -> Nat] /\ attempts' \in [Callers -> Nat]
    BY <1>0, <1>1 DEF Send, Types
  <2> QED
    BY <1>0, <1>1, <2>2, <2>3 DEF Send, Types
<1>2. CASE SendFails(c)
  <2>1. executed' \in [Callers -> Nat] /\ attempts' \in [Callers -> Nat]
    BY <1>0, <1>2 DEF SendFails, Types
  <2> QED
    BY <1>0, <1>2, <2>1 DEF SendFails, Types
<1>3. CASE Judge(c)
  <2>1. held' \in [Callers -> Nat] /\ response' \in [Callers -> Responses \cup {None}]
    BY <1>0, <1>3, CloseTyped DEF Judge, Types
  <2> QED
    BY <1>0, <1>3, <2>1 DEF Judge, Types
<1>4. CASE Again(c)
  <2>1. retries' \in [Callers -> Nat] /\ retries'[c] = retries[c] + 1
    BY <1>0, <1>4 DEF Again, Types
  <2>2. 2 ^ (retries'[c] - 1) \in Nat
    <3>1. retries'[c] - 1 \in Nat
      BY <1>0, <2>1 DEF Types
    <3> QED
      BY <3>1, PowerIsNatural
  <2>3. waited' \in [Callers -> Nat]
    BY <1>0, <1>4, <2>2 DEF Again, Types
  <2> QED
    BY <1>0, <1>4, <2>1, <2>3 DEF Again, Types
<1>5. CASE GiveUp(c)
  BY <1>0, <1>5 DEF GiveUp, Types
<1>6. CASE CallerCloses(c)
  BY <1>0, <1>6, CloseTyped DEF CallerCloses, Types
<1>7. CASE Buffer(c)
  <2>1. cap' \in [Callers -> ByteLimits \cup {0}]
    BY <1>0, <1>7 DEF Buffer, Types
  <2> QED
    BY <1>0, <1>7, <2>1 DEF Buffer, Types
<1>8. CASE Chunk(c)
  <2>1. content' \in [Callers -> Nat] /\ held' \in [Callers -> Nat]
    BY <1>0, <1>8, CloseTyped DEF Chunk, Types
  <2> QED
    BY <1>0, <1>8, <2>1 DEF Chunk, Types
<1>9. CASE Buffered(c)
  BY <1>0, <1>9, CloseTyped DEF Buffered, Types
<1> QED
  BY <1>1, <1>2, <1>3, <1>4, <1>5, <1>6, <1>7, <1>8, <1>9 DEF Step

\* ... and everything it says of the caller that takes it.
LEMMA StepSound == ASSUME IInv, NEW c \in Callers, Step(c) PROVE Sound(c)'
<1> USE DEF local, Goto, Finish
<1>0. /\ Types /\ Sound(c) /\ Types' /\ asked' = asked
      /\ asked[c].max \in Nat /\ asked[c].stream \in BOOLEAN
  BY AskedKept, StepTypes DEF IInv
<1>t. /\ retries[c] \in Nat /\ attempts[c] \in Nat /\ waited[c] \in Nat
      /\ held[c] \in Nat /\ executed[c] \in Nat /\ content[c] \in Nat
      /\ response[c] \in Responses \cup {None} /\ cap[c] \in ByteLimits \cup {0}
  BY <1>0 DEF Types
<1>i. cap[c] \in Int
  <2>1. cap[c] \in ByteLimits \/ cap[c] = 0
    BY <1>t
  <2>2. ASSUME NEW limit \in ByteLimits PROVE limit \in Int
    BY SsrfAssumption
  <2>3. 0 \in Int
    OBVIOUS
  <2> QED
    BY <2>1, <2>2, <2>3
<1> USE DEF Sound, Limited, Holding, Accounted, Phase
<1>1. CASE Send(c)
  <2>1. PICK r \in Responses :
          /\ response' = [response EXCEPT ![c] = r]
          /\ executed' = [executed EXCEPT ![c] = IF r.by = "origin" THEN @ + 1 ELSE @]
    BY <1>1 DEF Send
  <2>2. response'[c] = r /\ executed'[c] <= executed[c] + 1 /\ executed'[c] \in Nat
    BY <1>0, <1>t, <2>1 DEF Types
  <2> HIDE <2>1
  <2>3. /\ pc[c] = "loop" /\ retries[c] <= asked[c].max /\ pc'[c] = "judge"
        /\ attempts'[c] = attempts[c] + 1
        /\ held'[c] = IF asked[c].stream THEN held[c] + 1 ELSE held[c]
        /\ retries'[c] = retries[c] /\ outcome'[c] = outcome[c]
        /\ waited'[c] = waited[c] /\ content'[c] = content[c]
    BY <1>0, <1>1 DEF Send, Types
  <2> QED
    BY <1>0, <1>t, <2>2, <2>3
<1>2. CASE SendFails(c)
  <2>1. /\ pc[c] = "loop" /\ retries[c] <= asked[c].max
        /\ attempts'[c] = attempts[c] + 1
        /\ executed'[c] \in {executed[c], executed[c] + 1}
        /\ \/ pc'[c] = "done" /\ outcome'[c] = "request_error"
           \/ pc'[c] = "again" /\ outcome'[c] = outcome[c]
        /\ retries'[c] = retries[c] /\ response'[c] = response[c]
        /\ held'[c] = held[c] /\ waited'[c] = waited[c] /\ content'[c] = content[c]
    BY <1>0, <1>2 DEF SendFails, Types
  <2> QED
    BY <1>0, <1>t, <2>1
<1>3. CASE Judge(c)
  <2>1. /\ pc[c] = "judge" /\ retries'[c] = retries[c] /\ attempts'[c] = attempts[c]
        /\ waited'[c] = waited[c] /\ executed'[c] = executed[c]
        /\ content'[c] = content[c]
    BY <1>3 DEF Judge
  <2>2. \/ /\ held'[c] = IF held[c] = 0 THEN 0 ELSE held[c] - 1
           /\ response'[c] = None
           /\ pc'[c] = "done" /\ outcome'[c] = "ssrf_error"
        \/ /\ response[c].status # "forced" \/ asked[c].max = 0
           /\ held'[c] = held[c] /\ response'[c] = response[c]
           /\ outcome'[c] = "returned"
           /\ pc'[c] = IF asked[c].stream THEN "caller" ELSE "done"
        \/ /\ held'[c] = IF held[c] = 0 THEN 0 ELSE held[c] - 1
           /\ response'[c] = None
           /\ pc'[c] = "again" /\ outcome'[c] = outcome[c]
    BY <1>0, <1>3 DEF Judge, Close, Types
  <2> QED
    BY <1>0, <1>t, <2>1, <2>2
<1>4. CASE Again(c)
  <2>1. /\ pc[c] = "again" /\ pc'[c] = "loop" /\ retries'[c] = retries[c] + 1
        /\ response'[c] = response[c] /\ held'[c] = held[c]
        /\ outcome'[c] = outcome[c] /\ attempts'[c] = attempts[c]
        /\ executed'[c] = executed[c] /\ content'[c] = content[c]
    BY <1>0, <1>4 DEF Again, Types
  <2>2. waited'[c] = IF retries'[c] <= asked[c].max
                     THEN waited[c] + 2 ^ (retries'[c] - 1) ELSE waited[c]
    BY <1>0, <1>4 DEF Again, Types
  <2>3. 2 ^ retries[c] \in Nat /\ 2 ^ (retries[c] + 1) = 2 * 2 ^ retries[c]
    BY <1>t, PowerIsNatural, PowerDoubles
  <2>4. retries'[c] - 1 = retries[c]
    BY <1>t, <2>1
  <2>5. retries'[c] <= asked[c].max => waited'[c] = 2 ^ retries'[c] - 1
    BY <1>0, <1>t, <2>1, <2>2, <2>3, <2>4
  <2>6. retries'[c] > asked[c].max => waited'[c] = 2 ^ asked[c].max - 1
    <3>1. retries'[c] > asked[c].max => retries[c] = asked[c].max /\ waited'[c] = waited[c]
      BY <1>0, <1>t, <2>1, <2>2
    <3> QED
      BY <1>0, <3>1, <2>1
  <2> QED
    BY <1>0, <1>t, <2>1, <2>5, <2>6
<1>5. CASE GiveUp(c)
  <2>1. /\ pc[c] = "loop" /\ retries[c] > asked[c].max
        /\ pc'[c] = "done" /\ outcome'[c] = "exceeded"
        /\ retries'[c] = retries[c] /\ response'[c] = response[c]
        /\ held'[c] = held[c] /\ attempts'[c] = attempts[c]
        /\ waited'[c] = waited[c] /\ executed'[c] = executed[c]
        /\ content'[c] = content[c]
    BY <1>0, <1>5 DEF GiveUp, Types
  <2> QED
    BY <1>0, <1>t, <2>1
<1>6. CASE CallerCloses(c)
  <2>1. /\ pc[c] = "caller" /\ pc'[c] = "done"
        /\ held'[c] = IF held[c] = 0 THEN 0 ELSE held[c] - 1
        /\ retries'[c] = retries[c] /\ response'[c] = response[c]
        /\ outcome'[c] = outcome[c] /\ attempts'[c] = attempts[c]
        /\ waited'[c] = waited[c] /\ executed'[c] = executed[c]
        /\ content'[c] = content[c]
    BY <1>0, <1>6 DEF CallerCloses, Close, Types
  <2> QED
    BY <1>0, <1>t, <2>1
<1>7. CASE Buffer(c)
  <2>1. PICK limit \in ByteLimits :
          /\ cap' = [cap EXCEPT ![c] = limit]
          /\ \/ limit > 0 /\ Goto(c, "buffer") /\ UNCHANGED outcome
             \/ limit <= 0 /\ Finish(c, "bad_limit")
    BY <1>7 DEF Buffer
  <2>2. /\ cap'[c] = limit
        /\ \/ limit > 0 /\ pc'[c] = "buffer" /\ outcome'[c] = outcome[c]
           \/ limit <= 0 /\ pc'[c] = "done" /\ outcome'[c] = "bad_limit"
    BY <1>0, <2>1 DEF Types
  <2> HIDE <2>1
  <2>3. /\ pc[c] = "caller" /\ content'[c] = content[c] /\ retries'[c] = retries[c]
        /\ response'[c] = response[c] /\ held'[c] = held[c]
        /\ attempts'[c] = attempts[c] /\ waited'[c] = waited[c]
        /\ executed'[c] = executed[c]
    BY <1>7 DEF Buffer
  <2> QED
    BY <1>0, <1>t, <1>i, <2>2, <2>3, SsrfAssumption
<1>8. CASE Chunk(c)
  <2>1. PICK n \in 1..MaxBody :
          /\ content[c] + n <= MaxBody
          /\ \/ /\ content[c] + n <= cap[c]
                /\ content' = [content EXCEPT ![c] = @ + n]
                /\ UNCHANGED <<pc, held, outcome>>
             \/ /\ content[c] + n > cap[c]
                /\ Close(c) /\ Finish(c, "too_large")
                /\ UNCHANGED content
    BY <1>8 DEF Chunk
  <2>2. /\ content[c] + n <= MaxBody
        /\ \/ /\ content[c] + n <= cap[c] /\ content'[c] = content[c] + n
              /\ pc'[c] = pc[c] /\ held'[c] = held[c] /\ outcome'[c] = outcome[c]
           \/ /\ held'[c] = IF held[c] = 0 THEN 0 ELSE held[c] - 1
              /\ pc'[c] = "done" /\ outcome'[c] = "too_large"
              /\ content'[c] = content[c]
    BY <1>0, <2>1 DEF Types, Close
  <2> HIDE <2>1
  <2>3. /\ pc[c] = "buffer" /\ cap'[c] = cap[c] /\ retries'[c] = retries[c]
        /\ response'[c] = response[c] /\ attempts'[c] = attempts[c]
        /\ waited'[c] = waited[c] /\ executed'[c] = executed[c]
    BY <1>8 DEF Chunk
  <2> QED
    BY <1>0, <1>t, <1>i, <2>2, <2>3, SsrfAssumption
<1>9. CASE Buffered(c)
  <2>1. /\ pc[c] = "buffer" /\ pc'[c] = "done"
        /\ held'[c] = IF held[c] = 0 THEN 0 ELSE held[c] - 1
        /\ outcome'[c] \in {"buffered", "bad_encoding", "read_error"}
        /\ retries'[c] = retries[c] /\ response'[c] = response[c]
        /\ attempts'[c] = attempts[c] /\ waited'[c] = waited[c]
        /\ executed'[c] = executed[c] /\ content'[c] = content[c]
    BY <1>0, <1>9 DEF Buffered, Close, Types
  <2> QED
    BY <1>0, <1>t, <2>1
<1> QED
  BY <1>1, <1>2, <1>3, <1>4, <1>5, <1>6, <1>7, <1>8, <1>9 DEF Step

LEMMA NextIInv == IInv /\ [Next]_vars => IInv'
<1> SUFFICES ASSUME IInv, [Next]_vars PROVE IInv'
  OBVIOUS
<1>1. CASE UNCHANGED vars
  BY <1>1 DEF IInv, vars, Types, Sound, Limited, Holding, Accounted, Phase
<1>2. CASE Next
  <2>1. PICK c \in Callers : Step(c)
    BY <1>2 DEF Next
  <2>2. \A d \in Callers : Sound(d)'
    BY <2>1, OthersKept, StepSound
  <2> QED
    BY <2>1, <2>2, StepTypes DEF IInv
<1> QED
  BY <1>1, <1>2

--------------------------------------------------------------------------------
\* Whatever the callers' interleaving, every caller is sound.
THEOREM RequestSafety == Spec => []IInv
BY InitIInv, NextIInv, PTL DEF Spec

\* Types, the limit on retries, and the byte limit of buffer_response().
THEOREM RequestTyped == Spec => []TypeOK
<1>1. IInv => TypeOK
  <2> SUFFICES ASSUME IInv PROVE TypeOK
    OBVIOUS
  <2>1. ASSUME NEW c \in Callers
        PROVE /\ retries[c] \in 0..(asked[c].max + 1) /\ attempts[c] \in Nat
              /\ content[c] \in 0..MaxBody /\ (pc[c] = "buffer" => content[c] <= cap[c])
    <3>1. asked[c] \in [max : RetryLimits, stream : BOOLEAN]
      BY DEF IInv, Types
    <3>2. asked[c].max \in Nat
      BY <3>1, SsrfAssumption
    <3> QED
      BY <3>2, SsrfAssumption DEF IInv, Types, Sound, Limited
  <2> QED
    BY <2>1 DEF IInv, Types, TypeOK
<1> QED
  BY <1>1, RequestSafety, PTL

\* A pooled connection is held only with an open streaming response in hand.
THEOREM ConnectionsAreReturned == Spec => []NoConnectionLeak
<1>1. IInv => NoConnectionLeak
  BY DEF IInv, Sound, Holding, NoConnectionLeak
<1> QED
  BY <1>1, RequestSafety, PTL

\* Attempts, sleeps, executions and the outcome agree for every number of retries.
THEOREM AttemptsAreAccounted == Spec => []AttemptsAccounted
<1>1. IInv => AttemptsAccounted
  BY DEF IInv, Sound, Accounted, AttemptsAccounted
<1> QED
  BY <1>1, RequestSafety, PTL
================================================================================
