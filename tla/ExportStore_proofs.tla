-------------------------- MODULE ExportStore_proofs --------------------------
(***************************************************************************)
(* Proofs about ExportStore, for any number of handler threads and export  *)
(* identifiers, any lifetime and any bounds.                               *)
(***************************************************************************)
EXTENDS ExportStore, TLAPS

--------------------------------------------------------------------------------
(* The inductive invariant: what each handler may rely on at each label while *)
(* the others run.                                                            *)

\* No sweep works with a reading of the clock that lies ahead of the clock.
ScansInPast == \A t \in Threads : scanAt[t] <= now

\* Nothing is on disk under an identifier that was never drawn.
FreshIsAbsent == \A id \in Ids : id \notin used => disk[id] = "absent"

\* A handler that writes a file owns its identifier.
Writing ==
  /\ \A t \in Threads :
       pc[t] \in {"write", "register"} =>
         /\ cur[t] \in used \ published
         /\ pc[t] = "register" => disk[cur[t]] = "whole"
  /\ \A t, u \in Threads :
       /\ pc[t] \in {"write", "register"}
       /\ pc[u] \in {"write", "register"}
       /\ cur[t] = cur[u]
       => t = u

\* What the scan cannot visit any more had not expired when it began.
Scanning ==
  \A t \in Threads :
    pc[t] = "scan" =>
      /\ seen[t] \subseteq published
      /\ \A id \in exports \ seen[t] : expires[id] >= scanAt[t]

\* The sweep list holds expired entries only, and all that are still entered.
Sweeping ==
  \A t \in Threads :
    pc[t] \in {"sweep", "pop"} =>
      /\ doomed[t] \subseteq published
      /\ \A id \in doomed[t] : expires[id] < scanAt[t]
      /\ \A id \in exports : expires[id] < scanAt[t] => id \in doomed[t]

\* Between unlink and pop the file is gone.
Popping ==
  \A t \in Threads :
    pc[t] = "pop" => cur[t] \in doomed[t] /\ disk[cur[t]] = "absent"

\* A file looked up may vanish before it is opened only together with its entry
\* or ahead of it.
Sending ==
  \A t \in Threads :
    pc[t] = "send" =>
      /\ req[t].id \in published
      /\ req[t].id \in exports \/ disk[req[t].id] = "absent"

IInv ==
  /\ TypeOK /\ LiveIsWhole /\ NoSilentLeak /\ SweptClean
  /\ ScansInPast /\ FreshIsAbsent /\ Writing
  /\ Scanning /\ Sweeping /\ Popping /\ Sending

--------------------------------------------------------------------------------
LEMMA InitIInv == Init => IInv
<1> SUFFICES ASSUME Init PROVE IInv
  OBVIOUS
<1> USE ExportStoreAssumption
<1>1. NoRequest \in Requests
  BY DEF Requests, NoRequest
<1>2. TypeOK
  BY <1>1 DEF Init, TypeOK, Labels, Responses, Exceptions
<1> QED
  BY <1>2 DEF Init, IInv, LiveIsWhole, NoSilentLeak, SweptClean, ScansInPast,
     FreshIsAbsent, Writing, Scanning, Sweeping, Popping, Sending

LEMMA NoRequestTyped == NoRequest \in Requests
BY DEF Requests, NoRequest

\* A handler that ends is idle and well typed.
LEMMA RespondTyped ==
  ASSUME TypeOK, NEW t \in Threads, NEW r \in Responses, Respond(t, r)
  PROVE  /\ pc' \in [Threads -> Labels]
         /\ req' \in [Threads -> Requests]
         /\ scanAt' \in [Threads -> 0..MaxTime]
         /\ seen' \in [Threads -> SUBSET Ids]
         /\ doomed' \in [Threads -> SUBSET Ids]
         /\ cur' \in [Threads -> Ids \cup {NoId}]
         /\ resp' \in [Threads -> Responses]
BY ExportStoreAssumption, NoRequestTyped DEF TypeOK, Respond, Labels

LEMMA StepIInv == ASSUME IInv, NEW t \in Threads, Step(t) PROVE IInv'
<1> USE ExportStoreAssumption
        DEF IInv, TypeOK, Goto, Respond, store, local, history
<1>1. CASE Scan(t)
  <2> USE <1>1 DEF Scan
  <2>1. TypeOK'
    <3>1. CASE Respond(t, "RuntimeError")
      BY <3>1, RespondTyped DEF Responses, Exceptions
    <3>2. CASE ~Respond(t, "RuntimeError")
      BY <3>2 DEF Labels, Expired
    <3> QED
      BY <3>1, <3>2
  <2>2. (ScansInPast /\ FreshIsAbsent /\ SweptClean)'
    BY DEF ScansInPast, FreshIsAbsent, SweptClean
  <2>3. (LiveIsWhole /\ NoSilentLeak)'
    BY DEF LiveIsWhole, NoSilentLeak, Writing
  <2>4. (Writing /\ Popping /\ Sending)'
    <3>1. Writing'
      <4>1. UNCHANGED <<disk, used, published>>
        OBVIOUS
      <4>2. \A u \in Threads : pc'[u] \in {"write", "register"} => pc'[u] = pc[u] /\ cur'[u] = cur[u]
        OBVIOUS
      <4> HIDE <1>1 DEF Scan, TypeOK, Goto, Respond
      <4> QED
        BY <4>1, <4>2 DEF Writing
    <3>2. Popping'
      BY DEF Popping
    <3>3. Sending'
      BY DEF Sending, Sweeping
    <3> QED
      BY <3>1, <3>2, <3>3
  <2>5. (Scanning /\ Sweeping)'
    BY DEF Scanning, Sweeping, Expired
  <2> QED
    BY <2>1, <2>2, <2>3, <2>4, <2>5
<1>2. CASE Unlink(t)
  <2> USE <1>2 DEF Unlink
  <2>1. TypeOK'
    <3>1. PICK id \in doomed[t] :
            \/ /\ disk' = [disk EXCEPT ![id] = "absent"]
               /\ cur' = [cur EXCEPT ![t] = id]
               /\ pc' = [pc EXCEPT ![t] = "pop"]
               /\ UNCHANGED <<exports, req, scanAt, seen, doomed, resp>>
            \/ Respond(t, "KeyError") /\ UNCHANGED <<exports, disk>>
      OBVIOUS
    <3>2. id \in Ids
      OBVIOUS
    <3> QED
      BY NoRequestTyped DEF Labels, Responses, Exceptions
  <2>2. (ScansInPast /\ FreshIsAbsent /\ SweptClean)'
    BY DEF ScansInPast, FreshIsAbsent, SweptClean, Writing
  <2>3. (LiveIsWhole /\ NoSilentLeak)'
    BY DEF LiveIsWhole, NoSilentLeak, Popping, Sweeping
  <2>4. (Writing /\ Popping /\ Sending)'
    <3>1. Writing'
      BY DEF Writing
    <3>2. Popping'
      BY DEF Popping, Sweeping
    <3>3. Sending'
      BY DEF Sending, Sweeping, FreshIsAbsent
    <3> QED
      BY <3>1, <3>2, <3>3
  <2>5. (Scanning /\ Sweeping)'
    BY DEF Scanning, Sweeping
  <2> QED
    BY <2>1, <2>2, <2>3, <2>4, <2>5
<1>3. CASE Pop(t)
  <2> USE <1>3 DEF Pop
  <2>1. TypeOK'
    BY DEF Labels
  <2>2. (ScansInPast /\ FreshIsAbsent /\ SweptClean)'
    BY DEF ScansInPast, FreshIsAbsent, SweptClean
  <2>3. (LiveIsWhole /\ NoSilentLeak)'
    BY DEF LiveIsWhole, NoSilentLeak, Popping
  <2>4. (Writing /\ Popping /\ Sending)'
    BY DEF Writing, Popping, Sending
  <2>5. (Scanning /\ Sweeping)'
    BY DEF Scanning, Sweeping
  <2> QED
    BY <2>1, <2>2, <2>3, <2>4, <2>5
<1>4. CASE Swept(t)
  <2> USE <1>4 DEF Swept
  <2>1. TypeOK'
    BY DEF Labels
  <2>2. (ScansInPast /\ FreshIsAbsent /\ SweptClean)'
    BY DEF ScansInPast, FreshIsAbsent, SweptClean, Sweeping
  <2>3. (LiveIsWhole /\ NoSilentLeak)'
    BY DEF LiveIsWhole, NoSilentLeak
  <2>4. (Writing /\ Popping /\ Sending)'
    BY DEF Writing, Popping, Sending
  <2>5. (Scanning /\ Sweeping)'
    BY DEF Scanning, Sweeping
  <2> QED
    BY <2>1, <2>2, <2>3, <2>4, <2>5
<1>5. CASE Create(t)
  <2> USE <1>5 DEF Create
  <2>1. TypeOK'
    <3>1. PICK id \in Ids \ used :
            /\ used' = used \cup {id}
            /\ \/ /\ disk' = [disk EXCEPT ![id] = "partial"]
                  /\ cur' = [cur EXCEPT ![t] = id]
                  /\ pc' = [pc EXCEPT ![t] = "write"]
                  /\ UNCHANGED <<req, scanAt, seen, doomed, resp>>
               \/ Respond(t, "OSError") /\ UNCHANGED disk
      OBVIOUS
    <3>2. CASE Respond(t, "OSError") /\ UNCHANGED disk
      BY <3>1, <3>2, RespondTyped DEF Responses, Exceptions
    <3>3. CASE cur' = [cur EXCEPT ![t] = id] /\ ~Respond(t, "OSError")
      BY <3>1, <3>3 DEF Labels
    <3> QED
      BY <3>1, <3>2, <3>3
  <2>2. (ScansInPast /\ FreshIsAbsent /\ SweptClean)'
    BY DEF ScansInPast, FreshIsAbsent, SweptClean, Popping
  <2>3. (LiveIsWhole /\ NoSilentLeak)'
    BY DEF LiveIsWhole, NoSilentLeak, Writing
  <2>4. (Writing /\ Popping /\ Sending)'
    <3>1. Writing'
      BY DEF Writing, FreshIsAbsent
    <3>2. Popping'
      BY DEF Popping, Sweeping, Writing
    <3>3. Sending'
      BY DEF Sending, Writing
    <3> QED
      BY <3>1, <3>2, <3>3
  <2>5. (Scanning /\ Sweeping)'
    BY DEF Scanning, Sweeping
  <2> QED
    BY <2>1, <2>2, <2>3, <2>4, <2>5
<1>6. CASE Write(t)
  <2> USE <1>6 DEF Write
  <2>1. TypeOK'
    <3>1. CASE Respond(t, "OSError")
      <4>1. leaked' \subseteq used'
        BY DEF Writing
      <4> QED
        BY <3>1, <4>1, RespondTyped DEF Responses, Exceptions
    <3>2. CASE ~Respond(t, "OSError")
      BY <3>2 DEF Labels, Writing
    <3> QED
      BY <3>1, <3>2
  <2>2. (ScansInPast /\ FreshIsAbsent /\ SweptClean)'
    BY DEF ScansInPast, FreshIsAbsent, SweptClean, Writing, Popping, Sweeping
  <2>3. (LiveIsWhole /\ NoSilentLeak)'
    BY DEF LiveIsWhole, NoSilentLeak, Popping
  <2>4. (Writing /\ Popping /\ Sending)'
    <3>1. Writing'
      BY DEF Writing
    <3>2. Popping'
      BY DEF Popping, Sweeping, Writing
    <3>3. Sending'
      BY DEF Sending, Writing
    <3> QED
      BY <3>1, <3>2, <3>3
  <2>5. (Scanning /\ Sweeping)'
    BY DEF Scanning, Sweeping
  <2> QED
    BY <2>1, <2>2, <2>3, <2>4, <2>5
<1>7. CASE Register(t)
  <2> USE <1>7 DEF Register
  <2>1. TypeOK'
    BY DEF Labels, Writing
  <2>2. (ScansInPast /\ FreshIsAbsent /\ SweptClean)'
    BY DEF ScansInPast, FreshIsAbsent, SweptClean, Writing
  <2>3. (LiveIsWhole /\ NoSilentLeak)'
    BY DEF LiveIsWhole, NoSilentLeak, Writing
  <2>4. (Writing /\ Popping /\ Sending)'
    BY DEF Writing, Popping, Sending
  <2>5. (Scanning /\ Sweeping)'
    BY DEF Scanning, Sweeping, Writing, ScansInPast
  <2> QED
    BY <2>1, <2>2, <2>3, <2>4, <2>5
<1>8. CASE ReplyLink(t)
  <2> USE <1>8 DEF ReplyLink
  <2>1. TypeOK'
    BY NoRequestTyped DEF Labels, Responses
  <2>2. (ScansInPast /\ FreshIsAbsent /\ SweptClean)'
    BY DEF ScansInPast, FreshIsAbsent, SweptClean
  <2>3. (LiveIsWhole /\ NoSilentLeak)'
    BY DEF LiveIsWhole, NoSilentLeak
  <2>4. (Writing /\ Popping /\ Sending)'
    BY DEF Writing, Popping, Sending
  <2>5. (Scanning /\ Sweeping)'
    BY DEF Scanning, Sweeping
  <2> QED
    BY <2>1, <2>2, <2>3, <2>4, <2>5
<1>9. CASE Lookup(t)
  <2> USE <1>9 DEF Lookup
  <2>1. TypeOK'
    <3>1. CASE Respond(t, "notfound")
      BY <3>1, RespondTyped DEF Responses, Exceptions
    <3>2. CASE ~Respond(t, "notfound")
      BY <3>2 DEF Labels
    <3> QED
      BY <3>1, <3>2
  <2>2. (ScansInPast /\ FreshIsAbsent /\ SweptClean)'
    BY DEF ScansInPast, FreshIsAbsent, SweptClean
  <2>3. (LiveIsWhole /\ NoSilentLeak)'
    BY DEF LiveIsWhole, NoSilentLeak
  <2>4. (Writing /\ Popping /\ Sending)'
    BY DEF Writing, Popping, Sending, FreshIsAbsent
  <2>5. (Scanning /\ Sweeping)'
    BY DEF Scanning, Sweeping
  <2> QED
    BY <2>1, <2>2, <2>3, <2>4, <2>5
<1>10. CASE Send(t)
  <2> USE <1>10 DEF Send
  <2>1. TypeOK'
    <3>1. CASE Respond(t, "served")
      <4>1. served' \subseteq published'
        BY DEF Sending
      <4> QED
        BY <3>1, <4>1, RespondTyped DEF Responses, Exceptions
    <3>2. CASE Respond(t, "FileNotFoundError") /\ UNCHANGED served
      BY <3>2, RespondTyped DEF Responses, Exceptions
    <3> QED
      BY <3>1, <3>2
  <2>2. (ScansInPast /\ FreshIsAbsent /\ SweptClean)'
    BY DEF ScansInPast, FreshIsAbsent, SweptClean
  <2>3. (LiveIsWhole /\ NoSilentLeak)'
    BY DEF LiveIsWhole, NoSilentLeak, Writing
  <2>4. (Writing /\ Popping /\ Sending)'
    BY DEF Writing, Popping, Sending
  <2>5. (Scanning /\ Sweeping)'
    BY DEF Scanning, Sweeping
  <2> QED
    BY <2>1, <2>2, <2>3, <2>4, <2>5
<1> QED
  BY <1>1, <1>2, <1>3, <1>4, <1>5, <1>6, <1>7, <1>8, <1>9, <1>10 DEF Step

LEMMA BeginIInv ==
  ASSUME IInv, NEW t \in Threads, NEW r \in Requests, Begin(t, r)
  PROVE  IInv'
<1> USE DEF IInv, TypeOK, Begin, Goto, store, history
<1>1. TypeOK'
  BY DEF Labels
<1>2. (LiveIsWhole /\ NoSilentLeak /\ SweptClean)'
  BY DEF LiveIsWhole, NoSilentLeak, SweptClean
<1>3. (ScansInPast /\ FreshIsAbsent /\ Writing)'
  BY DEF ScansInPast, FreshIsAbsent, Writing
<1>4. (Scanning /\ Sweeping /\ Popping /\ Sending)'
  BY DEF Scanning, Sweeping, Popping, Sending
<1> QED
  BY <1>1, <1>2, <1>3, <1>4

LEMMA TickIInv == ASSUME IInv, Tick PROVE IInv'
<1> USE ExportStoreAssumption DEF IInv, TypeOK, Tick, store, local, history
<1>1. TypeOK'
  OBVIOUS
<1>2. (LiveIsWhole /\ NoSilentLeak /\ SweptClean)'
  BY DEF LiveIsWhole, NoSilentLeak, SweptClean
<1>3. (ScansInPast /\ FreshIsAbsent /\ Writing)'
  BY DEF ScansInPast, FreshIsAbsent, Writing
<1>4. (Scanning /\ Sweeping /\ Popping /\ Sending)'
  BY DEF Scanning, Sweeping, Popping, Sending
<1> QED
  BY <1>1, <1>2, <1>3, <1>4

\* A restart forgets every entry, so it must account for every file.
LEMMA RestartIInv == ASSUME IInv, Restart PROVE IInv'
<1> USE ExportStoreAssumption DEF IInv, TypeOK, Restart
<1>1. TypeOK'
  BY NoRequestTyped DEF Labels, Responses, FreshIsAbsent
<1>2. (LiveIsWhole /\ NoSilentLeak /\ SweptClean)'
  BY DEF LiveIsWhole, NoSilentLeak, SweptClean
<1>3. (ScansInPast /\ FreshIsAbsent /\ Writing)'
  BY DEF ScansInPast, FreshIsAbsent, Writing
<1>4. (Scanning /\ Sweeping /\ Popping /\ Sending)'
  BY DEF Scanning, Sweeping, Popping, Sending
<1> QED
  BY <1>1, <1>2, <1>3, <1>4

LEMMA NextIInv == IInv /\ [Next]_vars => IInv'
<1> SUFFICES ASSUME IInv, [Next]_vars PROVE IInv'
  OBVIOUS
<1>1. ASSUME NEW t \in Threads, BeginExport(t) PROVE IInv'
  <2>1. [op |-> "export", id |-> NoId, token |-> FALSE] \in Requests
    BY DEF Requests
  <2> QED
    BY <1>1, <2>1, BeginIInv DEF BeginExport
<1>2. ASSUME NEW t \in Threads, NEW id \in Ids, NEW token \in BOOLEAN,
             BeginDownload(t, id, token)
      PROVE  IInv'
  <2>1. [op |-> "download", id |-> id, token |-> token] \in Requests
    BY DEF Requests
  <2> QED
    BY <1>2, <2>1, BeginIInv DEF BeginDownload
<1>3. CASE UNCHANGED vars
  BY <1>3 DEF vars, store, local, history, IInv, TypeOK, LiveIsWhole,
     NoSilentLeak, SweptClean, ScansInPast, FreshIsAbsent, Writing, Scanning,
     Sweeping, Popping, Sending
<1> QED
  BY <1>1, <1>2, <1>3, StepIInv, TickIInv, RestartIInv DEF Next

--------------------------------------------------------------------------------
\* Every reachable state satisfies the invariant.
THEOREM Safety == Spec => []IInv
BY InitIInv, NextIInv, PTL DEF Spec

\* Every variable of the gateway's export table keeps its type.
THEOREM TypeCorrect == Spec => []TypeOK
<1>1. IInv => TypeOK
  BY DEF IInv
<1> QED
  BY <1>1, Safety, PTL

\* However many handlers interleave, an entry of _exports names a complete file
\* until the sweep that is about to drop it has unlinked that file.
THEOREM EntriesAreWhole == Spec => []LiveIsWhole
<1>1. IInv => LiveIsWhole
  BY DEF IInv
<1> QED
  BY <1>1, Safety, PTL

\* Only a restart or a failed write leaves a file behind without its entry.
THEOREM FilesAreAccounted == Spec => []NoSilentLeak
<1>1. IInv => NoSilentLeak
  BY DEF IInv
<1> QED
  BY <1>1, Safety, PTL

\* After cleanup_exports() presence in the table implies "not expired when the
\* request came in", for every interleaving with other sweeps.
THEOREM SweepIsComplete == Spec => []SweptClean
<1>1. IInv => SweptClean
  BY DEF IInv
<1> QED
  BY <1>1, Safety, PTL

--------------------------------------------------------------------------------
(* The export table implements ExportLinks.                                   *)

LEMMA LinkInit == Init => Links!Init
BY DEF Init, Links!Init

LEMMA LinkQuiet ==
  ASSUME UNCHANGED <<now, exports, expires, published, served>>
  PROVE  UNCHANGED Links!vars
BY DEF Links!vars

\* The entry leaves the table only after its deadline: Pop is an Expire, or
\* nothing when another handler has popped the same key.
LEMMA PopExpires ==
  ASSUME IInv, NEW t \in Threads, Pop(t)
  PROVE  [Links!Next]_(Links!vars)
<1> USE DEF Pop, history
<1>1. PICK id \in Ids : id = cur[t] /\ id \in published /\ expires[id] < now
  BY DEF IInv, TypeOK, Sweeping, Popping, ScansInPast
<1>2. CASE id \in exports
  <2>1. Links!Expire(id)
    BY <1>1, <1>2 DEF Links!Expire
  <2> QED
    BY <2>1 DEF Links!Next
<1>3. CASE id \notin exports
  BY <1>1, <1>3, LinkQuiet
<1> QED
  BY <1>2, <1>3

LEMMA RegisterPublishes ==
  ASSUME IInv, NEW t \in Threads, Register(t)
  PROVE  Links!Next
<1>1. PICK id \in Ids : id = cur[t] /\ id \notin published
  BY DEF Register, IInv, TypeOK, Writing
<1>2. Links!Publish(id)
  BY <1>1 DEF Links!Publish, Register, IInv, TypeOK
<1> QED
  BY <1>2 DEF Links!Next

\* A file can be opened only while its entry is still there.
LEMMA SendHands ==
  ASSUME IInv, NEW t \in Threads, Send(t)
  PROVE  [Links!Next]_(Links!vars)
<1> USE DEF IInv, TypeOK, Send, Respond, Sending, store
<1>1. CASE disk[req[t].id] # "absent"
  <2>1. req[t].id \in Ids /\ req[t].id \in exports /\ req[t].id \in published
    BY <1>1
  <2>2. Links!Hand(req[t].id)
    BY <1>1, <2>1 DEF Links!Hand
  <2> QED
    BY <2>1, <2>2 DEF Links!Next
<1>2. CASE disk[req[t].id] = "absent"
  BY <1>2, LinkQuiet
<1> QED
  BY <1>1, <1>2

LEMMA LinkStep == IInv /\ [Next]_vars => [Links!Next]_(Links!vars)
<1> SUFFICES ASSUME IInv, [Next]_vars PROVE [Links!Next]_(Links!vars)
  OBVIOUS
<1> USE DEF store, local, history
<1>1. ASSUME NEW t \in Threads, Step(t) PROVE [Links!Next]_(Links!vars)
  <2>1. CASE Scan(t) \/ Unlink(t) \/ Swept(t) \/ Create(t) \/ Write(t)
             \/ ReplyLink(t) \/ Lookup(t)
    BY <2>1, LinkQuiet
       DEF Scan, Unlink, Swept, Create, Write, ReplyLink, Lookup
  <2> QED
    BY <1>1, <2>1, PopExpires, RegisterPublishes, SendHands DEF Step
<1>2. ASSUME NEW t \in Threads, NEW r, Begin(t, r) PROVE UNCHANGED Links!vars
  BY <1>2, LinkQuiet DEF Begin
<1>3. CASE Tick
  <2>1. Links!Tick
    BY <1>3 DEF Tick, Links!Tick
  <2> QED
    BY <2>1 DEF Links!Next
<1>4. CASE Restart
  <2>1. Links!Restart
    BY <1>4 DEF Restart, Links!Restart
  <2> QED
    BY <2>1 DEF Links!Next
<1>5. CASE UNCHANGED vars
  BY <1>5, LinkQuiet DEF vars
<1> QED
  BY <1>1, <1>2, <1>3, <1>4, <1>5 DEF Next, BeginExport, BeginDownload

\* query() and download() keep the promise of ExportLinks whatever the number of
\* handler threads: a link dies only after its deadline or by a restart, is
\* published once, and hands out its file only while it is live.
THEOREM Implements == Spec => LinksSpec
BY LinkInit, LinkStep, Safety, PTL DEF Spec, LinksSpec, Links!Spec

--------------------------------------------------------------------------------
(* One synchronous worker, as the Dockerfile starts it.                       *)

OneWorker == \A t, u \in Threads : t = u

\* Nobody changes the table between two steps of the only handler.
AloneAtTable ==
  \A t \in Threads :
    /\ pc[t] = "scan" => seen[t] = exports
    /\ pc[t] \in {"sweep", "pop"} => doomed[t] \subseteq exports
    /\ pc[t] = "send" => req[t].id \in exports

\* An entry that is gone was lost in a restart or was already expired when the
\* request now being served came in.
GoneForAReason ==
  \A id \in published \ exports :
    id \notin leaked =>
      /\ expires[id] < now
      /\ \A t \in Threads : pc[t] # "idle" => expires[id] < scanAt[t]

SerialInv == IInv /\ NoRaceErrors /\ AloneAtTable /\ GoneForAReason

LEMMA InitSerial == Init => SerialInv
BY InitIInv DEF Init, SerialInv, NoRaceErrors, AloneAtTable, GoneForAReason

LEMMA StepSerial ==
  ASSUME OneWorker, SerialInv, NEW t \in Threads, Step(t)
  PROVE  SerialInv'
<1> USE DEF SerialInv, OneWorker, Goto, Respond, store, local, history
<1>1. IInv'
  BY StepIInv
<1>2. (AloneAtTable /\ GoneForAReason)'
  <2>1. CASE Scan(t)
    BY <2>1, ExportStoreAssumption
       DEF Scan, AloneAtTable, GoneForAReason, IInv, TypeOK, Expired
  <2>2. CASE Unlink(t)
    BY <2>2, ExportStoreAssumption
       DEF Unlink, AloneAtTable, GoneForAReason, IInv, TypeOK, Expired
  <2>3. CASE Pop(t)
    BY <2>3, ExportStoreAssumption
       DEF Pop, AloneAtTable, GoneForAReason, IInv, TypeOK, Expired, Sweeping, Popping, ScansInPast
  <2>4. CASE Swept(t)
    BY <2>4, ExportStoreAssumption
       DEF Swept, AloneAtTable, GoneForAReason, IInv, TypeOK, Expired
  <2>5. CASE Create(t)
    BY <2>5, ExportStoreAssumption
       DEF Create, AloneAtTable, GoneForAReason, IInv, TypeOK, Expired
  <2>6. CASE Write(t)
    BY <2>6, ExportStoreAssumption
       DEF Write, AloneAtTable, GoneForAReason, IInv, TypeOK, Expired, Writing
  <2>7. CASE Register(t)
    BY <2>7, ExportStoreAssumption
       DEF Register, AloneAtTable, GoneForAReason, IInv, TypeOK, Expired, Writing
  <2>8. CASE ReplyLink(t)
    BY <2>8, ExportStoreAssumption
       DEF ReplyLink, AloneAtTable, GoneForAReason, IInv, TypeOK, Expired
  <2>9. CASE Lookup(t)
    BY <2>9, ExportStoreAssumption
       DEF Lookup, AloneAtTable, GoneForAReason, IInv, TypeOK, Expired
  <2>10. CASE Send(t)
    BY <2>10, ExportStoreAssumption
       DEF Send, AloneAtTable, GoneForAReason, IInv, TypeOK, Expired
  <2> QED
    BY <2>1, <2>2, <2>3, <2>4, <2>5, <2>6, <2>7, <2>8, <2>9, <2>10 DEF Step
<1>3. NoRaceErrors'
  <2>1. CASE Scan(t)
    BY <2>1 DEF Scan, NoRaceErrors, AloneAtTable, IInv, TypeOK
  <2>2. CASE Unlink(t)
    BY <2>2 DEF Unlink, NoRaceErrors, AloneAtTable, IInv, TypeOK
  <2>3. CASE Pop(t)
    BY <2>3 DEF Pop, NoRaceErrors, AloneAtTable, IInv, TypeOK
  <2>4. CASE Swept(t)
    BY <2>4 DEF Swept, NoRaceErrors, AloneAtTable, IInv, TypeOK
  <2>5. CASE Create(t)
    BY <2>5 DEF Create, NoRaceErrors, AloneAtTable, IInv, TypeOK
  <2>6. CASE Write(t)
    BY <2>6 DEF Write, NoRaceErrors, AloneAtTable, IInv, TypeOK
  <2>7. CASE Register(t)
    BY <2>7 DEF Register, NoRaceErrors, AloneAtTable, IInv, TypeOK
  <2>8. CASE ReplyLink(t)
    BY <2>8 DEF ReplyLink, NoRaceErrors, AloneAtTable, IInv, TypeOK
  <2>9. CASE Lookup(t)
    BY <2>9 DEF Lookup, NoRaceErrors, AloneAtTable, IInv, TypeOK
  <2>10. CASE Send(t)
    BY <2>10 DEF Send, NoRaceErrors, AloneAtTable, IInv, TypeOK, LiveIsWhole
  <2> QED
    BY <2>1, <2>2, <2>3, <2>4, <2>5, <2>6, <2>7, <2>8, <2>9, <2>10 DEF Step
<1> QED
  BY <1>1, <1>2, <1>3

LEMMA NextSerial == OneWorker /\ SerialInv /\ [Next]_vars => SerialInv'
<1> SUFFICES ASSUME OneWorker, SerialInv, [Next]_vars PROVE SerialInv'
  OBVIOUS
<1> USE DEF SerialInv
<1>1. IInv'
  BY NextIInv
<1>2. ASSUME NEW t \in Threads, NEW r, Begin(t, r)
      PROVE  (NoRaceErrors /\ AloneAtTable /\ GoneForAReason)'
  BY <1>2 DEF Begin, Goto, store, history, OneWorker, IInv, TypeOK,
     NoRaceErrors, AloneAtTable, GoneForAReason
<1>3. CASE Tick
  BY <1>1, <1>3 DEF Tick, store, local, history, IInv, TypeOK,
     NoRaceErrors, AloneAtTable, GoneForAReason
<1>4. CASE Restart
  <2>1. (NoRaceErrors /\ AloneAtTable)'
    BY <1>4 DEF Restart, NoRaceErrors, AloneAtTable
  <2>2. GoneForAReason'
    BY <1>4 DEF Restart, GoneForAReason, IInv, TypeOK, LiveIsWhole, Popping,
       Sweeping, ScansInPast
  <2> QED
    BY <1>1, <2>1, <2>2
<1>5. CASE UNCHANGED vars
  BY <1>1, <1>5 DEF vars, store, local, history, NoRaceErrors, AloneAtTable,
     GoneForAReason
<1> QED
  BY <1>1, <1>2, <1>3, <1>4, <1>5, StepSerial DEF Next, BeginExport, BeginDownload

\* With one worker, no request ever ends in a KeyError, a RuntimeError of the
\* scan or a FileNotFoundError of send_file(): the unguarded accesses of
\* cleanup_exports() and download() are safe exactly because of `-w 1`.
THEOREM WorkerNeverRaces == ASSUME OneWorker PROVE Spec => []NoRaceErrors
<1>1. SerialInv /\ [Next]_vars => SerialInv'
  BY NextSerial
<1>2. SerialInv => NoRaceErrors
  BY DEF SerialInv
<1> QED
  BY <1>1, <1>2, InitSerial, PTL DEF Spec

\* With one worker a download whose link is genuine, unexpired on arrival and not
\* lost in a restart is never answered "not found".
THEOREM ValidLinkIsFound == ASSUME OneWorker PROVE Spec => NotFoundIsJustified
<1> DEFINE Justified ==
      \A t \in Threads :
        pc[t] = "lookup" /\ resp'[t] = "notfound" /\ pc'[t] = "idle"
          /\ restarts' = restarts =>
          \/ ~req[t].token
          \/ req[t].id \notin published
          \/ expires[req[t].id] < scanAt[t]
          \/ req[t].id \in leaked
<1>1. SerialInv /\ [Next]_vars => SerialInv'
  BY NextSerial
<1>2. SerialInv /\ [Next]_vars => [Justified]_vars
  <2> SUFFICES ASSUME SerialInv, [Next]_vars, NEW t \in Threads,
                      pc[t] = "lookup", pc'[t] = "idle", restarts' = restarts,
                      req[t].token, req[t].id \in published,
                      ~(expires[req[t].id] < scanAt[t]), req[t].id \notin leaked,
                      resp'[t] = "notfound"
               PROVE  FALSE
    OBVIOUS
  <2> USE DEF SerialInv, IInv, TypeOK
  <2>1. req[t].id \in exports
    BY DEF GoneForAReason
  <2>2. ~Restart
    BY DEF Restart
  <2>3. ~(Tick \/ UNCHANGED vars)
    BY DEF Tick, vars
  <2>4. \A u \in Threads : \A r : ~Begin(u, r)
    BY DEF Begin, Goto, OneWorker
  <2>5. Lookup(t)
    BY <2>2, <2>3, <2>4 DEF Next, BeginExport, BeginDownload, OneWorker, Step,
       Scan, Unlink, Pop, Swept, Create, Write, Register, ReplyLink, Send
  <2> QED
    BY <2>1, <2>5 DEF Lookup, Goto
<1> QED
  BY <1>1, <1>2, InitSerial, PTL DEF Spec, NotFoundIsJustified
================================================================================
