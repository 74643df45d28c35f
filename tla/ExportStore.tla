------------------------------ MODULE ExportStore ------------------------------
(***************************************************************************)
(* The export table of query-gateway/app.py: the in-memory dictionary      *)
(* _exports, the files under exports/, the publishing half of query(), the *)
(* download() handler and the cleanup_exports() sweep both of them start   *)
(* with.  Handlers run in Threads: one under the gunicorn command of the   *)
(* Dockerfile (-w 1, synchronous worker), several under app.run().  A      *)
(* handler is cut where another thread, the clock or a restart can be seen *)
(* to come in between.                                                     *)
(***************************************************************************)
EXTENDS Naturals, FiniteSets

CONSTANTS
  Threads,     \* handler threads of the one gateway process
  Ids,         \* the uuid4 identifiers the process can draw (a bound)
  Ttl,         \* lifetime of an export, 15 * 60 in the code
  MaxTime,     \* bound on the clock
  MaxRestarts, \* bound on process restarts
  NoId         \* "no export"

ASSUME ExportStoreAssumption ==
  /\ NoId \notin Ids
  /\ Ttl \in Nat
  /\ MaxTime \in Nat
  /\ MaxRestarts \in Nat

VARIABLES
  now,         \* time.time()
  restarts,    \* restarts so far
  exports,     \* keys of _exports
  expires,     \* the "expires" field; kept after the entry is popped
  disk,        \* state of the file exports/<id>.xlsx or .png
  used,        \* identifiers drawn so far: uuid4 does not repeat
  pc,          \* where each handler is
  req,         \* the request a handler serves
  scanAt,      \* `now` of its cleanup_exports()
  seen,        \* keys of _exports when its scan began
  doomed,      \* what is left of its list `expired`
  cur,         \* export it is sweeping or publishing
  resp,        \* its last response, or the exception that ended it
  published,   \* history: identifiers ever entered in _exports
  served,      \* history: identifiers whose file was sent
  leaked       \* history: files left behind by a restart or a failed write

store == <<exports, expires, disk, used>>
local == <<req, scanAt, seen, doomed, cur>>
history == <<published, served, leaked>>
vars == <<now, restarts, store, pc, local, resp, history>>

Exceptions == {"KeyError", "RuntimeError", "FileNotFoundError", "OSError"}
Responses == Exceptions \cup {"none", "link", "served", "notfound"}

\* What a thread that serves nobody is asked for.
NoRequest == [op |-> "none", id |-> NoId, token |-> FALSE]
Requests ==
  {NoRequest, [op |-> "export", id |-> NoId, token |-> FALSE]}
    \cup [op : {"download"}, id : Ids, token : BOOLEAN]

--------------------------------------------------------------------------------
Init ==
  /\ now = 0
  /\ restarts = 0
  /\ exports = {}
  /\ expires = [id \in Ids |-> 0]
  /\ disk = [id \in Ids |-> "absent"]
  /\ used = {}
  /\ pc = [t \in Threads |-> "idle"]
  /\ req = [t \in Threads |-> NoRequest]
  /\ scanAt = [t \in Threads |-> 0]
  /\ seen = [t \in Threads |-> {}]
  /\ doomed = [t \in Threads |-> {}]
  /\ cur = [t \in Threads |-> NoId]
  /\ resp = [t \in Threads |-> "none"]
  /\ published = {}
  /\ served = {}
  /\ leaked = {}

Goto(t, label) == pc' = [pc EXCEPT ![t] = label]

\* The handler returns, or an exception leaves it: query() turns one into the
\* text of a 200 response, download() into a 500.
Respond(t, r) ==
  /\ pc' = [pc EXCEPT ![t] = "idle"]
  /\ resp' = [resp EXCEPT ![t] = r]
  /\ req' = [req EXCEPT ![t] = NoRequest]
  /\ scanAt' = [scanAt EXCEPT ![t] = 0]
  /\ seen' = [seen EXCEPT ![t] = {}]
  /\ doomed' = [doomed EXCEPT ![t] = {}]
  /\ cur' = [cur EXCEPT ![t] = NoId]

\* A request that needs the export table reaches cleanup_exports(), which
\* reads the clock and starts to iterate over the dictionary.
Begin(t, r) ==
  /\ pc[t] = "idle"
  /\ req' = [req EXCEPT ![t] = r]
  /\ scanAt' = [scanAt EXCEPT ![t] = now]
  /\ seen' = [seen EXCEPT ![t] = exports]
  /\ Goto(t, "scan")
  /\ UNCHANGED <<now, restarts, store, doomed, cur, resp, history>>

\* Bound: an export is asked for only while identifiers are left to draw.
BeginExport(t) ==
  /\ LET waiting == {u \in Threads : /\ req[u].op = "export"
                                    /\ pc[u] \in {"scan", "sweep", "pop", "create"}}
     IN  Cardinality(used) + Cardinality(waiting) < Cardinality(Ids)
  /\ Begin(t, [op |-> "export", id |-> NoId, token |-> FALSE])

BeginDownload(t, id, token) ==
  Begin(t, [op |-> "download", id |-> id, token |-> token])

\* Mutants: the sweep spares an entry one instant too long, or takes it at its
\* deadline instead of after it.
BugExpiredLate(S, at) == {id \in S : expires[id] + 1 < at}
BugExpiredEarly(S, at) == {id \in S : expires[id] <= at}

Expired(S, at) == {id \in S : expires[id] < at}

\* The list comprehension over _exports.items(): Python refuses to go on when
\* the dictionary has changed size; entries removed and replaced meanwhile may
\* or may not have been visited.
Scan(t) ==
  /\ pc[t] = "scan"
  /\ \/ /\ Cardinality(exports) # Cardinality(seen[t])
        /\ Respond(t, "RuntimeError")
     \/ /\ Cardinality(exports) = Cardinality(seen[t])
        /\ \E gone \in SUBSET Expired(seen[t] \ exports, scanAt[t]) :
             doomed' = [doomed EXCEPT
               ![t] = Expired(exports \cap seen[t], scanAt[t]) \cup gone]
        /\ Goto(t, "sweep")
        /\ UNCHANGED <<req, scanAt, seen, cur, resp>>
  /\ UNCHANGED <<now, restarts, store, history>>

\* Mutant: the file is left on disk.
BugUnlink(t) ==
  /\ pc[t] = "sweep"
  /\ \E id \in doomed[t] :
       /\ cur' = [cur EXCEPT ![t] = id]
       /\ Goto(t, "pop")
  /\ UNCHANGED <<now, restarts, store, req, scanAt, seen, doomed, resp, history>>

\* One turn of the sweeping loop up to path.unlink(); _exports[key] raises when
\* another thread has popped the key since the scan.
Unlink(t) ==
  /\ pc[t] = "sweep"
  /\ \E id \in doomed[t] :
       \/ /\ id \in exports
          /\ disk' = [disk EXCEPT ![id] = "absent"]
          /\ cur' = [cur EXCEPT ![t] = id]
          /\ Goto(t, "pop")
          /\ UNCHANGED <<exports, req, scanAt, seen, doomed, resp>>
       \/ /\ id \notin exports
          /\ Respond(t, "KeyError")
          /\ UNCHANGED <<exports, disk>>
  /\ UNCHANGED <<now, restarts, expires, used, history>>

\* Mutant: the entry stays in the dictionary.
BugPop(t) ==
  /\ pc[t] = "pop"
  /\ doomed' = [doomed EXCEPT ![t] = doomed[t] \ {cur[t]}]
  /\ cur' = [cur EXCEPT ![t] = NoId]
  /\ Goto(t, "sweep")
  /\ UNCHANGED <<now, restarts, store, req, scanAt, seen, resp, history>>

\* _exports.pop(key, None)
Pop(t) ==
  /\ pc[t] = "pop"
  /\ exports' = exports \ {cur[t]}
  /\ doomed' = [doomed EXCEPT ![t] = doomed[t] \ {cur[t]}]
  /\ cur' = [cur EXCEPT ![t] = NoId]
  /\ Goto(t, "sweep")
  /\ UNCHANGED <<now, restarts, expires, disk, used, req, scanAt, seen, resp, history>>

\* cleanup_exports() returns to its caller.
Swept(t) ==
  /\ pc[t] = "sweep" /\ doomed[t] = {}
  /\ Goto(t, IF req[t].op = "export" THEN "create" ELSE "lookup")
  /\ UNCHANGED <<now, restarts, store, local, resp, history>>

\* A fresh identifier; write_bytes() opens the file, which exists from now on,
\* or cannot open it.
Create(t) ==
  /\ pc[t] = "create"
  /\ \E id \in Ids \ used :
       /\ used' = used \cup {id}
       /\ \/ /\ disk' = [disk EXCEPT ![id] = "partial"]
             /\ cur' = [cur EXCEPT ![t] = id]
             /\ Goto(t, "write")
             /\ UNCHANGED <<req, scanAt, seen, doomed, resp>>
          \/ /\ Respond(t, "OSError")
             /\ UNCHANGED disk
  /\ UNCHANGED <<now, restarts, exports, expires, history>>

\* Mutant: a failed write is not noticed and its file is linked to.
BugWrite(t) ==
  /\ pc[t] = "write"
  /\ \/ disk' = [disk EXCEPT ![cur[t]] = "whole"]
     \/ UNCHANGED disk
  /\ Goto(t, "register")
  /\ UNCHANGED <<now, restarts, exports, expires, used, local, resp, history>>

\* write_bytes() finishes, or fails (disk full) and leaves what it has written.
Write(t) ==
  /\ pc[t] = "write"
  /\ \/ /\ disk' = [disk EXCEPT ![cur[t]] = "whole"]
        /\ Goto(t, "register")
        /\ UNCHANGED <<local, resp, leaked>>
     \/ /\ leaked' = leaked \cup {cur[t]}
        /\ Respond(t, "OSError")
        /\ UNCHANGED disk
  /\ UNCHANGED <<now, restarts, exports, expires, used, published, served>>

\* Mutant: the lifetime is added twice.
BugRegister(t) ==
  /\ pc[t] = "register"
  /\ exports' = exports \cup {cur[t]}
  /\ expires' = [expires EXCEPT ![cur[t]] = now + 2 * Ttl]
  /\ published' = published \cup {cur[t]}
  /\ Goto(t, "reply")
  /\ UNCHANGED <<now, restarts, disk, used, local, resp, served, leaked>>

\* The entry is made, with its own reading of the clock.
Register(t) ==
  /\ pc[t] = "register"
  /\ exports' = exports \cup {cur[t]}
  /\ expires' = [expires EXCEPT ![cur[t]] = now + Ttl]
  /\ published' = published \cup {cur[t]}
  /\ Goto(t, "reply")
  /\ UNCHANGED <<now, restarts, disk, used, local, resp, served, leaked>>

\* The answer goes out with the [[DIFY_EXCEL:..]] or [[DIFY_CHART:..]] mark.
ReplyLink(t) ==
  /\ pc[t] = "reply"
  /\ Respond(t, "link")
  /\ UNCHANGED <<now, restarts, store, history>>

\* download(): the entry must exist and the token in the link must be its token.
Lookup(t) ==
  /\ pc[t] = "lookup"
  /\ \/ /\ req[t].id \in exports /\ req[t].token
        /\ Goto(t, "send")
        /\ UNCHANGED <<local, resp>>
     \/ /\ req[t].id \notin exports \/ ~req[t].token
        /\ Respond(t, "notfound")
  /\ UNCHANGED <<now, restarts, store, history>>

\* send_file() opens the path that the entry named.
Send(t) ==
  /\ pc[t] = "send"
  /\ \/ /\ disk[req[t].id] # "absent"
        /\ served' = served \cup {req[t].id}
        /\ Respond(t, "served")
     \/ /\ disk[req[t].id] = "absent"
        /\ Respond(t, "FileNotFoundError")
        /\ UNCHANGED served
  /\ UNCHANGED <<now, restarts, store, published, leaked>>

Tick ==
  /\ now < MaxTime
  /\ now' = now + 1
  /\ UNCHANGED <<restarts, store, pc, local, resp, history>>

\* The worker is killed (gunicorn --timeout 60) or its container restarts: the
\* dictionary and the handlers are gone, the files are not.
Restart ==
  /\ restarts < MaxRestarts
  /\ restarts' = restarts + 1
  /\ exports' = {}
  /\ pc' = [t \in Threads |-> "idle"]
  /\ req' = [t \in Threads |-> NoRequest]
  /\ scanAt' = [t \in Threads |-> 0]
  /\ seen' = [t \in Threads |-> {}]
  /\ doomed' = [t \in Threads |-> {}]
  /\ cur' = [t \in Threads |-> NoId]
  /\ resp' = [t \in Threads |-> "none"]
  /\ leaked' = leaked \cup {id \in Ids : disk[id] # "absent"}
  /\ UNCHANGED <<now, expires, disk, used, published, served>>

\* Everything a handler does once its request has come in.
Step(t) ==
  \/ Scan(t) \/ Unlink(t) \/ Pop(t) \/ Swept(t)
  \/ Create(t) \/ Write(t) \/ Register(t) \/ ReplyLink(t)
  \/ Lookup(t) \/ Send(t)

Next ==
  \/ \E t \in Threads :
       \/ BeginExport(t)
       \/ \E id \in Ids, token \in BOOLEAN : BeginDownload(t, id, token)
       \/ Step(t)
  \/ Tick
  \/ Restart

Spec == Init /\ [][Next]_vars

\* A handler that has been given a request keeps running.
FairSpec == Spec /\ \A t \in Threads : WF_vars(Step(t))
--------------------------------------------------------------------------------
Labels == {"idle", "scan", "sweep", "pop", "create", "write", "register",
           "reply", "lookup", "send"}

\* Types, and the shape of the table: only entered identifiers have an expiry,
\* and none lies more than one lifetime ahead of the clock's bound.
TypeOK ==
  /\ now \in 0..MaxTime
  /\ restarts \in 0..MaxRestarts
  /\ exports \subseteq published
  /\ published \subseteq used
  /\ expires \in [Ids -> 0..(MaxTime + Ttl)]
  /\ disk \in [Ids -> {"absent", "partial", "whole"}]
  /\ used \subseteq Ids
  /\ pc \in [Threads -> Labels]
  /\ req \in [Threads -> Requests]
  /\ scanAt \in [Threads -> 0..MaxTime]
  /\ seen \in [Threads -> SUBSET Ids]
  /\ doomed \in [Threads -> SUBSET Ids]
  /\ cur \in [Threads -> Ids \cup {NoId}]
  /\ resp \in [Threads -> Responses]
  /\ served \subseteq published
  /\ leaked \subseteq used

\* The file behind an entry of _exports is complete, or a sweeping handler has
\* just unlinked it and is about to pop the entry: no other handler can leave a
\* link that names a missing or half-written file.
LiveIsWhole ==
  \A id \in exports :
    \/ disk[id] = "whole"
    \/ disk[id] = "absent" /\ \E t \in Threads : pc[t] = "pop" /\ cur[t] = id

\* A file under exports/ has an entry, is being written, or was orphaned by a
\* restart or a failed write: the sweep itself never loses track of a file.
NoSilentLeak ==
  \A id \in Ids :
    disk[id] # "absent" =>
      \/ id \in exports
      \/ id \in leaked
      \/ \E t \in Threads : pc[t] \in {"write", "register"} /\ cur[t] = id

\* Past cleanup_exports() a handler never meets an entry that had expired when
\* its sweep began, whatever the other handlers did meanwhile: download() may
\* rely on presence in _exports instead of comparing "expires" itself.
SweptClean ==
  \A t \in Threads :
    pc[t] \in {"create", "write", "register", "reply", "lookup", "send"} =>
      \A id \in exports : expires[id] >= scanAt[t]

\* What query() and download() do together is what ExportLinks promises.
Links == INSTANCE ExportLinks WITH
  clock    <- now,
  link     <- [id \in Ids |-> IF id \notin published THEN "none"
                             ELSE IF id \in exports THEN "live" ELSE "dead"],
  deadline <- expires,
  handed   <- served
LinksSpec == Links!Spec

\* Under the single synchronous worker no handler dies of the table's own
\* bookkeeping: the scan's dictionary never changes size, a swept key is still
\* there, and a file that was looked up can be opened.
NoRaceErrors ==
  \A t \in Threads :
    resp[t] \notin {"KeyError", "RuntimeError", "FileNotFoundError"}

\* Under the single worker a download is refused only for a reason: a wrong
\* token, an identifier never published, one whose deadline had passed when the
\* request came in, or one a restart has made the gateway forget.
NotFoundIsJustified ==
  [][\A t \in Threads :
       pc[t] = "lookup" /\ resp'[t] = "notfound" /\ pc'[t] = "idle"
         /\ restarts' = restarts =>
         \/ ~req[t].token
         \/ req[t].id \notin published
         \/ expires[req[t].id] < scanAt[t]
         \/ req[t].id \in leaked]_vars

\* As long as requests keep coming, an entry whose deadline has passed leaves
\* the table.  Nothing sweeps a gateway nobody calls.
ExpiredSwept ==
  ([]<>(\E t \in Threads : pc[t] = "scan")) =>
    \A id \in Ids : (id \in exports /\ expires[id] < now) ~> id \notin exports
================================================================================
