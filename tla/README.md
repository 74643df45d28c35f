# A TLA+ model of the 南极业务助手 (xinglan-dify-assistant)

The repository is a chat assistant built around a private Dify: people write to a
robot in DingTalk, `dingtalk-bridge` passes the question to a Dify chatflow, the
chatflow answers from knowledge bases or has a language model draft one SELECT,
and `query-gateway` checks and runs it and publishes Excel files and charts as
links that expire. This directory models that code, checks the models with TLC
and proves with TLAPS, for every value of the constants, every safety invariant that
the passing runs check.

## The system

| part | code | state it keeps | operations |
| --- | --- | --- | --- |
| query gateway: export links | `query-gateway/app.py` 515-623 | `_exports` (memory), files in `exports/` (disk) | publish (in `query`), `cleanup_exports`, `download`, restart |
| query gateway: one query | `query-gateway/app.py` 92-604 | nothing between requests; reads a table that others load | token, plan, fallback, guard, `run_sql`, `data_as_of`, `build_reply`, mark |
| SQL guard | `query-gateway/sql_guard.py` | none | `sanitize_select` |
| DingTalk bridge | `dingtalk-bridge/bot.py` | `_sessions` (memory) | `process`: look up, ask, remember, download, upload, send, reply, acknowledge |
| chatflow | `docker/custom/patch_workflow.py` | a graph stored in Dify | `_rebuild_graph`; Dify's engine runs it |
| SSRF proxy client | `docker/custom/patches/ssrf_proxy.py` | pooled HTTP clients | `make_request`, `buffer_response` |
| error translation | `error_i18n.py` (two copies), two Dify patches | none | `translate_error`, `_error_to_desc`, `_error_to_stream_response` |
| node data | `docker/custom/patches/base_node_data.py` | none | `DefaultValue.validate_value_type` |
| knowledge import | `docker/custom/import_kb.py`, `patch_workflow.main` | datasets and workflows in Dify's database | delete, create, queue documents; rewrite graphs |

A turn goes DingTalk -> bridge -> Dify `/chat-messages` (blocking, 120 s) ->
chatflow -> `http_sql` node (three attempts of up to 60 s, through the SSRF client
and Squid) -> gateway `/query` -> MySQL, and back as text. The text may carry the
marks `[[DIFY_EXCEL:id|token|name]]` and `[[DIFY_CHART:..]]`; the bridge takes them
out, fetches `/exports/<id>` from the gateway and sends the file to the chat. So the
parts share no memory: they interact through requests that may fail, be repeated,
or have been carried out although their answer was lost.

What is hard about it, and what would make it right:

- *Export links.* The table is in memory and the files are on disk; every export
  and every download sweeps the table first, two or more at a time when the
  process is threaded. Right: an entry always names a complete file, no file is
  lost except by a restart or a failed write, nothing expired is handed out, and a
  valid link works.
- *One query.* Whatever the model drafts, what is executed has passed the guard and
  suits the question; the date, the list and the sum in the text belong together,
  though they come from two reads of a changing table.
- *Bridge.* DingTalk redelivers, Dify may answer too late or forget, the bridge may
  be killed. Right: a person's conversation continues exactly while it is young, is
  never that of somebody whom the bridge can tell from that person, a promised file
  is accepted or the reply owns up to it, files are doubled only where deliveries or
  DingTalk's answers mislead the bridge, and a message is acknowledged only when somebody was answered.
- *Chatflow.* No branch leads nowhere, no model invents what retrieval did not find,
  no model touches numbers, failures are said as failures.
- *Knowledge import.* It deletes and refills three datasets, one call after the other,
  under ids the chatflow's graphs hold as constants. Right: whatever died before, a
  finished import leaves every file once; nobody is answered from rules an import has
  replaced; a graph searches deleted datasets only until it is patched again.
- *Error translation.* The same error passes up to two translations, two tables and
  three formats. Right: the explanation a person reads is that of the error, status
  and code are those of its most special class, and no path ends without a text.
- *The parts together.* The bridge gives up on turns that go on, links age while an
  answer is on its way, and a conversation's memory holds old links. Right: a turn's
  own link still works when it is fetched, nobody is sent another person's file, and
  the links of repeated attempts are never handed out.
- *SSRF client.* Attempts, waits, pooled connections and buffered bytes are accounted
  for on every way out.

`PROJECT.json` lists these hazards at their lines, with the property that covers
each.

## Modules

`ExportLinks` is abstract: a link is published once, is live until its deadline has
passed or the gateway restarts, and only a live link hands out its file.

`ExportStore` is the code. `exports` holds the keys of `_exports`, `expires` the
field of that name, `disk` the files. A handler is cut wherever another thread, the
clock or a restart may come in between: `Begin` (clock and iterator of
`cleanup_exports`), `Scan` (the comprehension, or its `RuntimeError`), `Unlink` and
`Pop` (one turn of the loop, or its `KeyError`), `Swept`, then `Create`, `Write`,
`Register`, `ReplyLink` for an export or `Lookup`, `Send` for a download. `Tick` is the
clock, `Restart` the death of the process. A uuid4 is an identifier never drawn
before; a token is the right one or not. Its refinement of `ExportLinks` is `Links`.

`SqlGuard` is `sanitize_select()` as operators: `Accepted` stands for the rules that refuse
a statement, `Bounded` for what happens to its LIMIT (none, one at the end, `a, b`, with
an OFFSET, one that is not at the end), and `Sanitize` for both. `GatewayQuery` extends
it and follows one request through `query()`: token headers, the plan as JSON, as a
fenced block, as bare SQL or missing, guard, the fallback and the repaired statement
for a question by month (which pass the guard again), execution, as-of date, reply,
file and mark. A question is what the regular expressions find in it, a statement
whether the guard lets it pass, whether `month` is among its columns, which year is
written first in it, from which years its rows really come, and its LIMIT. `Load` is
the world loading the table between the two connections. `Loop` is the loop of
`build_reply()` with its two accumulators, `fmt_wan` the rounding of an amount to 1000
yuan, `Listing` what they make of the rows: every listed amount is rounded, and the
total of several amounts is rounded apart from them. A half goes up or down, since the
code rounds floats.

`ErrorI18n` is `translate_error()`: a text is the set of needles found in it, whether it
is an explanation, how often it has been wrapped and where its run id stands.
`NodeData` is `DefaultValue.validate_value_type()`: a value is its Python type and what a
string reads as. `ErrorPath` composes them: `Load` (a graph with a default value) or
`RunFails`, `Handle` (`handle_error()` and the text kept in the message), `Stream` (the
web client), `Answer` (Dify's API), `AskFails`/`AskLost` and `Reply` (the bridge).

`DingTalkBridge` is `process()` cut at its requests: `Receive` (text test, session
look-up), `AskAnswered`/`AskFailed`, `NextFile`, `Download`, `Upload`, `Webhook`, `Api`,
`Trim` (the cut at 18000 characters), `Reply`, `Ack`. The handler never awaits, so one
message is handled at a time and `inbox` is the event loop's queue. An answer holds
marks, any number of a kind, each `<<kind, place among those of its kind>>`: the first of
a kind is sent, and `NextFile` deletes the others with it, as `search()` and `sub()` do. DingTalk and Dify are external. `Deliver` redelivers as long as
there is no acknowledgement, and `Ack` may not get through; `Forget` deletes a
conversation; `AskFailed` may leave one that nobody remembers. Every request with a
file may leave it in the chat or not, whatever its answer says: an error status
of the webhook after the file arrived leads on to the message API, a good one is
`taken`, which means accepted, not arrived. A message has a `who` that wrote it,
which the code never sees; its staff id may be missing, and its nick as well.

`Chatflow` has the graph of `_rebuild_graph()` as data (`Edges`, `Tested`, `Context`) and
one action per kind of node; Dify's engine (external) follows the edge of the handle
a node chooses. `Replies` is what `/query` can answer with an agreeing and with a wrong
token.

`Knowledge` extends `Chatflow` with what its retrievals search. `Begin`, `Drop`, `Create`,
`Queue` (one file), `Advance` are `import_kb.main()` cut at the calls of Dify's services,
which commit on their own, so that `Die` may come between any two; an id is the number
of the import that created it. `Index` is Dify's worker, `Revise` somebody who edits the
files, `Edit` the person who copies the ids (`README.md` asks for it after an import),
`Patch` `patch_workflow.main()`. A turn takes the ids of a stored workflow when it starts;
its retrieval may find segments only in datasets those ids still name. `import_kb.py` as
committed does not parse (its docstring ends on line 1 and the text below it is no
Python); `main()` is modelled as it is written. The names it skips are always empty,
because it reads them from the dataset it has just created; `Existing` computes them
all the same, and `Rebuilt` needs that they are.

`Assistant` extends `DingTalkBridge` and takes `Chatflow` (`Flow`) and `ExportLinks` (`Store`, whose
implementation by the gateway's code is proved) as instances. Every action is a step of
one or two of them: `AskArrives` starts a turn, `TurnAnswered` brings its text and its
link to the bridge, `TurnLost` is any failure or timeout, `TurnMoves` publishes a link
with the attempt of the HTTP node that made the gateway export, `DownloadEnds` hands a
file out. Of an answer's links the composition follows one, `mark`. Steps that nobody else can see, a turn's between its requests to the gateway
and the bridge's once it has fetched or given up the file, are taken without
interleaving (`Quiet`): they read and write nothing the others do, so only the number of
states is smaller for it. Identifiers are drawn in one order for the same reason. So
are two more choices: a message comes when the bridge is free to read it, since the
inbox is looked at nowhere else, and the gateway restarts when the bridge comes for a
link, which is where a restart shows. `Spare` ends the run once every turn has begun and
the bridge is idle; that is a bound.

`SsrfRequest` has one caller per thread of Dify: `Send`/`SendFails`, `Judge` (the test of
the status), `Again` (counter and back-off), `GiveUp`, and `Buffer`, `Chunk`, `Buffered` for
`buffer_response()`. `held` counts the pooled connections a caller's responses keep.

Each has an `MC` module with its instances and a `_proofs` module with its theorems;
`ErrorI18n` and `NodeData` are proved about in `ErrorPath_proofs`, `SqlGuard` in
`GatewayQuery_proofs`.

## Runs

| run | shows | bounds, and why they are enough |
| --- | --- | --- |
| `exports_threaded` | types, `LiveIsWhole`, `NoSilentLeak`, `SweptClean`, and that the store implements `ExportLinks` | 2 threads, 2 ids, lifetime 1, clock to 2, 1 restart: two sweeps of the same key, a sweep beside a download, an expiry and a restart in every position |
| `exports_serial` | with the one gunicorn worker: no exception of the table's own (`NoRaceErrors`), no refused valid link (`NotFoundIsJustified`), no expired entry that stays (`ExpiredSwept`) | 3 ids, clock to 2, 1 restart: live, expired and orphaned entries at once |
| `query` | `ExecutedSuits`, `AsOfCoversRows`, `SumOfListed`, `PageKept`, `FileAgrees` | 2 years, up to 4 rows, a LIMIT bound of 3, of which 2 are listed and 1 is drawn (200, 50 and 12 in the code), amounts -1, 0, 1 shown in units of 2 (1000 yuan in the code), so that the listed amounts and the total really differ; 2 loads per year; every form of a draft and of a LIMIT, each bound met, missed by one and exceeded |
| `errors` | `ReasonStays`, `RunIdKept`, `StoredIsShown`, `SpecialClassWins`, `DefaultHolds` | texts with every needle that can stand in an explanation and every place of a run id, the class hierarchies the table can meet, a default value of every type and of every wrong one |
| `bridge_sessions` | `ContextKept`, `OwnConversation` | four people in one chat, each with one message: one with a staff id; two without one, whose nick is that id, so that the first shares their key and they are one to the bridge; one with another nick; two messages under one key stand for the copies of one as well; lifetime 2, clock to 2, a crash |
| `bridge_files` | `NoteTruthful`, `FileOnce`, `AckAfterReply`, `Handled` | a question, delivered up to twice, and a picture; answers with two Excel files and a chart, in a text that is too long or not; a crash; every answer of DingTalk, with the file in the chat or not |
| `ssrf` | `NoConnectionLeak`, `AttemptsAccounted`, `Terminates` | two callers on a pool of one, 0 or 2 retries, bodies up to 3 with limit 2 |
| `chatflow` | `NoInvention`, `NumbersUntouched`, `NoOldRules`, `Rebuilt`, `StaleUntilPatched`, `TurnsEnd` | one turn of any class (turns share only the token, the graphs and the datasets), tokens that agree and that differ, the real graph and number of attempts; a file per dataset, two revisions, two imports that may die anywhere: a rebuilt, a half rebuilt and a deleted dataset under an old and a new graph |
| `assistant` | `LinkWorks`, `NoForeignFile`, `OneLinkHanded` | two people without a staff id, told apart by their nick, one of them asking twice, so that a model may repeat a link of her earlier answer; Dify runs two of the three questions; the branch that exports and the one that only sees the conversation; 1 instant for the question, 1 for the download and links of 2, the tightest order the code's 120 s, 30 s and 900 s allow; clock to 3, so that a repeated link does expire; 2 links, enough for one that a lost attempt made beside the one its answer names, and for one of each turn; answers with no file, one, or two of a kind; every message once, and a view of the state that leaves out what only counts arrived files and missing acknowledgements, since no step and no property of the run looks at them |
| `ssrf_origin`, `ssrf_buffer`, `chatflow_failure` | the three disagreements below | one caller, one turn |

Deadlock checking is off where a run of the program really ends: a query, a turn
and a request are over when they are over, and a bridge whose messages are all
acknowledged has nothing to do. It is on for the export table.

Fairness. `ExportStore`, `SsrfRequest` and `Knowledge` (for `Chatflow`) assume weak fairness of a handler's,
caller's or turn's own steps: threads are scheduled and every request has a timeout;
nothing makes a client call, so `ExpiredSwept` has "requests keep coming" as its
premise. `DingTalkBridge` assumes weak fairness of `process()`: the loop always takes
the next delivery and every request in it has a timeout; nothing is assumed of DingTalk
and Dify, and `Handled` ends where the bridge dies, whose queue is in memory.

Where code and documents disagree:

- `FailureText`: the workflow document promises the body for 200 "or else the failure
  text", and that text says "gateway unreachable or execution failed"; but `query()`
  answers 200 with "查询失败" for a failed execution, which is said as a result.
- `OriginErrorsPass`: the comment in `make_request()` wants 401/403 of the origin left
  alone, yet an origin's HTML error page that came through Squid is raised as
  `ToolSSRFError`.
- `BufferCloses`: `buffer_response()` says it closes the stream; a limit that is not
  positive is refused before the `try`, and the stream keeps its connection. No
  other way out does, and `NoConnectionLeak` states exactly that.

Seen while modelling, and without a run of their own:

- `import_kb.py` does not parse, see above; and the names it skips are always empty.
- The second rule of the error table is never reached: a text that matches it matches
  the first. The comment at `error_i18n.py:10` asks for all needles or a long one, the
  code for any.
- A wrong number as a default value is refused with an `AttributeError`, because the
  message looks up `__name__` on `int | float` (`base_node_data.py:123`).
- The run id of a failed agent is lost in DingTalk whenever a rule matched: it does not
  stand at the end of the JSON text the bridge translates.
- `LIMIT a, b` is judged by `a`, and a LIMIT that is rewritten loses its OFFSET
  (`sql_guard.py:85`): `PageKept` says for which forms the page survives.
- Two people without a staff id who have the same nick, or none, share a conversation
  in a chat: one session key, and one user for Dify (`bot.py:86`, `bot.py:186`).
  `OwnConversation` and `NoForeignFile` hold up to exactly that (`SameSender`). Somebody
  whose nick is a colleague's staff id gets that colleague's session record, but no
  part in the conversation, for which Dify is asked under another user; such
  questions fail as long as the record is young.
- Of several files of a kind in one answer the first is sent; the marks of the others
  are deleted with it, and the reply says nothing of them (`bot.py:200`, `bot.py:211`).
- A good status of the webhook or of the message API counts as sent, without a look at
  what became of the file; and every other status of the webhook leads to the message
  API, so that an error status after the file arrived doubles it (`bot.py:145`).
- The amounts a reply lists and the total below them need not add up: each is rounded
  on its own. `SumOfListed` says how far they are apart at most.
- `LinkWorks` needs that an answer names files of one kind, as `query()` writes it: the
  bridge fetches one file of each kind, up to 30 s each and the sending in between,
  and nothing bounds how late it comes to the second.
- `_error_to_desc()` asks for an exhausted quota first and for nothing else, the response
  converter goes on to the later classes of its table: an exception that is both would
  be kept and shown with different texts. None of the run's kinds is.
- The bridge's 120 s are a timeout of the connection being silent; Dify answers a
  blocking request at once or not at all, so `AskLimit` bounds the whole question.

## Proofs

All theorems are `Spec => []Inv` or `Spec => AbstractSpec` for every value of the
constants under the named assumption of the module (`ExportStoreAssumption`,
`BridgeAssumption`, ...): any number of threads, messages, callers, turns, files, rows
and links, any lifetimes, limits and bounds. The assumptions give the constants their
types and say that `None`, `NoConv`, `NoLink` and the like are none of the values they
stand beside. Few say more. `AskLimit + DownloadLimit <= LinkTtl` is 120 s + 30 s against
900 s. `Bars <= Shown` is 12 against 50. `MaxRows <= Room` and `MaxLoads >= 1` are about
the model's own bounds: the table may hold as many rows as the guard lets through, and
be loaded once. `Unit` is positive. `ErrorPathAssumption` says that texts are as a failure
writes them, not translated before. `MarksAssumption` numbers the marks of a kind from 1,
and `StaffIds` says of DingTalk that a staff id belongs to one person and is not the word
`user`, which the bridge uses for nobody.

None of the properties below is inductive. Each module has one inductive invariant,
the conjunction of the properties with the facts they rest on, and TLC checked it on
the module's run before it was proved.

`ExportStore_proofs` (`Safety`). `TypeCorrect`, `EntriesAreWhole`, `FilesAreAccounted`,
`SweepIsComplete`: `TypeOK`, `LiveIsWhole`, `NoSilentLeak` and `SweptClean` always hold, however
many handlers interleave. `Implements`: every behaviour is one of `ExportLinks`, under
the mapping `Links`. That an entry's file is whole rests on who may touch the file: the
identifier a handler publishes is drawn fresh and nobody else holds it until it is
registered, and a key in somebody's `doomed` list was published and had expired by that
handler's clock. That a swept handler meets nothing expired rests on the scan: a key
that was in the table when it began is either gone or in `doomed`, and one entered later
expires a lifetime after the scan. `WorkerNeverRaces` and `ValidLinkIsFound` (`NoRaceErrors`,
`NotFoundIsJustified`) assume `OneWorker`, that no two threads exist (`gunicorn -w 1`); what
a handler has seen is then what there is.

`DingTalkBridge_proofs` (`BridgeSafety`). `ContextIsKept`, `NotesAreTruthful`, `FilesArriveOnce`,
`AcksFollowReplies`, `BridgeTyped`. `Recall` says what `_sessions` holds: the last answer under a
key since the last restart, or nothing if that is too old; dropping a record at a
look-up is harmless because it was too old to be used. `Promises` follows the first file
of a kind from the answer's mark to its delivery: it is still to come, in hand,
accepted, or owned up to. `FilesArriveOnce` is got by counting (`Counted`): every delivery of
a message waits in the queue, is being handled and may still bring a file of a kind, or
has brought one at most, refusals of the webhook aside; `TimesAppend` and its like say
what the queue's two operations do to the number of copies in it. `ConversationsAreOwn`
(`OwnConversation`) rests on who may continue: Dify serves a conversation to the user who
began it, and messages under one key with one user are of one sender as far as names
go (`SharedKey`, from `StaffIds`).

`SsrfRequest_proofs` (`RequestSafety`). `ConnectionsAreReturned`, `AttemptsAreAccounted`,
`RequestTyped`. The invariant gives for each phase of a caller how many responses it holds
open and how long it has slept: after n retries `2^n - 1` units. The provers know
nothing of powers; `PowerDoubles` gets `2^(n+1) = 2 * 2^n` from the library's fact about the
number of subsets.

`Chatflow_proofs` and `Knowledge_proofs` (`KnowledgeSafety`, which includes the turns'). A turn
at a node has passed what leads to it: `NothingIsInvented` and `NumbersPassThrough` follow for
a turn alone (`Chatflow!Spec`), `NothingIsInventedFromKnowledge` for turns over real
datasets. `ImportRebuilds`, `RulesAreCurrent`, `GraphsNameDatasets`, `KnowledgeTyped`: a document is
never older than the last import that ended (`Filed`), an import at dataset i has filled
those before it (`Importing`), and the ids a script and a graph hold are at most as new as
the edit and the patch that brought them (`Ordered`, `Linked`). `Rebuilt` survives a death
anywhere because an import deletes before it fills.

`Assistant_proofs` (`AssistantSafety`, which includes the bridge's and the turns' invariants;
the latter through the instance `FlowP` of `Chatflow_proofs`). `PartsKeepTheirSpecs`: the
composition implements the bridge's specification, the chatflow's and that of
`ExportLinks`, so everything proved of the parts holds in it. `OneLinkIsHanded`: of the links
of repeated attempts only the named one is fetched. `NoFileGoesAstray` (`NoForeignFile`): the
turns of one conversation were begun under one session key and for one Dify user
(`Conversing`), and a file is fetched for a turn of the conversation that made it. `LinksWork` (`LinkWorks`) assumes `OneMark`, that no
answer names files of two kinds; `Clocked` then adds up what the bridge's timeouts
allow. It holds on the run's instance.

`ErrorPath_proofs` (`ErrorSafety`). `ReasonsStay`, `RunIdsAreKept`, `DefaultsHold` without
further hypotheses, for any texts. They rest on lemmas about the rule table:
`RuleIsFirst` (the rule found is the first that matches), `QuotesItself` (an explanation
is found by its own rule or by none), `TwiceTranslated` (what is left of a text after two
translations) and `EntryIsLast`. `ShownIsStored` (`StoredIsShown`) assumes `QuotaIsLast`, that an
exhausted quota is no instance of the table's later classes; `LastIsMostSpecial`
(`SpecialClassWins`) assumes `TableFollowsClasses`, that any two table classes of one exception
are derived one from the other and the derived one stands later. Both hold of the
run's `Kinds`, and each is what the property is about: the table
must be ordered so.

`GatewayQuery_proofs` (`GatewaySafety`). `StatementSuits`, `PagesAreKept`, `DateCoversRows`, `SumIsOfListed`,
`FilesAgree`, `GatewayTyped`. The guard's lemmas: what it let pass it lets pass again
unchanged (`SanitizedAgain`), and which pages it keeps (`PagesKept`). `Dated` keeps, from the
rows' connection to the date's, that some year of the statement still holds the rows'
last day. `PagesAreKept` bounds the rows by the guard's number for every form of LIMIT
but `LIMIT a, b` with a small `a`, where up to `b` rows come back; `GatewayTyped` bounds them
by the table only. `SumIsOfListed` goes from the code's loop to what is read: what the
loop leaves are the positive rows and their sum (`LoopTyped`), each rounding is at most
half a unit off (`FormatIsNear`), so is the sum of the listed amounts by half a unit for
each (`RoundedSum`), and the rest is arithmetic. The loop, the listed rows and their sum
are recursive functions of the number of rows looked at. The provers cannot instantiate the induction theorems, which take a
predicate; `UpTo` is the induction that is needed with a set in its place, got from
the well-foundedness of the naturals. `KeepsExists`, `SumsExists`, `LoopsExists`, `KeptTyped`, `KeptGrows`,
`LoopTyped`, `RoundedSum` and `PositiveIsPrefix` follow from it.

Only model-checked: the liveness properties `ExpiredSwept`, `Handled`, `Terminates` and
`TurnsEnd`, because liveness under fairness and `ENABLED` are outside the prover's reach;
and the three violated properties, which are counterexamples.

## Not modelled

The text of statements, prompts and replies; the cells of spreadsheets and pictures;
`markdown_table()` and `mermaid_chart()`, which nothing calls; `inspect_schema.py`, a
one-off script; Dify itself and its compose, nginx, certbot and Squid files, which
are configuration; the knowledge bases, which are data; `convert()` and the moderation
hooks of the two patched Dify files, which are Dify's own and have nothing to do with
errors; `BaseNodeData.get()` and `RetryConfig`, which keep no state, the latter but for
the numbers of the HTTP node. In `GatewayQuery` a month range in a statement is taken to
narrow the rows and the as-of date alike, and which way a float falls at a half is left
open. `Knowledge` assumes that the token does not
change between two patches and that one import runs at a time. The run of `Assistant` leaves
out conversations that Dify loses, redelivery and restarts of the bridge, which
`bridge_sessions` and `bridge_files` have; and where the text of a model repeats several
older links, one of them is followed, whichever it is.

## Plan

1. Done: every module above, and a theorem for every safety property of a passing run.
2. Left for the proofs: that `import_kb`'s steps implement an atomic replacement of a
   dataset as a turn sees it, and the same for a bridge that handles a message at once;
   both need an abstract specification first.
