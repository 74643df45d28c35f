----------------------------- MODULE GatewayQuery -----------------------------
(***************************************************************************)
(* query() of query-gateway/app.py, one request from the token to the      *)
(* text: the plan out of the model's draft, the fallback and canonical     *)
(* statements built from the question, the guard (SqlGuard), the           *)
(* execution, the as-of date read on a second connection, and the reply    *)
(* with its file.  The business table is external; it keeps being loaded   *)
(* meanwhile.                                                              *)
(***************************************************************************)
EXTENDS Integers, SqlGuard, Sequences, SequencesExt

CONSTANTS
  Years,      \* years in the table
  Questions,  \* what is asked, as the regular expressions see it
  Drafts,     \* what the model writes: records [form, stmt]
  NoPlan,     \* no statement was found in it
  Amounts,    \* values of the amount column
  MaxLoads,   \* bound on the loads of one year
  Room,       \* bound on the rows a statement without LIMIT returns
  AggRows,    \* LIMIT of the canonical statements, 50
  Shown,      \* rows build_reply() lists, 50
  Bars,       \* rows build_bar_png() draws, 12
  Unit,       \* what the last digit of fmt_wan() stands for, 1000 yuan
  DefaultDay  \* date(2026, 8, 2), stated when the table has no date

\* A question: year is what question_year() finds; byMonth and span are the two
\* month patterns, channelWord and money the words fallback_sql() looks for, want
\* what detect_want() says.
\* A statement, besides what the guard sees of it: month says that month is among
\* its columns; year is the first "year = NNNN" written in it, 0 without one, and
\* scope the years its rows really come from; junk is text that is no SQL.
\* A draft: a JSON object with a statement, JSON that does not parse around one, a
\* bare SELECT, or neither of them.
DraftForms == {"json", "broken", "bare", "none"}
Statements == [breaks : SUBSET Rules, commented : SUBSET Rules,
               limit : [form : Forms, n : Nat, m : Nat], junk : BOOLEAN, month : BOOLEAN,
               year : Years \cup {0}, scope : SUBSET Years]
Headers == [bearers : 0..3, token : BOOLEAN, alt : BOOLEAN]

ASSUME GatewayQueryAssumption ==
  /\ Questions \subseteq [year : Years, byMonth : BOOLEAN, span : BOOLEAN,
                          channelWord : BOOLEAN, money : BOOLEAN,
                          want : {"table", "excel", "chart"}]
  /\ \A d \in Drafts : d.form \in DraftForms /\ d.stmt \in Statements
  /\ NoPlan \notin Statements
  /\ 0 \notin Years
  /\ Amounts \subseteq Int /\ 0 \in Amounts
  /\ {MaxLoads, Room, AggRows, Shown, Bars, DefaultDay} \subseteq Nat
  /\ Unit \in Nat \ {0}
  /\ Bars <= Shown /\ MaxRows <= Room /\ MaxLoads >= 1

VARIABLES
  loaded,    \* last day loaded, per year; 0 when the year has no rows
  pc,        \* where query() is
  question,  \* the request: question, and
  draft,     \*   the model's draft
  stmt,      \* the statement to be run
  rows,      \* amounts of the rows it returned
  columns,   \* its columns: the amount alone, the amount and others, no amount
  rowsDay,   \* history: last day in those rows
  asOf,      \* data_as_of()
  reply      \* the response

vars == <<loaded, pc, question, draft, stmt, rows, columns, rowsDay, asOf, reply>>
request == <<question, draft>>

Columns == {"amount", "more", "others"}

\* A reply lists amounts as they are `shown`, and may state their total.
NoReply == [body |-> "none", items |-> <<>>, shown |-> <<>>, total |-> {},
            mark |-> "none", file |-> <<>>]
Text(body) == [NoReply EXCEPT !.body = body]

Init ==
  /\ loaded \in [Years -> 0..1]
  /\ pc = "plan"
  /\ question \in Questions
  /\ draft \in Drafts
  /\ stmt = NoPlan
  /\ rows = <<>>
  /\ columns = "amount"
  /\ rowsDay = 0
  /\ asOf = 0
  /\ reply = NoReply

--------------------------------------------------------------------------------
(* Statements from the question                                               *)

\* canonical_agg_sql(): by month, by channel unless one is named, or one sum, in
\* every case of the year of question_where().
Canonical(q) ==
  [breaks |-> {}, commented |-> {}, limit |-> Limit("rows", AggRows, 0), junk |-> FALSE,
   month |-> q.byMonth \/ q.span, year |-> q.year, scope |-> {q.year}]

\* fallback_sql() knows a statement for this question.
HasFallback(q) == q.byMonth \/ q.span \/ (q.channelWord /\ q.money)

\* Mutant: query() goes on after it has answered.
BugRespond(r) == reply' = r /\ UNCHANGED pc

Respond(r) == reply' = r /\ pc' = "done"

Load ==
  /\ \E y \in Years :
       /\ loaded[y] < MaxLoads
       /\ loaded' = [loaded EXCEPT ![y] = @ + 1]
  /\ UNCHANGED <<pc, request, stmt, rows, columns, rowsDay, asOf, reply>>

\* require_token(): the token bare or behind one or two "Bearer", or in a header
\* of its own.
Authorized(h) == (h.token /\ h.bearers <= 2) \/ h.alt

\* extract_plan(): the statement of the JSON object; without one, all there is from
\* the first WITH or SELECT on, which after broken JSON ends in the rest of it.
Extracted(d) ==
  CASE d.form = "none" -> NoPlan
    [] d.form = "broken" -> [d.stmt EXCEPT !.junk = TRUE]
    [] OTHER -> d.stmt

\* The token; the model's statement, or the fallback when it wrote none.
Plan ==
  /\ pc = "plan"
  /\ \/ /\ \E h \in Headers : ~Authorized(h)
        /\ Respond(Text("unauthorized"))
        /\ UNCHANGED stmt
     \/ /\ Extracted(draft) # NoPlan \/ HasFallback(question)
        /\ stmt' = IF Extracted(draft) # NoPlan THEN Extracted(draft) ELSE Canonical(question)
        /\ pc' = "guard"
        /\ UNCHANGED reply
     \/ /\ Extracted(draft) = NoPlan /\ ~HasFallback(question)
        /\ Respond(Text("guard"))
        /\ UNCHANGED stmt
  /\ UNCHANGED <<loaded, request, rows, columns, rowsDay, asOf>>

\* Mutant: a statement without the month column is run all the same.
BugGuard ==
  /\ pc = "guard"
  /\ IF Accepted(stmt)
     THEN stmt' = Sanitize(stmt) /\ pc' = "run" /\ UNCHANGED reply
     ELSE Respond(Text("guard")) /\ UNCHANGED stmt
  /\ UNCHANGED <<loaded, request, rows, columns, rowsDay, asOf>>

\* sanitize_select(); a question by month whose statement lacks the month column
\* gets the canonical one instead, which goes through the guard as well.
Guard ==
  /\ pc = "guard"
  /\ \/ /\ ~Accepted(stmt)
        /\ Respond(Text("guard"))
        /\ UNCHANGED stmt
     \/ /\ Accepted(stmt)
        /\ stmt' = Sanitize(IF question.byMonth /\ ~stmt.month THEN Canonical(question) ELSE stmt)
        /\ pc' = "run"
        /\ UNCHANGED reply
  /\ UNCHANGED <<loaded, request, rows, columns, rowsDay, asOf>>

\* Last day the table holds for some years, 0 if it holds none.
Day(ys) ==
  LET days == {loaded[y] : y \in ys}
  IN  IF days = {} THEN 0 ELSE CHOOSE d \in days : \A e \in days : e <= d

\* Most rows MySQL returns for a LIMIT clause.
AtMost(l) ==
  LET left == IF Skipped(l) > Room THEN 0 ELSE Room - Skipped(l)
  IN  IF Returned(l, Room) < left THEN Returned(l, Room) ELSE left

\* run_sql() on its own connection: some rows of what is loaded by now, or an
\* exception.  Over no data there are no rows, or the one of an empty sum.
RunSql ==
  /\ pc = "run"
  /\ \/ /\ Respond(Text("failed"))
        /\ UNCHANGED <<rows, columns, rowsDay>>
     \/ /\ ~stmt.junk
        /\ rows' \in BoundedSeq(Amounts, AtMost(stmt.limit))
        /\ Day(stmt.scope) = 0 => rows' \in {<<>>, <<0>>}
        /\ columns' \in Columns
        /\ rowsDay' = IF rows' = <<>> THEN 0 ELSE Day(stmt.scope)
        /\ pc' = "asof"
        /\ UNCHANGED reply
  /\ UNCHANGED <<loaded, request, stmt, asOf>>

\* Mutant: the date of another year than the statement's.
BugAsOf ==
  /\ pc = "asof"
  /\ asOf' = Day({question.year})
  /\ pc' = "reply"
  /\ UNCHANGED <<loaded, request, stmt, rows, columns, rowsDay, reply>>

\* data_as_of() opens a second connection: the day of the first year the statement
\* names, of the whole table without one, a constant when there is none.  (A month
\* range after the year narrows this query as it does the statement.)
AsOf ==
  /\ pc = "asof"
  /\ \/ /\ Respond(Text("failed"))
        /\ UNCHANGED asOf
     \/ /\ LET day == Day(IF stmt.year = 0 THEN Years ELSE {stmt.year})
           IN  asOf' = IF day = 0 THEN DefaultDay ELSE day
        /\ pc' = "reply"
        /\ UNCHANGED reply
  /\ UNCHANGED <<loaded, request, stmt, rows, columns, rowsDay>>

--------------------------------------------------------------------------------
(* The reply                                                                  *)

First(n, s) == SubSeq(s, 1, IF Len(s) < n THEN Len(s) ELSE n)
Positive(s) ==
  LET kept[i \in 0..Len(s)] == IF i = 0 THEN <<>>
                               ELSE IF s[i] > 0 THEN Append(kept[i - 1], s[i]) ELSE kept[i - 1]
  IN  kept[Len(s)]
Total(s) ==
  LET sum[i \in 0..Len(s)] == IF i = 0 THEN 0 ELSE sum[i - 1] + s[i]
  IN  sum[Len(s)]

Near(x, y, far) == 2 * (x - y) <= far /\ 2 * (y - x) <= far

\* fmt_wan(): an amount to the nearest unit; floats decide halves either way.
fmt_wan(amt) == {w \in (amt \div Unit)..(amt \div Unit + 1) : Near(Unit * w, amt, Unit)}

\* Mutant: what is summed up are the amounts as they are shown.
BugLoop(s) ==
  LET after[i \in 0..Len(s)] ==
        IF i = 0 THEN [items |-> <<>>, total |-> 0]
        ELSE IF columns = "others" THEN [after[i - 1] EXCEPT !.items = Append(@, s[i])]
        ELSE IF s[i] <= 0 THEN after[i - 1]
        ELSE [items |-> Append(after[i - 1].items, s[i]),
              total |-> after[i - 1].total + Unit * (s[i] \div Unit)]
  IN  after[Len(s)]

\* The loop of build_reply() over rows: without an amount column every row is an
\* item, else those with a positive amount are, and make up the total.
Loop(s) ==
  LET after[i \in 0..Len(s)] ==
        IF i = 0 THEN [items |-> <<>>, total |-> 0]
        ELSE IF columns = "others" THEN [after[i - 1] EXCEPT !.items = Append(@, s[i])]
        ELSE IF s[i] <= 0 THEN after[i - 1]
        ELSE [items |-> Append(after[i - 1].items, s[i]), total |-> after[i - 1].total + s[i]]
  IN  after[Len(s)]

\* Each amount formatted on its own.
Formatted(items) ==
  IF columns = "others" THEN {items}
  ELSE {v \in [1..Len(items) -> UNION {fmt_wan(items[i]) : i \in 1..Len(items)}] :
          \A i \in 1..Len(items) : v[i] \in fmt_wan(items[i])}

\* A reply with data, before it has a file.
Listed(items, shown, total) ==
  [NoReply EXCEPT !.body = "data", !.items = items, !.shown = shown, !.total = total]

\* build_reply(): a lone amount by itself; otherwise the items of the first rows, and
\* the total of amounts if there are several.
Listing(s) ==
  LET lone == columns = "amount" /\ Len(s) = 1
      loop == Loop(First(Shown, s))
      items == IF lone THEN s ELSE loop.items
      totals == IF columns # "others" /\ Len(items) > 1
                THEN {{w} : w \in fmt_wan(loop.total)} ELSE {{}}
  IN  {Listed(items, v, t) : v \in Formatted(items), t \in totals}

\* Mutant: the first rows with something to draw, however far down.
BugFile(s) ==
  CASE question.want = "excel" -> s
    [] question.want = "chart" /\ columns # "others" -> First(Bars, Positive(s))
    [] OTHER -> <<>>

\* build_xlsx() writes every row, build_bar_png() draws the positive amounts among
\* the first dozen.
File(s) ==
  CASE question.want = "excel" -> s
    [] question.want = "chart" /\ columns # "others" -> Positive(First(Bars, s))
    [] OTHER -> <<>>

\* The Excel file is always made, the picture only if it has a bar to draw.
Mark(s) ==
  IF question.want = "excel" \/ File(s) # <<>> THEN question.want ELSE "none"

\* build_reply() and the mark of a published file.  An amount that is no number
\* raises, and so does publishing; then the text that was ready is lost with it.
BuildReply ==
  /\ pc = "reply"
  /\ \/ \E r \in Listing(rows) :
          Respond([r EXCEPT !.mark = Mark(rows), !.file = File(rows)])
     \/ /\ columns # "others" \/ Mark(rows) # "none"
        /\ Respond(Text("failed"))
  /\ UNCHANGED <<loaded, request, stmt, rows, columns, rowsDay, asOf>>

Step == Plan \/ Guard \/ RunSql \/ AsOf \/ BuildReply

Next == Step \/ Load

Spec == Init /\ [][Next]_vars

--------------------------------------------------------------------------------
Replies == [body : {"none", "unauthorized", "guard", "failed", "data"},
            items : Seq(Int), shown : Seq(Int), total : SUBSET Int, mark : {"none", "excel", "chart"},
            file : Seq(Int)]

TypeOK ==
  /\ loaded \in [Years -> 0..MaxLoads]
  /\ pc \in {"plan", "guard", "run", "asof", "reply", "done"}
  /\ question \in Questions
  /\ draft \in Drafts
  /\ stmt \in Statements \cup {NoPlan}
  /\ pc \notin {"plan", "done"} => stmt # NoPlan
  /\ rows \in Seq(Amounts) /\ Len(rows) <= Room
  /\ columns \in Columns
  /\ rowsDay \in 0..MaxLoads
  /\ asOf \in 0..MaxLoads \cup {DefaultDay}
  /\ reply \in Replies
  /\ (pc = "done") = (reply # NoReply)

\* What the statement to be executed was before the guard.
Written == IF Extracted(draft) # NoPlan /\ (question.byMonth => draft.stmt.month)
           THEN Extracted(draft) ELSE Canonical(question)

\* What is executed has passed the guard, again would pass it unchanged, and suits
\* the question: a question by month runs a statement with the month column, and
\* the statement is the model's or, where that is missing or has no month, the one
\* built from the question.
ExecutedSuits ==
  pc \in {"run", "asof", "reply"} =>
    /\ Accepted(stmt) /\ Sanitize(stmt) = stmt
    /\ question.byMonth => stmt.month
    /\ [stmt EXCEPT !.limit = Written.limit, !.commented = Written.commented] = Written
    /\ draft.form = "none" => HasFallback(question)

\* MAX_ROWS bounds the rows that are returned, and of those the statement asked for
\* none is lost or exchanged otherwise, but for two forms: "LIMIT a, b" is judged by
\* a, so that with a small a its b rows come back however many they are; and a
\* clause that is rewritten loses its offset.
PageKept ==
  pc \in {"asof", "reply"} =>
    LET asked == Written.limit
        most == Returned(asked, Room)
    IN  /\ asked.form # "pair" => Len(rows) <= MaxRows /\ Len(rows) <= most
        /\ asked.form = "pair" =>
             Len(rows) <= IF asked.n <= MaxRows THEN asked.m ELSE MaxRows
        /\ asked.form \in {"page", "pair"} /\ asked.n <= MaxRows => stmt.limit = asked
        /\ asked.form \in {"rows", "inner", "none"} =>
             /\ Skipped(stmt.limit) = 0
             /\ AtMost(stmt.limit) = IF most < MaxRows THEN most ELSE MaxRows

\* The date in the reply is not older than the rows in it, though rows and date
\* are read on two connections between which the table is loaded: the rows come
\* first.  It needs a statement whose one year is the year of its rows, or none:
\* data_as_of() looks at the first year that is written, wherever it stands.
AsOfCoversRows ==
  (pc = "reply" \/ reply.body = "data") /\ (stmt.year = 0 \/ stmt.scope = {stmt.year}) =>
    asOf >= rowsDay

\* The stated total and the amounts as they are listed need not add up: they differ
\* by half a unit for each of them at most.  While the rows fit on the list the total
\* is that of all positive amounts to the nearest unit, and it is missing only where
\* there is one of them at most.
SumOfListed ==
  reply.body = "data" /\ columns # "others" =>
    /\ \A t \in reply.total : Near(t, Total(reply.shown), Len(reply.shown) + 1)
    /\ Len(rows) <= Shown =>
         /\ \A t \in reply.total : Near(Unit * t, Total(Positive(rows)), Unit)
         /\ reply.total = {} => Len(Positive(rows)) <= 1

\* A mark is only appended for the kind of file that was asked for.  A picture
\* shows amounts the text lists, from the first on and at least one; an Excel file
\* has every row, those the text leaves out included.
FileAgrees ==
  reply.mark # "none" =>
    /\ reply.body = "data"
    /\ reply.mark = question.want
    /\ reply.mark = "chart" => reply.file # <<>> /\ IsPrefix(reply.file, reply.items)
    /\ reply.mark = "excel" => reply.file = rows
================================================================================
