--------------------------- MODULE ErrorPath_proofs ---------------------------
(***************************************************************************)
(* Proofs about ErrorPath, for any exceptions, texts and default values:   *)
(* what each party holds is a function of what the one before it held, and *)
(* translating twice explains the error that was translated first.         *)
(***************************************************************************)
EXTENDS ErrorPath, TLAPS

\* Texts on their way.
Messages == [needles : SUBSET Needles, says : Says, quoted : Nat, run : Spots]

--------------------------------------------------------------------------------
(* The rules                                                                  *)

\* Numbers of rules have a least one, positions in the table a last one.
LEMMA LeastOfRules ==
  ASSUME NEW S \in SUBSET (1..17), S # {}
  PROVE  \E i \in S : \A j \in S : i <= j
<1>1. CASE \E i \in S : i <= 4
  BY <1>1
<1>2. CASE (\A i \in S : i > 4) /\ \E i \in S : i <= 8
  BY <1>2
<1>3. CASE (\A i \in S : i > 8) /\ \E i \in S : i <= 12
  BY <1>3
<1>4. CASE (\A i \in S : i > 12) /\ \E i \in S : i <= 15
  BY <1>4
<1>5. CASE \A i \in S : i > 15
  <2>1. CASE 16 \in S
    BY <1>5, <2>1
  <2>2. CASE 16 \notin S
    <3>1. PICK i \in S : TRUE
      OBVIOUS
    <3>2. \A j \in S : j = 17
      BY <1>5, <2>2
    <3> QED
      BY <3>1, <3>2
  <2> QED
    BY <2>1, <2>2
<1> QED
  BY <1>1, <1>2, <1>3, <1>4, <1>5

LEMMA LastOfTable ==
  ASSUME NEW S \in SUBSET (1..7), S # {}
  PROVE  \E i \in S : \A j \in S : j <= i
<1>1. CASE \E i \in S : i >= 4
  BY <1>1
<1>2. CASE \A i \in S : i < 4
  <2>1. PICK i \in S : TRUE
    OBVIOUS
  <2>2. i \in 1..3 /\ \A j \in S : j \in 1..3
    BY <1>2
  <2>3. CASE 3 \in S
    BY <2>2, <2>3
  <2>4. CASE 3 \notin S /\ 2 \in S
    BY <2>2, <2>4
  <2>5. CASE 3 \notin S /\ 2 \notin S
    BY <2>1, <2>2, <2>5
  <2> QED
    BY <2>3, <2>4, <2>5
<1> QED
  BY <1>1, <1>2

LEMMA RuleDomain == DOMAIN Rules = 1..17 /\ Len(Rules) = 17
BY DEF Rules

\* The two needles that stand in explanations are each in one rule only.
LEMMA OwnNeedles ==
  /\ \A j \in 1..17 : "input empty" \in Rules[j] => j = 4
  /\ \A j \in 1..17 : "balance" \in Rules[j] => j = 9
<1>1. /\ Rules[1] = {"20015", "system first"} /\ Rules[2] = {"system first"}
      /\ Rules[3] = {"messages illegal"} /\ Rules[4] = {"input empty"}
      /\ Rules[5] = {"incorrect api key"} /\ Rules[6] = {"invalid api key"}
      /\ Rules[7] = {"provider_not_initialize"} /\ Rules[8] = {"dify quota"}
      /\ Rules[9] = {"balance"} /\ Rules[10] = {"insufficient quota"}
      /\ Rules[11] = {"rate limit"} /\ Rules[12] = {"too many requests"}
      /\ Rules[13] = {"context length"} /\ Rules[14] = {"timed out"}
      /\ Rules[15] = {"content filter"} /\ Rules[16] = {"no such model"}
      /\ Rules[17] = {"internal server error"}
  BY DEF Rules
<1>2. ASSUME NEW j \in 1..17
      PROVE  \/ j = 1 \/ j = 2 \/ j = 3 \/ j = 4 \/ j = 5 \/ j = 6 \/ j = 7 \/ j = 8 \/ j = 9
             \/ j = 10 \/ j = 11 \/ j = 12 \/ j = 13 \/ j = 14 \/ j = 15 \/ j = 16 \/ j = 17
  OBVIOUS
<1>3. /\ "input empty" \notin Rules[1] /\ "input empty" \notin Rules[2]
      /\ "input empty" \notin Rules[3] /\ "input empty" \notin Rules[5]
      /\ "input empty" \notin Rules[6] /\ "input empty" \notin Rules[7]
      /\ "input empty" \notin Rules[8] /\ "input empty" \notin Rules[9]
      /\ "input empty" \notin Rules[10] /\ "input empty" \notin Rules[11]
      /\ "input empty" \notin Rules[12] /\ "input empty" \notin Rules[13]
      /\ "input empty" \notin Rules[14] /\ "input empty" \notin Rules[15]
      /\ "input empty" \notin Rules[16] /\ "input empty" \notin Rules[17]
  BY <1>1
<1>4. /\ "balance" \notin Rules[1] /\ "balance" \notin Rules[2]
      /\ "balance" \notin Rules[3] /\ "balance" \notin Rules[4]
      /\ "balance" \notin Rules[5] /\ "balance" \notin Rules[6]
      /\ "balance" \notin Rules[7] /\ "balance" \notin Rules[8]
      /\ "balance" \notin Rules[10] /\ "balance" \notin Rules[11]
      /\ "balance" \notin Rules[12] /\ "balance" \notin Rules[13]
      /\ "balance" \notin Rules[14] /\ "balance" \notin Rules[15]
      /\ "balance" \notin Rules[16] /\ "balance" \notin Rules[17]
  BY <1>1
<1> QED
  BY <1>2, <1>3, <1>4

\* Rule() is the first match, or 0.
LEMMA RuleIsFirst ==
  ASSUME NEW N
  PROVE  /\ Rule(N) \in 0..17
         /\ Rule(N) = 0 <=> Hits(N) = {}
         /\ Hits(N) # {} => Rule(N) \in Hits(N) /\ \A j \in Hits(N) : Rule(N) <= j
<1>1. Hits(N) \in SUBSET (1..17)
  BY RuleDomain DEF Hits
<1>2. CASE Hits(N) = {}
  BY <1>2 DEF Rule
<1>3. CASE Hits(N) # {}
  <2>1. \E i \in Hits(N) : \A j \in Hits(N) : i <= j
    BY <1>1, <1>3, LeastOfRules
  <2>2. Rule(N) \in Hits(N) /\ \A j \in Hits(N) : Rule(N) <= j
    BY <1>3, <2>1 DEF Rule
  <2> QED
    BY <1>1, <1>3, <2>2
<1> QED
  BY <1>2, <1>3

\* An explanation that contains a needle is found by its own rule.
LEMMA QuotesItself == ASSUME NEW i \in 1..17 PROVE Rule(Quotes(i)) \in {0, i}
<1>1. CASE i \notin {4, 9}
  <2>1. Hits(Quotes(i)) = {}
    BY <1>1 DEF Hits, Quotes
  <2> QED
    BY <2>1, RuleIsFirst
<1>2. CASE i = 4
  <2>1. \A j \in 1..17 : "input empty" \in Rules[j] => j = 4
    BY OwnNeedles
  <2>2. Quotes(i) = {"input empty"}
    BY <1>2 DEF Quotes, Rules
  <2>3. Hits(Quotes(i)) \subseteq {4}
    BY <2>1, <2>2, RuleDomain DEF Hits
  <2> QED
    BY <1>2, <2>3, RuleIsFirst
<1>3. CASE i = 9
  <2>1. \A j \in 1..17 : "balance" \in Rules[j] => j = 9
    BY OwnNeedles
  <2>2. Quotes(i) = {"balance"}
    BY <1>3 DEF Quotes, Rules
  <2>3. Hits(Quotes(i)) \subseteq {9}
    BY <2>1, <2>2, RuleDomain DEF Hits
  <2> QED
    BY <1>3, <2>3, RuleIsFirst
<1> QED
  BY <1>1, <1>2, <1>3

LEMMA QuotesTyped == ASSUME NEW i \in 1..17 PROVE Quotes(i) \in SUBSET Needles
<1>1. Rules[i] \in SUBSET Needles
  BY RuleDomain DEF Needles
<1> QED
  BY <1>1 DEF Quotes

LEMMA MessageTyped ==
  ASSUME NEW n \in SUBSET Needles, NEW i \in Says, NEW q \in Nat, NEW r \in Spots
  PROVE  [needles |-> n, says |-> i, quoted |-> q, run |-> r] \in Messages
BY DEF Messages

\* Wrapping an error changes nothing but how often it was and its run id.
LEMMA Wrapped ==
  ASSUME NEW t \in Messages, NEW q \in Nat, NEW r \in Spots
  PROVE  [t EXCEPT !.quoted = q, !.run = r] =
           [needles |-> t.needles, says |-> t.says, quoted |-> q, run |-> r]
<1> DEFINE u == [t EXCEPT !.quoted = q]
<1>1. u = [needles |-> t.needles, says |-> t.says, quoted |-> q, run |-> t.run]
  BY DEF Messages
<1>2. u \in Messages /\ u.needles = t.needles /\ u.says = t.says /\ u.quoted = q
  BY <1>1 DEF Messages
<1> HIDE DEF u
<1>3. [u EXCEPT !.run = r] = [needles |-> u.needles, says |-> u.says, quoted |-> u.quoted, run |-> r]
  BY <1>2 DEF Messages
<1> QED
  BY <1>2, <1>3 DEF u

\* A translation says something: an explanation, or the error as it was.
LEMMA TranslationSays ==
  ASSUME NEW t \in Messages
  PROVE  /\ translate_error(t) \in Messages
         /\ translate_error(t).says # NoText
         /\ translate_error(t).says # 0 \/ translate_error(t).quoted > 0
<1> DEFINE i == Rule(t.needles)
<1>1. i \in 0..17 /\ NoReason = 18 /\ NoText = 19
  BY RuleIsFirst, RuleDomain DEF NoReason, NoText
<1>2. RunKept(t, TRUE) \in Spots /\ RunKept(t, FALSE) \in Spots
  BY DEF RunKept, Spots
<1>3. CASE t.says = NoText
  <2>1. translate_error(t) = [needles |-> {}, says |-> NoReason, quoted |-> 0, run |-> "nowhere"]
    BY <1>3 DEF translate_error, Empty, Raw
  <2> QED
    BY <1>1, <2>1 DEF Messages, Says, Spots
<1>4. CASE t.says # NoText /\ i # 0
  <2>1. translate_error(t) =
          [needles |-> Quotes(i), says |-> i, quoted |-> 0, run |-> RunKept(t, TRUE)]
    BY <1>4 DEF translate_error
  <2>2. Quotes(i) \in SUBSET Needles
    BY <1>1, <1>4, QuotesTyped
  <2>3. i \in Says /\ i # NoText /\ i # 0
    BY <1>1, <1>4 DEF Says
  <2> HIDE DEF i
  <2>4. translate_error(t) \in Messages
    BY <1>2, <2>1, <2>2, <2>3, MessageTyped
  <2>5. translate_error(t).says = i
    BY <2>1
  <2> QED
    BY <2>3, <2>4, <2>5
<1>5. CASE t.says # NoText /\ i = 0
  <2>1. translate_error(t) = [t EXCEPT !.quoted = @ + 1, !.run = RunKept(t, FALSE)]
    BY <1>5 DEF translate_error
  <2>2. t.quoted + 1 \in Nat /\ t.quoted + 1 > 0
    BY DEF Messages
  <2>3. translate_error(t) = [t EXCEPT !.quoted = t.quoted + 1, !.run = RunKept(t, FALSE)]
    BY <2>1
  <2>4. translate_error(t) = [needles |-> t.needles, says |-> t.says,
                              quoted |-> t.quoted + 1, run |-> RunKept(t, FALSE)]
    BY <1>2, <2>2, <2>3, Wrapped
  <2>5. t.needles \in SUBSET Needles /\ t.says \in Says
    BY DEF Messages
  <2>6. translate_error(t) \in Messages
    BY <1>2, <2>2, <2>4, <2>5, MessageTyped
  <2>7. translate_error(t).says = t.says /\ translate_error(t).quoted = t.quoted + 1
    BY <2>4
  <2> QED
    BY <1>5, <2>2, <2>6, <2>7
<1> QED
  BY <1>3, <1>4, <1>5

\* Translated twice, a text that comes as it is says what its first rule says, or is
\* quoted twice; a run id inside it stays exactly when no rule matched.
LEMMA TwiceTranslated ==
  ASSUME NEW t \in Messages, t.says = 0, t.quoted = 0, t.run # "end"
  PROVE  LET i == Rule(t.needles)
             once == translate_error(t)
             twice == translate_error(once)
         IN  /\ i # 0 => once.says = i /\ twice.says = i /\ twice.run # "inside"
             /\ i = 0 => twice = [t EXCEPT !.quoted = 2]
<1> DEFINE i == Rule(t.needles)
           once == translate_error(t)
           twice == translate_error(once)
<1>1. i \in 0..17 /\ NoReason = 18 /\ NoText = 19
  BY RuleIsFirst, RuleDomain DEF NoReason, NoText
<1>2. ASSUME i # 0 PROVE once.says = i /\ twice.says = i /\ twice.run # "inside"
  <2>1. once = [needles |-> Quotes(i), says |-> i, quoted |-> 0, run |-> "nowhere"]
    BY <1>1, <1>2 DEF translate_error, RunKept
  <2>2. Rule(once.needles) \in {0, i}
    BY <1>1, <1>2, <2>1, QuotesItself
  <2>3. CASE Rule(once.needles) = 0
    <3>1. twice = [once EXCEPT !.quoted = @ + 1, !.run = RunKept(once, FALSE)]
      BY <1>1, <2>1, <2>3 DEF translate_error
    <3>2. RunKept(once, FALSE) = "nowhere"
      BY <2>1 DEF RunKept
    <3> HIDE DEF once, twice, i
    <3> QED
      BY <2>1, <3>1, <3>2
  <2>4. CASE Rule(once.needles) = i
    <3>1. once.says = i /\ once.run = "nowhere" /\ i # NoText
      BY <1>1, <2>1
    <3>2. RunKept(once, TRUE) = "nowhere"
      BY <3>1 DEF RunKept
    <3> HIDE DEF once, i
    <3>3. twice = [needles |-> Quotes(i), says |-> i, quoted |-> 0, run |-> "nowhere"]
      BY <1>2, <2>4, <3>1, <3>2 DEF translate_error
    <3> QED
      BY <3>1, <3>3
  <2> QED
    BY <2>1, <2>2, <2>3, <2>4
<1>3. ASSUME i = 0 PROVE twice = [t EXCEPT !.quoted = 2]
  <2>1. once = [t EXCEPT !.quoted = @ + 1, !.run = RunKept(t, FALSE)]
    BY <1>1, <1>3 DEF translate_error
  <2>2. RunKept(t, FALSE) = t.run
    BY DEF RunKept, Messages, Spots
  <2> HIDE DEF once
  <2>3. once = [needles |-> t.needles, says |-> 0, quoted |-> 1, run |-> t.run]
    <3>1. t.run \in Spots /\ t.quoted + 1 = 1
      BY DEF Messages
    <3>2. once = [t EXCEPT !.quoted = 1, !.run = t.run]
      BY <2>1, <2>2, <3>1
    <3>3. [t EXCEPT !.quoted = 1, !.run = t.run] =
            [needles |-> t.needles, says |-> t.says, quoted |-> 1, run |-> t.run]
      BY <3>1, Wrapped
    <3> QED
      BY <3>2, <3>3
  <2>4. once.needles = t.needles /\ once.says = 0 /\ once.quoted = 1 /\ once.run = t.run
    BY <2>3
  <2>5. twice = [once EXCEPT !.quoted = @ + 1, !.run = RunKept(once, FALSE)]
    BY <1>1, <1>3, <2>4 DEF translate_error
  <2>6. RunKept(once, FALSE) = t.run
    BY <2>2, <2>4 DEF RunKept
  <2> HIDE DEF twice
  <2>7. twice = [needles |-> t.needles, says |-> 0, quoted |-> 2, run |-> t.run]
    <3>1. once \in Messages /\ t.run \in Spots
      BY <2>3 DEF Messages, Says
    <3>2. once.quoted + 1 \in Nat /\ once.quoted + 1 = 2
      BY <2>4
    <3>3. [once EXCEPT !.quoted = once.quoted + 1, !.run = t.run] =
            [needles |-> once.needles, says |-> once.says, quoted |-> once.quoted + 1, run |-> t.run]
      BY <3>1, <3>2, Wrapped
    <3> QED
      BY <2>4, <2>5, <2>6, <3>2, <3>3
  <2>8. [t EXCEPT !.quoted = 2] = [needles |-> t.needles, says |-> 0, quoted |-> 2, run |-> t.run]
    BY DEF Messages
  <2> QED
    BY <2>7, <2>8
<1> QED
  BY <1>2, <1>3

--------------------------------------------------------------------------------
(* The invariant: each party has what the one before it made of the fault     *)

\* Texts of exceptions, and what Dify answers: not translated yet.
Incoming == {t \in Messages : t = Empty \/ (t.says = 0 /\ t.quoted = 0)}
Bodies == {t \in Messages : t.says = 0 /\ t.quoted = 0 /\ t.run # "end"}
Faults == [classes : Kinds \cup {{}, {"ValueError"}}, text : Incoming]
Screens == [code : Codes, status : Nat, message : Messages]

\* A text with something to read in it.
Readable(t) == t \in Messages /\ t.says # NoText /\ (t.says # 0 \/ t.quoted > 0)

Numeric(d) == d.type \in {"number", "array[number]"}

Loading ==
  /\ pc \in {"load", "run", "handle", "stream", "answer", "ask", "reply", "done"}
  /\ pc = "run" => default = None
  /\ pc = "load" => default \in Defaults
  /\ default # None => default \in Defaults
  /\ default # None /\ pc # "load" => Numeric(default) \/ fault.classes = {"ValueError"}
  /\ pc \notin {"load", "run"} => fault \in Faults

Handling ==
  /\ pc \in {"load", "run", "handle"} => err = None /\ stored = None
  /\ pc \notin {"load", "run", "handle"} => err = Handled(fault) /\ stored \in {None, ErrorToDesc(err)}

Showing ==
  /\ shown # None => pc = "done" /\ shown = ErrorToStreamResponse(err)
  /\ heard # None => pc \in {"reply", "done"} /\ body \in Bodies /\ heard = translate_error(body)
  /\ pc \in {"ask", "reply"} => body \in Bodies
  /\ pc = "reply" => heard = translate_error(body)
  /\ reply # None => pc = "done" /\ Readable(reply)
  /\ reply # None /\ heard # None => reply = translate_error(heard)
  /\ pc = "done" => shown # None \/ reply # None

EInv == Loading /\ Handling /\ Showing

LEMMA NoMessageIsNone == None \notin Messages /\ None \notin Screens
BY ErrorPathAssumption DEF ErrorPathAssumption, Messages, Screens

LEMMA RawIsIncoming ==
  ASSUME NEW N \in SUBSET Needles, NEW r \in Spots
  PROVE  Raw(N, r) \in Incoming /\ (r # "end" => Raw(N, r) \in Bodies)
<1>1. 0 \in Says
  BY RuleDomain DEF Says, NoText
<1>2. Raw(N, r) = [needles |-> N, says |-> 0, quoted |-> 0, run |-> r]
  BY DEF Raw
<1>3. Raw(N, r) \in Messages
  BY <1>1, <1>2, MessageTyped
<1> QED
  BY <1>2, <1>3 DEF Incoming, Bodies

\* The needles that the code writes down itself.
LEMMA NeedlesOfCode ==
  /\ "incorrect api key" \in Needles /\ "dify quota" \in Needles
  /\ "internal server error" \in Needles /\ "provider_not_initialize" \in Needles
  /\ "timed out" \in Needles
<1>1. /\ "incorrect api key" \in Rules[5] /\ "provider_not_initialize" \in Rules[7]
      /\ "dify quota" \in Rules[8] /\ "timed out" \in Rules[14]
      /\ "internal server error" \in Rules[17]
  BY DEF Rules
<1>2. ASSUME NEW i \in 1..17, NEW x \in Rules[i] PROVE x \in Needles
  BY RuleDomain DEF Needles
<1>3. 5 \in 1..17 /\ 7 \in 1..17 /\ 8 \in 1..17 /\ 14 \in 1..17 /\ 17 \in 1..17
  OBVIOUS
<1> QED
  BY <1>1, <1>2, <1>3, Zenon

LEMMA TextsCome == Texts \subseteq Incoming
<1> SUFFICES ASSUME NEW t \in Texts PROVE t \in Incoming
  OBVIOUS
<1>1. t = Empty \/ (t.needles \subseteq Needles /\ t.run \in Spots /\ t = Raw(t.needles, t.run))
  BY ErrorPathAssumption DEF ErrorPathAssumption
<1>2. CASE t = Empty
  <2>1. NoText \in Says /\ "nowhere" \in Spots
    BY RuleDomain DEF Says, NoText, Spots
  <2>2. t = [needles |-> {}, says |-> NoText, quoted |-> 0, run |-> "nowhere"]
    BY <1>2 DEF Empty, Raw
  <2>3. t \in Messages
    BY <2>1, <2>2, MessageTyped
  <2> QED
    BY <1>2, <2>3 DEF Incoming
<1>3. CASE t # Empty
  BY <1>1, <1>3, RawIsIncoming
<1> QED
  BY <1>2, <1>3

\* Whatever handle_error() is given, what it passes on is a fault again.
LEMMA HandledTyped == ASSUME NEW e \in Faults PROVE Handled(e) \in Faults
<1>1. Raw({"incorrect api key"}, "nowhere") \in Incoming
  BY NeedlesOfCode, RawIsIncoming DEF Spots
<1> QED
  BY <1>1 DEF Handled, Exception, Faults

LEMMA FixedTexts == Readable(QuotaText) /\ Readable(InternalText)
<1>1. Raw({"dify quota"}, "nowhere") \in Messages
  BY NeedlesOfCode, RawIsIncoming DEF Spots, Incoming
<1>2. Raw({"internal server error"}, "nowhere") \in Messages
  BY NeedlesOfCode, RawIsIncoming DEF Spots, Incoming
<1> QED
  BY <1>1, <1>2, TranslationSays DEF QuotaText, InternalText, Readable

LEMMA DescTyped == ASSUME NEW e \in Faults PROVE Readable(ErrorToDesc(e))
<1>1. e.text \in Messages
  BY DEF Faults, Incoming
<1> QED
  BY <1>1, FixedTexts, TranslationSays DEF ErrorToDesc, Readable

\* The entry of the table is the last class that fits.
LEMMA EntryIsLast ==
  ASSUME NEW e
  PROVE  \/ Entry(e) = "none" /\ \A i \in 1..7 : Table[i] \notin e.classes
         \/ \E i \in 1..7 : /\ Entry(e) = Table[i] /\ Table[i] \in e.classes
                            /\ \A j \in 1..7 : Table[j] \in e.classes => j <= i
<1> DEFINE fits == {i \in DOMAIN Table : Table[i] \in e.classes}
<1>1. DOMAIN Table = 1..7
  BY DEF Table
<1>2. CASE fits = {}
  BY <1>1, <1>2 DEF Entry
<1>3. CASE fits # {}
  <2>1. fits \in SUBSET (1..7)
    BY <1>1
  <2> HIDE DEF fits
  <2>2. \E i \in fits : \A j \in fits : j <= i
    BY <1>3, <2>1, LastOfTable
  <2> DEFINE last == CHOOSE i \in fits : \A j \in fits : j <= i
  <2>3. last \in fits /\ \A j \in fits : j <= last
    BY <2>2
  <2>4. Entry(e) = Table[last]
    BY <1>3 DEF Entry, fits
  <2> HIDE DEF last
  <2> QED
    BY <1>1, <2>3, <2>4 DEF fits
<1> QED
  BY <1>2, <1>3

LEMMA ResponseTyped ==
  ASSUME NEW e \in Faults
  PROVE  /\ ErrorToStreamResponse(e) \in Screens
         /\ Readable(ErrorToStreamResponse(e).message)
<1>1. e.text \in Messages
  BY DEF Faults, Incoming
<1>2. Readable(translate_error(e.text))
  BY <1>1, TranslationSays DEF Readable
<1>3. CASE Entry(e) = "none"
  <2>1. ErrorToStreamResponse(e) =
          [code |-> "internal_server_error", status |-> 500, message |-> InternalText]
    BY <1>3 DEF ErrorToStreamResponse
  <2>2. "internal_server_error" \in Codes /\ 500 \in Nat
    BY DEF Codes
  <2>3. InternalText \in Messages
    BY FixedTexts DEF Readable
  <2>4. ErrorToStreamResponse(e) \in Screens
    BY <2>1, <2>2, <2>3 DEF Screens
  <2>5. ErrorToStreamResponse(e).message = InternalText
    BY <2>1
  <2> QED
    BY <2>4, <2>5, FixedTexts
<1>4. CASE Entry(e) # "none"
  <2> DEFINE m == IF Entry(e) = "QuotaExceededError" THEN QuotaText ELSE translate_error(e.text)
             n == IF Entry(e) = "InvokeRateLimitError" THEN 429 ELSE 400
  <2>1. ErrorToStreamResponse(e) = [code |-> Code(Entry(e)), status |-> n, message |-> m]
    BY <1>4 DEF ErrorToStreamResponse
  <2>2. Readable(m)
    BY <1>2, FixedTexts
  <2>3. n \in Nat
    OBVIOUS
  <2>4. Code(Entry(e)) \in Codes
    BY DEF Code, Codes
  <2> HIDE DEF m, n
  <2> QED
    BY <2>1, <2>2, <2>3, <2>4 DEF Screens, Readable
<1> QED
  BY <1>3, <1>4

\* A run id at the end is put back, whether a rule matches or none.
LEMMA EndIsPutBack ==
  ASSUME NEW t \in Messages, t.says = 0, t.run = "end"
  PROVE  translate_error(t).run = "inside"
<1> DEFINE i == Rule(t.needles)
<1>1. t.says # NoText
  BY RuleDomain DEF NoText
<1>2. RunKept(t, TRUE) = "inside" /\ RunKept(t, FALSE) = "inside"
  BY DEF RunKept
<1>3. CASE i # 0
  <2>1. translate_error(t) = [needles |-> Quotes(i), says |-> i, quoted |-> 0, run |-> "inside"]
    BY <1>1, <1>2, <1>3 DEF translate_error
  <2> QED
    BY <2>1
<1>4. CASE i = 0
  <2>1. translate_error(t) = [t EXCEPT !.quoted = t.quoted + 1, !.run = "inside"]
    BY <1>1, <1>2, <1>4 DEF translate_error
  <2>2. t.quoted + 1 \in Nat /\ "inside" \in Spots
    BY DEF Messages, Spots
  <2>3. translate_error(t) = [needles |-> t.needles, says |-> t.says,
                              quoted |-> t.quoted + 1, run |-> "inside"]
    BY <2>1, <2>2, Wrapped
  <2> QED
    BY <2>3
<1> QED
  BY <1>3, <1>4

\* The message of a refusal cannot be written only where numbers are expected.
LEMMA RefusalIsNamed ==
  ASSUME NEW t \in Types, NEW v, t \notin {"number", "array[number]"}
  PROVE  Validated(t, v).error # "AttributeError"
<1>1. Base(t) # NumberTypes
  BY DEF Base, NumberTypes
<1>2. t \in DOMAIN Element => Element[t] # NumberTypes
  BY DEF Element, NumberTypes
<1>3. Converted(t, v).is \in Base(t) /\ Converted(t, v).is = "list" => t = "array[file]" \/ t \in DOMAIN Element
  BY DEF Base, Element, NumberTypes, Types
<1> QED
  BY <1>1, <1>2, <1>3 DEF Validated, Refused, Raised, Ok

LEMMA ErrorInit == Init => EInv
BY DEF Init, EInv, Loading, Handling, Showing

LEMMA ErrorStep == EInv /\ [Next]_vars => EInv'
<1> SUFFICES ASSUME EInv, [Next]_vars PROVE EInv'
  OBVIOUS
<1> USE DEF EInv
<1>1. CASE Load
  <2> DEFINE r == Validated(default.type, default.value)
             text == Raw({}, "nowhere")
             classes == IF r.error = "AttributeError" THEN {} ELSE {"ValueError"}
  <2>1. pc = "load" /\ UNCHANGED <<err, stored, shown, body, heard, reply>>
    BY <1>1 DEF Load
  <2>2. \/ pc' = "run" /\ default' = None /\ fault' = fault
        \/ pc' = "handle" /\ default' = default /\ ~r.ok /\ fault' = Exception(classes, text)
    BY <1>1 DEF Load
  <2>3. pc' = "handle" => Numeric(default) \/ fault'.classes = {"ValueError"}
    <3> SUFFICES ASSUME pc' = "handle", ~Numeric(default) PROVE fault'.classes = {"ValueError"}
      OBVIOUS
    <3>1. default.type \in Types
      BY <2>1, ErrorPathAssumption DEF ErrorPathAssumption, Loading
    <3>2. r.error # "AttributeError"
      BY <3>1, RefusalIsNamed DEF Numeric
    <3> QED
      BY <2>2, <3>2 DEF Exception
  <2>4. pc' = "handle" => fault' \in Faults
    <3>1. text \in Incoming
      BY RawIsIncoming DEF Spots
    <3> QED
      BY <2>2, <3>1 DEF Exception, Faults
  <2>5. Loading'
    BY <2>1, <2>2, <2>3, <2>4 DEF Loading, Numeric
  <2>6. Handling' /\ Showing'
    BY <2>1, <2>2 DEF Handling, Showing
  <2> QED
    BY <2>5, <2>6
<1>2. CASE RunFails
  <2>1. fault' \in Faults
    <3>1. fault' \in Exceptions
      BY <1>2 DEF RunFails
    <3> QED
      BY <3>1, TextsCome DEF Exceptions, Exception, Faults
  <2>2. Loading'
    BY <1>2, <2>1 DEF RunFails, Loading, Numeric
  <2>3. Handling' /\ Showing'
    BY <1>2 DEF RunFails, Handling, Showing
  <2> QED
    BY <2>2, <2>3
<1>3. CASE Handle
  <2>1. err' = Handled(fault') /\ stored' \in {None, ErrorToDesc(err')}
    BY <1>3 DEF Handle
  <2>2. Loading'
    BY <1>3 DEF Handle, Loading, Numeric
  <2>3. Handling'
    BY <1>3, <2>1 DEF Handle, Handling
  <2>4. Showing'
    BY <1>3 DEF Handle, Showing
  <2> QED
    BY <2>2, <2>3, <2>4
<1>4. CASE Stream
  <2>1. err \in Faults
    BY <1>4, HandledTyped DEF Stream, Loading, Handling
  <2>2. shown' = ErrorToStreamResponse(err') /\ shown' # None
    BY <1>4, <2>1, ResponseTyped, NoMessageIsNone DEF Stream
  <2>3. Loading' /\ Handling'
    BY <1>4 DEF Stream, Loading, Handling, Numeric
  <2>4. Showing'
    BY <1>4, <2>2 DEF Stream, Showing
  <2> QED
    BY <2>3, <2>4
<1>5. CASE Answer
  <2>1. err \in Faults
    BY <1>5, HandledTyped DEF Answer, Loading, Handling
  <2>2. err.text.needles \subseteq Needles
    BY <2>1 DEF Faults, Incoming, Messages
  <2>3. body' \in Bodies
    <3>1. PICK seen \in SUBSET err.text.needles : \E run \in {"inside", "nowhere"} :
             body' = Raw(IF Entry(err) = "ProviderTokenNotInitError"
                         THEN seen \cup {"provider_not_initialize"} ELSE seen, run)
      BY <1>5 DEF Answer
    <3> DEFINE N == IF Entry(err) = "ProviderTokenNotInitError"
                    THEN seen \cup {"provider_not_initialize"} ELSE seen
    <3>2. PICK run \in {"inside", "nowhere"} : body' = Raw(N, run)
      BY <3>1
    <3>3. N \in SUBSET Needles
      BY <2>2, NeedlesOfCode
    <3> HIDE DEF N
    <3>4. run \in Spots /\ run # "end"
      BY DEF Spots
    <3> QED
      BY <3>2, <3>3, <3>4, RawIsIncoming
  <2>4. Loading' /\ Handling'
    BY <1>5 DEF Answer, Loading, Handling, Numeric
  <2>5. Showing'
    BY <1>5, <2>3 DEF Answer, Showing
  <2> QED
    BY <2>4, <2>5
<1>6. CASE AskFails
  <2>1. heard' = translate_error(body') /\ body' \in Bodies
    BY <1>6 DEF AskFails, Showing
  <2>2. Loading' /\ Handling'
    BY <1>6 DEF AskFails, Loading, Handling, Numeric
  <2>3. Showing'
    BY <1>6, <2>1 DEF AskFails, Showing
  <2> QED
    BY <2>2, <2>3
<1>7. CASE AskLost
  <2>1. Readable(reply')
    <3>1. /\ Raw({}, "nowhere") \in Messages
          /\ Raw({"timed out"}, "nowhere") \in Messages
      BY RawIsIncoming, NeedlesOfCode DEF Incoming, Spots
    <3>2. \E text \in Messages : reply' = translate_error(text)
      BY <1>7, <3>1 DEF AskLost
    <3> QED
      BY <3>2, TranslationSays DEF Readable
  <2>2. heard' = None /\ reply' # None
    BY <1>7, <2>1, NoMessageIsNone DEF AskLost, Showing, Readable
  <2>3. Loading' /\ Handling'
    BY <1>7 DEF AskLost, Loading, Handling, Numeric
  <2>4. Showing'
    BY <1>7, <2>1, <2>2 DEF AskLost, Showing
  <2> QED
    BY <2>3, <2>4
<1>8. CASE Reply
  <2>1. heard \in Messages
    <3>1. heard = translate_error(body) /\ body \in Messages
      BY <1>8 DEF Reply, Showing, Bodies
    <3> QED
      BY <3>1, TranslationSays
  <2>2. reply' = translate_error(heard') /\ Readable(reply') /\ reply' # None
    BY <1>8, <2>1, TranslationSays, NoMessageIsNone DEF Reply, Readable
  <2>3. Loading' /\ Handling'
    BY <1>8 DEF Reply, Loading, Handling, Numeric
  <2>4. Showing'
    BY <1>8, <2>2 DEF Reply, Showing
  <2> QED
    BY <2>3, <2>4
<1>9. CASE UNCHANGED vars
  BY <1>9 DEF vars, Loading, Handling, Showing, Numeric
<1> QED
  BY <1>1, <1>2, <1>3, <1>4, <1>5, <1>6, <1>7, <1>8, <1>9 DEF Next

\* In every reachable state each party holds what its part of the code made of the
\* fault, and whoever got an answer can read something in it.
THEOREM ErrorSafety == Spec => []EInv
<1> QED
  BY ErrorInit, ErrorStep, PTL DEF Spec

--------------------------------------------------------------------------------
(* What a person reads                                                        *)

\* The bridge translates Dify's answer in _ask_dify() and again in process(): whatever
\* the answer, the second translation leaves the explanation of the first, or quotes
\* the same text once more.
THEOREM ReasonsStay == Spec => []ReasonStays
<1>1. EInv => ReasonStays
  <2> SUFFICES ASSUME EInv, heard # None, reply # None
               PROVE  LET i == Rule(body.needles)
                      IN  /\ i # 0 => heard.says = i /\ reply.says = i
                          /\ i = 0 => reply = [body EXCEPT !.quoted = 2]
    BY DEF ReasonStays
  <2>1. body \in Bodies /\ heard = translate_error(body) /\ reply = translate_error(heard)
    BY DEF EInv, Showing
  <2> QED
    BY <2>1, TwiceTranslated DEF Bodies
<1> QED
  BY <1>1, ErrorSafety, PTL

\* A run id at the end of an exception's text is cut off and put back by
\* translate_error(), so it is in the stored and in the shown error; in DingTalk it
\* survives exactly when no rule recognised Dify's answer.
THEOREM RunIdsAreKept == Spec => []RunIdKept
<1>1. EInv => RunIdKept
  <2> SUFFICES ASSUME EInv PROVE RunIdKept
    OBVIOUS
  <2>1. ASSUME err # None, err.text.run = "end", "QuotaExceededError" \notin err.classes
        PROVE  /\ stored # None => stored.run = "inside"
               /\ shown # None /\ Entry(err) # "none" => shown.message.run = "inside"
    <3>1. err \in Faults /\ stored \in {None, ErrorToDesc(err)}
      BY <2>1, HandledTyped DEF EInv, Handling, Loading
    <3>2. err.text # Empty /\ err.text \in Incoming
      BY <2>1, <3>1 DEF Empty, Raw, Faults
    <3>3. err.text.says = 0 /\ err.text \in Messages
      BY <3>2 DEF Incoming
    <3>4. translate_error(err.text).run = "inside"
      BY <2>1, <3>3, EndIsPutBack
    <3>5. stored # None => stored = translate_error(err.text)
      BY <2>1, <3>1, <3>2 DEF ErrorToDesc
    <3>6. ASSUME Entry(err) # "none" PROVE ErrorToStreamResponse(err).message = translate_error(err.text)
      <4>1. Entry(err) \in err.classes
        BY <3>6, EntryIsLast
      <4>2. Entry(err) # "QuotaExceededError"
        BY <2>1, <4>1
      <4> QED
        BY <3>6, <4>2 DEF ErrorToStreamResponse
    <3>7. shown # None => shown = ErrorToStreamResponse(err)
      BY DEF EInv, Showing
    <3> QED
      BY <3>4, <3>5, <3>6, <3>7
  <2>2. ASSUME reply # None, heard # None
        PROVE  (reply.run = "inside") = (body.run = "inside" /\ Rule(body.needles) = 0)
    <3>1. body \in Bodies /\ heard = translate_error(body) /\ reply = translate_error(heard)
      BY <2>2 DEF EInv, Showing
    <3>2. Rule(body.needles) # 0 => reply.run # "inside"
      BY <3>1, TwiceTranslated DEF Bodies
    <3>3. Rule(body.needles) = 0 => reply = [body EXCEPT !.quoted = 2]
      BY <3>1, TwiceTranslated DEF Bodies
    <3>4. [body EXCEPT !.quoted = 2].run = body.run
      BY <3>1 DEF Bodies, Messages
    <3> QED
      BY <3>2, <3>3, <3>4
  <2> QED
    BY <2>1, <2>2 DEF RunIdKept
<1> QED
  BY <1>1, ErrorSafety, PTL

--------------------------------------------------------------------------------
(* What the message keeps and what the web client sees                        *)

\* An exhausted quota is no exception of the classes the table tries after it.
QuotaIsLast ==
  \A k \in Kinds : "QuotaExceededError" \in k =>
    k \cap {"ModelCurrentlyNotSupportError", "InvokeError", "AgentBackendError",
            "InvokeRateLimitError"} = {}

LEMMA TableEntries ==
  /\ Table[1] = "ValueError" /\ Table[2] = "ProviderTokenNotInitError"
  /\ Table[3] = "QuotaExceededError" /\ Table[4] = "ModelCurrentlyNotSupportError"
  /\ Table[5] = "InvokeError" /\ Table[6] = "AgentBackendError"
  /\ Table[7] = "InvokeRateLimitError"
BY DEF Table

LEMMA QuotaEntry ==
  ASSUME QuotaIsLast, NEW e \in Faults
  PROVE  Entry(e) = "QuotaExceededError" <=> "QuotaExceededError" \in e.classes
<1>1. ASSUME Entry(e) = "QuotaExceededError" PROVE "QuotaExceededError" \in e.classes
  BY <1>1, EntryIsLast
<1>2. ASSUME "QuotaExceededError" \in e.classes PROVE Entry(e) = "QuotaExceededError"
  <2>1. e.classes \in Kinds
    BY <1>2 DEF Faults
  <2>2. \A i \in {4, 5, 6, 7} : Table[i] \notin e.classes
    BY <1>2, <2>1, TableEntries DEF QuotaIsLast
  <2>3. PICK i \in 1..7 : /\ Entry(e) = Table[i] /\ Table[i] \in e.classes
                          /\ \A j \in 1..7 : Table[j] \in e.classes => j <= i
    BY <1>2, TableEntries, EntryIsLast
  <2>4. i >= 3 /\ i \notin {4, 5, 6, 7}
    BY <1>2, <2>2, <2>3, TableEntries
  <2> QED
    BY <2>3, <2>4, TableEntries
<1> QED
  BY <1>1, <1>2

\* _error_to_desc() and _error_to_stream_response() decide on their own, one by the
\* quota class first, the other by the last entry of its table: they agree while no
\* later entry fits an exhausted quota.
THEOREM ShownIsStored == ASSUME QuotaIsLast PROVE Spec => []StoredIsShown
<1>1. EInv => StoredIsShown
  <2> SUFFICES ASSUME EInv PROVE StoredIsShown
    OBVIOUS
  <2>1. pc = "done" => shown # None \/ reply # None
    BY DEF EInv, Showing
  <2>2. ASSUME stored # None PROVE Readable(stored)
    <3>1. err \in Faults /\ stored = ErrorToDesc(err)
      BY <2>2, HandledTyped DEF EInv, Handling, Loading
    <3> QED
      BY <3>1, DescTyped
  <2>3. ASSUME heard # None PROVE Readable(heard)
    BY <2>3, TranslationSays DEF EInv, Showing, Bodies, Readable
  <2>4. reply # None => Readable(reply)
    BY DEF EInv, Showing
  <2>5. ASSUME shown # None PROVE err \in Faults /\ shown = ErrorToStreamResponse(err)
    BY <2>5, HandledTyped DEF EInv, Handling, Loading, Showing
  <2>6. shown # None => Readable(shown.message)
    BY <2>5, ResponseTyped
  <2>7. ASSUME stored # None, shown # None, Entry(err) # "none", err.text # Empty
        PROVE  stored = shown.message
    <3>1. err \in Faults /\ stored = ErrorToDesc(err) /\ shown = ErrorToStreamResponse(err)
      BY <2>5, <2>7 DEF EInv, Handling, Showing
    <3>2. Entry(err) = "QuotaExceededError" <=> "QuotaExceededError" \in err.classes
      BY <2>7, <3>1, QuotaEntry
    <3> QED
      BY <2>7, <3>1, <3>2 DEF ErrorToDesc, ErrorToStreamResponse
  <2> QED
    BY <2>1, <2>2, <2>3, <2>4, <2>6, <2>7 DEF StoredIsShown, Readable
<1> QED
  BY <1>1, ErrorSafety, PTL

--------------------------------------------------------------------------------
(* The table of the response converter                                        *)

\* Every instance of class a is one of class b.
Derived(a, b) == \A k \in Kinds : a \in k => b \in k

\* Two classes of the table that one exception has are one derived from the other,
\* and a class that is derived from another stands after it.
TableFollowsClasses ==
  /\ \A k \in Kinds : \A a \in k \cap Listed, b \in k \cap Listed : Derived(a, b) \/ Derived(b, a)
  /\ \A i \in 1..7, j \in 1..7 : Derived(Table[i], Table[j]) /\ ~Derived(Table[j], Table[i]) => j < i

\* _error_to_stream_response() takes the last entry that fits, not the closest class:
\* in a table that lists base classes before derived ones this is the most special
\* class of the exception.
THEOREM LastIsMostSpecial == ASSUME TableFollowsClasses PROVE Spec => []SpecialClassWins
<1>1. EInv => SpecialClassWins
  <2> SUFFICES ASSUME EInv, shown # None, err.classes \in Kinds, err.classes \cap Listed # {}
               PROVE  \E class \in err.classes \cap Listed :
                        /\ shown.code = Code(class)
                        /\ \A k \in Kinds : class \in k => err.classes \cap Listed \subseteq k
    BY DEF SpecialClassWins
  <2>1. Listed = {Table[i] : i \in 1..7} /\ "none" \notin Listed
    <3>1. DOMAIN Table = 1..7
      BY DEF Table
    <3> QED
      BY <3>1, TableEntries DEF Listed
  <2>2. PICK i \in 1..7 : /\ Entry(err) = Table[i] /\ Table[i] \in err.classes
                          /\ \A j \in 1..7 : Table[j] \in err.classes => j <= i
    BY <2>1, EntryIsLast
  <2>3. Table[i] \in err.classes \cap Listed /\ Table[i] # "none"
    BY <2>1, <2>2
  <2>4. shown.code = Code(Table[i])
    BY <2>2, <2>3 DEF EInv, Showing, ErrorToStreamResponse
  <2>5. ASSUME NEW k \in Kinds, Table[i] \in k, NEW class \in err.classes \cap Listed PROVE class \in k
    <3>1. PICK j \in 1..7 : class = Table[j]
      BY <2>1
    <3>2. j <= i
      BY <2>2, <2>5, <3>1
    <3>3. Derived(Table[i], Table[j]) \/ Derived(Table[j], Table[i])
      BY <2>3, <2>5, <3>1 DEF TableFollowsClasses
    <3>4. Derived(Table[i], Table[j])
      BY <3>2, <3>3 DEF TableFollowsClasses
    <3> QED
      BY <2>5, <3>1, <3>4 DEF Derived
  <2> QED
    BY <2>3, <2>4, <2>5
<1> QED
  BY <1>1, ErrorSafety, PTL

--------------------------------------------------------------------------------
(* Default values                                                             *)

\* validate_value_type() ends where it began when it is given what it returned.
LEMMA ValidatedAgain ==
  ASSUME NEW t \in Types, NEW v, Validated(t, v).ok
  PROVE  LET r == Validated(t, v)
         IN  /\ t # "array[file]" => r.value.is \in Base(t)
             /\ t \in DOMAIN Element => r.value.of \subseteq Element[t]
             /\ Validated(t, r.value) = r
<1> DEFINE w == Converted(t, v)
           r == Validated(t, v)
<1>1. CASE t = "array[file]"
  <2>1. t \notin DOMAIN Element
    BY <1>1 DEF Element
  <2>2. r = Ok(v) /\ r.value = v
    BY <1>1 DEF Validated, Ok
  <2>3. Validated(t, v) = Ok(v)
    BY <1>1 DEF Validated
  <2> QED
    BY <1>1, <2>1, <2>2, <2>3
<1>2. CASE t # "array[file]"
  <2>1. /\ w.is \in Base(t)
        /\ ~(w.is = "list" /\ ~(w.of \subseteq Element[t]))
        /\ r = Ok(w)
    BY <1>2 DEF Validated, Refused, Raised
  <2>2. t \in DOMAIN Element => w.is = "list"
    BY <2>1 DEF Element, Base
  <2>3. w.is = "string" => t = "string"
    BY <1>2, <2>1 DEF Base, NumberTypes, Types
  <2>4. Converted(t, w) = w
    BY <2>3 DEF Converted
  <2>5. r.value = w
    BY <2>1 DEF Ok
  <2> HIDE DEF w, r
  <2>6. Validated(t, w) = Ok(w)
    BY <1>2, <2>1, <2>3, <2>4 DEF Validated
  <2> QED
    BY <1>2, <2>1, <2>2, <2>5, <2>6 DEF r
<1> QED
  BY <1>1, <1>2

\* A default value that passes when the graph is stored passes again, unchanged, when
\* it is loaded; a refused one is answered with 400 unless a number was expected,
\* where naming the expected type raises another exception.
THEOREM DefaultsHold == Spec => []DefaultHolds
<1>1. EInv => DefaultHolds
  <2> SUFFICES ASSUME EInv PROVE DefaultHolds
    OBVIOUS
  <2>1. ASSUME pc = "load" PROVE default.type \in Types
    BY <2>1, ErrorPathAssumption DEF EInv, Loading, ErrorPathAssumption
  <2>2. ASSUME shown # None, default # None, ~Numeric(default) PROVE shown.status = 400
    <3>1. /\ fault.classes = {"ValueError"} /\ err = Handled(fault)
          /\ shown = ErrorToStreamResponse(err)
      BY <2>2 DEF EInv, Loading, Handling, Showing
    <3>2. err = fault
      BY <3>1 DEF Handled
    <3>3. Entry(err) = "ValueError"
      BY <3>1, <3>2, TableEntries, EntryIsLast
    <3> QED
      BY <3>1, <3>3 DEF ErrorToStreamResponse
  <2> QED
    BY <2>1, <2>2, ValidatedAgain DEF DefaultHolds, Numeric
<1> QED
  BY <1>1, ErrorSafety, PTL
================================================================================
