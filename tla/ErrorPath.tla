------------------------------ MODULE ErrorPath ------------------------------
(***************************************************************************)
(* The way of an error of a Dify run to a person: handle_error() keeps its *)
(* text in the message, the response converter shows it to a web client,   *)
(* or Dify's API answers it to the bridge, which translates it twice,      *)
(* in _ask_dify() and in process().  Both patched Dify classes call        *)
(* translate_error(); a run may also fail when its graph is loaded, on a   *)
(* default value.  Dify's controllers and its exception classes are        *)
(* external.                                                               *)
(***************************************************************************)
EXTENDS ErrorI18n, NodeData

CONSTANTS
  Kinds,     \* exceptions, each as the set of the classes it is an instance of
  Texts,     \* their texts
  Defaults,  \* default values of nodes: records [type, value]
  None       \* nothing there

\* error_responses of _error_to_stream_response(), in its order.
\* Mutant: the most special class first.
BugTable == <<"InvokeRateLimitError", "ValueError", "ProviderTokenNotInitError",
  "QuotaExceededError", "ModelCurrentlyNotSupportError", "InvokeError", "AgentBackendError">>
Table == <<"ValueError", "ProviderTokenNotInitError", "QuotaExceededError",
  "ModelCurrentlyNotSupportError", "InvokeError", "AgentBackendError",
  "InvokeRateLimitError">>

Listed == {Table[i] : i \in DOMAIN Table}
Classes == Listed \cup {"InvokeAuthorizationError"}

Code(class) ==
  CASE class = "ValueError" -> "invalid_param"
    [] class = "ProviderTokenNotInitError" -> "provider_not_initialize"
    [] class = "QuotaExceededError" -> "provider_quota_exceeded"
    [] class = "ModelCurrentlyNotSupportError" -> "model_currently_not_support"
    [] class = "InvokeRateLimitError" -> "rate_limit_error"
    [] OTHER -> "completion_request_error"

Codes == {"invalid_param", "provider_not_initialize", "provider_quota_exceeded",
          "model_currently_not_support", "rate_limit_error", "completion_request_error",
          "internal_server_error"}

ASSUME ErrorPathAssumption ==
  /\ Kinds \subseteq SUBSET Classes
  /\ Empty \in Texts
  /\ \A t \in Texts :
       t = Empty \/ (t.needles \subseteq Needles /\ t.run \in Spots /\ t = Raw(t.needles, t.run))
  /\ LET messages == [needles : SUBSET Needles, says : Says, quoted : Nat, run : Spots]
     IN  None \notin messages \cup [code : Codes, status : Nat, message : messages]
  /\ \A d \in Defaults : d.type \in Types

VARIABLES
  pc,       \* where the error is
  default,  \* the default value of a node that is being loaded
  fault,    \* the exception raised: [classes, text]
  err,      \* what handle_error() makes of it
  stored,   \* message.error, when the message has its row already
  shown,    \* what a web client is sent: [code, status, message]
  body,     \* Dify's answer to the bridge, as much of it as the bridge looks at
  heard,    \* the bridge's RuntimeError
  reply     \* what a person in DingTalk reads

vars == <<pc, default, fault, err, stored, shown, body, heard, reply>>

Exception(classes, text) == [classes |-> classes, text |-> text]
Exceptions == {Exception(k, t) : k \in Kinds, t \in Texts}

Init ==
  /\ \/ pc = "load" /\ default \in Defaults
     \/ pc = "run" /\ default = None
  /\ fault = None
  /\ err = None
  /\ stored = None
  /\ shown = None
  /\ body = None
  /\ heard = None
  /\ reply = None

\* The graph is validated when it is loaded.  A refused default value is a
\* ValueError to the caller (pydantic's); another exception stays what it is.
Load ==
  /\ pc = "load"
  /\ LET r == Validated(default.type, default.value)
     IN  \/ /\ r.ok
            /\ pc' = "run"
            /\ default' = None
            /\ UNCHANGED fault
         \/ /\ ~r.ok
            /\ pc' = "handle"
            /\ fault' = Exception(IF r.error = "AttributeError" THEN {} ELSE {"ValueError"},
                                  Raw({}, "nowhere"))
            /\ UNCHANGED default
  /\ UNCHANGED <<err, stored, shown, body, heard, reply>>

\* A node of the run raises.
RunFails ==
  /\ pc = "run"
  /\ fault' \in Exceptions
  /\ pc' = "handle"
  /\ UNCHANGED <<default, err, stored, shown, body, heard, reply>>

\* handle_error(): an authorization error loses its text, what is no InvokeError,
\* ValueError or AgentBackendError loses its class.
Handled(e) ==
  IF "InvokeAuthorizationError" \in e.classes
  THEN Exception(e.classes, Raw({"incorrect api key"}, "nowhere"))
  ELSE IF e.classes \cap {"InvokeError", "ValueError", "AgentBackendError"} # {} THEN e
  ELSE Exception({}, e.text)

QuotaText == translate_error(Raw({"dify quota"}, "nowhere"))
InternalText == translate_error(Raw({"internal server error"}, "nowhere"))

\* Mutant: a quota error is stored with its own short description.
BugErrorToDesc(e) == IF e.text = Empty THEN InternalText ELSE translate_error(e.text)

\* _error_to_desc()
ErrorToDesc(e) ==
  IF "QuotaExceededError" \in e.classes THEN QuotaText
  ELSE IF e.text = Empty THEN InternalText ELSE translate_error(e.text)

\* Without a row of the message the text is not kept.
Handle ==
  /\ pc = "handle"
  /\ err' = Handled(fault)
  /\ stored' \in {None, ErrorToDesc(err')}
  /\ pc' \in {"stream", "answer"}
  /\ UNCHANGED <<default, fault, shown, body, heard, reply>>

\* _error_to_stream_response(): the last class of the table that fits.
Entry(e) ==
  LET fits == {i \in DOMAIN Table : Table[i] \in e.classes}
  IN  IF fits = {} THEN "none" ELSE Table[CHOOSE i \in fits : \A j \in fits : j <= i]

ErrorToStreamResponse(e) ==
  LET class == Entry(e)
  IN  IF class = "none"
      THEN [code |-> "internal_server_error", status |-> 500, message |-> InternalText]
      ELSE [code |-> Code(class), status |-> IF class = "InvokeRateLimitError" THEN 429 ELSE 400,
            message |-> IF class = "QuotaExceededError" THEN QuotaText
                        ELSE translate_error(e.text)]

Stream ==
  /\ pc = "stream"
  /\ shown' = ErrorToStreamResponse(err)
  /\ pc' = "done"
  /\ UNCHANGED <<default, fault, err, stored, body, heard, reply>>

\* Dify's API answers a JSON object with a code and the text as it is.  The bridge
\* looks at 800 characters, in which the code comes first and of a long text only
\* some is left.
Answer ==
  /\ pc = "answer"
  /\ \E seen \in SUBSET err.text.needles, all \in BOOLEAN :
       /\ all => seen = err.text.needles
       /\ body' = Raw(IF Entry(err) = "ProviderTokenNotInitError"
                      THEN seen \cup {"provider_not_initialize"} ELSE seen,
                      IF all /\ err.text.run # "nowhere" THEN "inside" ELSE "nowhere")
  /\ pc' = "ask"
  /\ UNCHANGED <<default, fault, err, stored, shown, heard, reply>>

\* _ask_dify(): an HTTP status raises with the text translated.
AskFails ==
  /\ pc = "ask"
  /\ heard' = translate_error(body)
  /\ pc' = "reply"
  /\ UNCHANGED <<default, fault, err, stored, shown, body, reply>>

\* The answer is lost, or too late: the exception of the HTTP library is translated
\* once.
AskLost ==
  /\ pc = "ask"
  /\ \E text \in {Raw({}, "nowhere"), Raw({"timed out"}, "nowhere")} :
       reply' = translate_error(text)
  /\ pc' = "done"
  /\ UNCHANGED <<default, fault, err, stored, shown, body, heard>>

\* process()
Reply ==
  /\ pc = "reply"
  /\ reply' = translate_error(heard)
  /\ pc' = "done"
  /\ UNCHANGED <<default, fault, err, stored, shown, body, heard>>

Next == Load \/ RunFails \/ Handle \/ Stream \/ Answer \/ AskFails \/ AskLost \/ Reply

Spec == Init /\ [][Next]_vars

--------------------------------------------------------------------------------
\* The bridge translates twice, and the second time does not take the explanation
\* for another error: a person reads the explanation of the first rule that matched
\* Dify's answer, or that answer itself when none did.
ReasonStays ==
  heard # None /\ reply # None =>
    LET i == Rule(body.needles)
    IN  /\ i # 0 => heard.says = i /\ reply.says = i
        /\ i = 0 => reply = [body EXCEPT !.quoted = 2]

\* The agent's run id at the end of an error is in what Dify keeps and shows,
\* recognised or not; in DingTalk it is lost with every answer that is recognised,
\* as it does not stand at the end of the JSON text.
RunIdKept ==
  /\ err # None /\ err.text.run = "end" /\ "QuotaExceededError" \notin err.classes =>
       /\ stored # None => stored.run = "inside"
       /\ shown # None /\ Entry(err) # "none" => shown.message.run = "inside"
  /\ reply # None /\ heard # None =>
       (reply.run = "inside") = (body.run = "inside" /\ Rule(body.needles) = 0)

\* Every path ends with a text for a person or a client, empty texts included; and
\* what the message keeps is what the web client was shown, unless the class of the
\* exception is not in the table or it has no text.
StoredIsShown ==
  /\ pc = "done" => shown # None \/ reply # None
  /\ \A t \in ({stored, heard, reply} \ {None}) \cup (IF shown = None THEN {} ELSE {shown.message}) :
       t.says # NoText /\ (t.says # 0 \/ t.quoted > 0)
  /\ stored # None /\ shown # None /\ Entry(err) # "none" /\ err.text # Empty =>
       stored = shown.message

\* The last matching class decides, and that is the most special one: of the classes
\* of an exception it is one whose instances are instances of them all.
SpecialClassWins ==
  shown # None /\ err.classes \in Kinds /\ err.classes \cap Listed # {} =>
    \E class \in err.classes \cap Listed :
      /\ shown.code = Code(class)
      /\ \A k \in Kinds : class \in k => err.classes \cap Listed \subseteq k

\* A default value that is taken has its declared type, list elements included, and
\* is taken again unchanged the next time the graph is validated.  One that is
\* refused is the client's mistake, 400, not the server's: except that a wrong
\* number, alone or in a list, ends in an AttributeError.
DefaultHolds ==
  /\ pc = "load" =>
       LET r == Validated(default.type, default.value)
       IN  r.ok => /\ default.type # "array[file]" => r.value.is \in Base(default.type)
                   /\ default.type \in DOMAIN Element => r.value.of \subseteq Element[default.type]
                   /\ Validated(default.type, r.value) = r
  /\ shown # None /\ default # None =>
       shown.status = 400 \/ default.type \in {"number", "array[number]"}
================================================================================
