------------------------------ MODULE MCErrorPath ------------------------------
(* Instances of ErrorPath for TLC. *)
EXTENDS ErrorPath

\* Dify's exceptions with their base classes: all of them are ValueErrors but that of
\* an agent's backend.
SomeKinds ==
  {{}, {"ValueError"}, {"ValueError", "ProviderTokenNotInitError"},
   {"ValueError", "QuotaExceededError"}, {"ValueError", "ModelCurrentlyNotSupportError"},
   {"ValueError", "InvokeError"}, {"ValueError", "InvokeError", "InvokeRateLimitError"},
   {"ValueError", "InvokeError", "InvokeAuthorizationError"}, {"AgentBackendError"}}

\* No needle, one, or two of them, with a run id at the end, elsewhere or without.
SomeTexts ==
  {Raw({a, b}, run) : a \in Needles, b \in Needles, run \in Spots}
    \cup {Raw({}, run) : run \in Spots} \cup {Empty}

\* Every type, with values of every type, as they are or written in a string.
SomeLists == {{}, {"number"}, {"string"}, {"object"}, {"number", "bool"}, {"number", "string"}}
SomeDefaults ==
  [type : Types,
   value : {Value(p) : p \in Plain} \cup {List(l) : l \in SomeLists}
             \cup {Str(p, {}) : p \in Plain \cup {"string", "nothing"}}
             \cup {Str("list", l) : l \in SomeLists}]
================================================================================
