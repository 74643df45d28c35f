------------------------------- MODULE NodeData -------------------------------
(***************************************************************************)
(* base_node_data.py: DefaultValue.validate_value_type(), which every node *)
(* of a stored graph passes when it is loaded.  A value is a record whose  *)
(* `is` names its Python type; a string `holds` the value its text reads   *)
(* as, or nothing that parses; a list has elements `of` some types.        *)
(***************************************************************************)
EXTENDS FiniteSets

Types == {"string", "number", "object", "array[number]", "array[string]",
          "array[object]", "array[file]"}

Plain == {"number", "bool", "object", "null"}
Value(is) == [is |-> is, of |-> {}, holds |-> "nothing", elems |-> {}]
List(of) == [Value("list") EXCEPT !.of = of]
\* A string whose text reads as a value of type `holds`, a list with `elems`.
Str(holds, elems) == [Value("string") EXCEPT !.holds = holds, !.elems = elems]

\* isinstance(x, element type): a bool is an int.
NumberTypes == {"number", "bool"}
Element == [t \in {"array[number]", "array[string]", "array[object]"} |->
              CASE t = "array[number]" -> NumberTypes
                [] t = "array[string]" -> {"string"}
                [] OTHER -> {"object"}]

\* The base types of the table of validators.
Base(t) == CASE t = "string" -> {"string"}
             [] t = "number" -> NumberTypes
             [] t = "object" -> {"object"}
             [] OTHER -> {"list"}

\* _convert_number() takes what reads as a number, _parse_json() what is JSON.
Parses(t, v) == IF t = "number" THEN v.holds = "number" ELSE v.holds # "nothing"

\* A string is converted for every type but string.
Converted(t, v) ==
  IF v.is # "string" \/ t = "string" THEN v
  ELSE IF v.holds = "list" THEN List(v.elems) ELSE Value(v.holds)

Ok(v) == [ok |-> TRUE, value |-> v, error |-> "none"]
Raised(error) == [ok |-> FALSE, value |-> Value("null"), error |-> error]

\* The message of a refusal names the expected type; the union int | float has no
\* __name__, so looking it up raises another exception.
Refused(allowed) == Raised(IF allowed = NumberTypes THEN "AttributeError"
                           ELSE "DefaultValueTypeError")

\* Mutant: list elements are not looked at.
BugValidated(t, v) ==
  LET w == Converted(t, v)
  IN  CASE t = "array[file]" -> Ok(v)
        [] v.is = "string" /\ t # "string" /\ ~Parses(t, v) -> Raised("DefaultValueTypeError")
        [] w.is \notin Base(t) -> Refused(Base(t))
        [] OTHER -> Ok(w)

\* validate_value_type(): files are not looked at.
Validated(t, v) ==
  LET w == Converted(t, v)
      unread == v.is = "string" /\ t # "string" /\ ~Parses(t, v)
  IN  IF t = "array[file]" THEN Ok(v)
      ELSE IF unread THEN Raised("DefaultValueTypeError")
      ELSE IF w.is \notin Base(t) THEN Refused(Base(t))
      ELSE IF w.is = "list" /\ ~(w.of \subseteq Element[t]) THEN Refused(Element[t])
      ELSE Ok(w)
================================================================================
