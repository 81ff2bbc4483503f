------------------------------- MODULE Parson -------------------------------
(***************************************************************************)
(* The part of parson (lib/parson.c) that the client reads its             *)
(* configuration with: the parser and json_validate; and what writes a     *)
(* value and compares two.                                                 *)
(***************************************************************************)
EXTENDS JsonValue

LOCAL INSTANCE SequencesExt

CONSTANT MAX_NESTING

ASSUME NestingAssumption == MAX_NESTING \in Nat

\* Mutant of json_object_add: a second member of a name is kept as well.
json_object_add_again(object, name, value) ==
  IF value = NULL THEN NULL
    ELSE [object EXCEPT !.names = Append(@, name), !.values = Append(@, value)]

\* NULL where the code returns JSONFailure: a second member of that name.
json_object_add(object, name, value) ==
  IF json_object_get_value(object, name) # NULL
    THEN NULL
    ELSE [object EXCEPT !.names = Append(@, name), !.values = Append(@, value)]

-----------------------------------------------------------------------------
(* The parser.  Each function is given the text and a position and returns *)
(* the value with the position after it.                                   *)

Failed == [value |-> NULL, pos |-> 0]

Token(text, pos) == IF pos \in DOMAIN text THEN text[pos] ELSE End

RECURSIVE parse_value(_, _, _), Members(_, _, _, _), Items(_, _, _, _)

\* The loop of parse_object_value, from the key at pos.
Members(text, pos, nesting, object) ==
  LET key == Token(text, pos)
      member == parse_value(text, pos + 2, nesting)
      added == json_object_add(object, key.string, member.value)
      next == Token(text, member.pos).type
  IN  IF \/ key.type # "string"
         \/ Token(text, pos + 1).type # ":"
         \/ member.value = NULL
         \/ added = NULL
        THEN Failed
      ELSE CASE next = "," -> Members(text, member.pos + 1, nesting, added)
             [] next = "}" -> [value |-> added, pos |-> member.pos + 1]
             [] OTHER -> Failed

parse_object_value(text, pos, nesting) ==
  IF Token(text, pos + 1).type = "}"
    THEN [value |-> json_value_init_object, pos |-> pos + 2]
    ELSE Members(text, pos + 1, nesting, json_value_init_object)

\* The loop of parse_array_value, from the item at pos.
Items(text, pos, nesting, array) ==
  LET item == parse_value(text, pos, nesting)
      added == [array EXCEPT !.items = Append(@, item.value)]
      next == Token(text, item.pos).type
  IN  IF item.value = NULL
        THEN Failed
      ELSE CASE next = "," -> Items(text, item.pos + 1, nesting, added)
             [] next = "]" -> [value |-> added, pos |-> item.pos + 1]
             [] OTHER -> Failed

parse_array_value(text, pos, nesting) ==
  IF Token(text, pos + 1).type = "]"
    THEN [value |-> json_value_init_array, pos |-> pos + 2]
    ELSE Items(text, pos + 1, nesting, json_value_init_array)

\* Scalars: parse_string_value, parse_boolean_value, parse_number_value and
\* parse_null_value.  strtod makes 0 of a lone '-' and reads nothing of it.
parse_value(text, pos, nesting) ==
  LET token == Token(text, pos) IN
  IF nesting > MAX_NESTING THEN Failed
  ELSE CASE token.type = "{" -> parse_object_value(text, pos, nesting + 1)
         [] token.type = "[" -> parse_array_value(text, pos, nesting + 1)
         [] token.type \in ScalarTypes -> [value |-> token, pos |-> pos + 1]
         [] token = Minus -> [value |-> JSONNumber(0), pos |-> pos]
         [] OTHER -> Failed

\* What follows the first value is not looked at.
json_parse_string(text) == parse_value(text, 1, 0).value

-----------------------------------------------------------------------------
RECURSIVE json_validate(_, _)

\* Mutant of json_validate: a value may have no member that the schema has not.
json_validate_exact(schema, value) ==
  /\ schema.type = value.type
  /\ schema.type = "object" =>
       /\ Len(value.names) = Len(schema.names)
       /\ \A i \in DOMAIN schema.names :
            json_validate(schema.values[i],
                          json_object_get_value(value, schema.names[i]))

\* TRUE for JSONSuccess.  A schema of null allows every value, an empty array
\* or object every one of its kind; of an array only the first item counts.
json_validate(schema, value) ==
  /\ schema # NULL /\ value # NULL
  /\ schema.type \in {value.type, "null"}
  /\ (schema.type = "array" /\ schema.items # << >>) =>
       \A i \in DOMAIN value.items :
          json_validate(schema.items[1], value.items[i])
  /\ (schema.type = "object" /\ schema.names # << >>) =>
       /\ Len(value.names) >= Len(schema.names)
       /\ \A i \in DOMAIN schema.names :
            LET member == json_object_get_value(value, schema.names[i]) IN
            member # NULL /\ json_validate(schema.values[i], member)

-----------------------------------------------------------------------------
(* The writer.  Indentation and line ends are white space, so that         *)
(* json_serialize_to_string and its pretty form are one here.              *)

\* Mutant of Separated: count, not count - 1.
SeparatedAll(parts) ==
  FlattenSeq([i \in DOMAIN parts |-> parts[i] \o <<[type |-> ","]>>])

\* The parts in their order, each but the last with a comma.
Separated(parts) ==
  FlattenSeq([i \in DOMAIN parts |->
    IF i < Len(parts) THEN parts[i] \o <<[type |-> ","]>> ELSE parts[i]])

RECURSIVE json_serialize(_), json_value_equals(_, _)

\* The text of a value that is not NULL.
json_serialize(value) ==
  LET item(i) == json_serialize(value.items[i])
      member(i) ==
        <<JSONString(value.names[i]), [type |-> ":"]>>
          \o json_serialize(json_object_get_value(value, value.names[i]))
  IN  CASE value.type = "array" ->
             <<[type |-> "["]>> \o Separated([i \in DOMAIN value.items |-> item(i)])
               \o <<[type |-> "]"]>>
        [] value.type = "object" ->
             <<[type |-> "{"]>> \o Separated([i \in DOMAIN value.names |-> member(i)])
               \o <<[type |-> "}"]>>
        [] OTHER -> <<value>>

\* The order of members does not count.
json_value_equals(a, b) ==
  /\ a.type = b.type
  /\ a.type = "array" =>
       /\ Len(a.items) = Len(b.items)
       /\ \A i \in DOMAIN a.items : json_value_equals(a.items[i], b.items[i])
  /\ a.type = "object" =>
       /\ Len(a.names) = Len(b.names)
       /\ \A i \in DOMAIN a.names :
            json_value_equals(json_object_get_value(a, a.names[i]),
                              json_object_get_value(b, a.names[i]))
  /\ a.type \in ScalarTypes => a = b
=============================================================================
