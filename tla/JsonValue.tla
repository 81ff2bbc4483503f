----------------------------- MODULE JsonValue -----------------------------
(***************************************************************************)
(* The tokens of a text and the values of lib/parson.c, and the getters    *)
(* that the client reads its configuration with.                           *)
(*                                                                         *)
(* A text is a sequence of tokens; white space is left out.  A scalar is   *)
(* its own token: what is inside quotes and how a number is written is     *)
(* abstract, and the token Other stands for whatever parson refuses where  *)
(* a value is expected (an open quote, a hexadecimal number, a number out  *)
(* of the range of a double).  NULL is the value of type JSONError, as for *)
(* json_value_get_type.                                                    *)
(***************************************************************************)
EXTENDS Integers, Sequences

NULL == [type |-> "error"]

Punctuation == [type : {"{", "}", "[", "]", ":", ","}]
Other == [type |-> "other"]
Minus == [type |-> "minus"]   \* a '-' that begins no number
End == [type |-> "end"]

JSONString(s) == [type |-> "string", string |-> s]
JSONNumber(n) == [type |-> "number", number |-> n]
JSONBoolean(b) == [type |-> "boolean", boolean |-> b]
JSONNull == [type |-> "null"]

ScalarTypes == {"string", "number", "boolean", "null"}

-----------------------------------------------------------------------------
(* Objects keep their members in the order of the text, in two arrays.     *)

json_value_init_object ==
  [type |-> "object", names |-> << >>, values |-> << >>]

json_value_init_array == [type |-> "array", items |-> << >>]

Indices(object, name) ==
  {i \in DOMAIN object.names : object.names[i] = name}

\* The first member of that name, or NULL.
json_object_get_value(object, name) ==
  IF object.type # "object" \/ Indices(object, name) = {}
    THEN NULL
    ELSE object.values[CHOOSE i \in Indices(object, name) :
                         \A j \in Indices(object, name) : i <= j]

\* What the getters return for a value of another type, or for no value.
json_object_get_number(object, name) ==
  LET value == json_object_get_value(object, name) IN
  IF value.type = "number" THEN value.number ELSE 0

json_object_get_string(object, name) ==
  LET value == json_object_get_value(object, name) IN
  IF value.type = "string" THEN value.string ELSE "NULL"
=============================================================================
