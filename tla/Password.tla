------------------------------ MODULE Password ------------------------------
(***************************************************************************)
(* The substitution cipher of lib/password.c as operators.  A password is  *)
(* a table x of PASS_LENGTH bytes; byte b is encoded as x[b] and decoded   *)
(* through the inverse table that decode_data builds for every call.       *)
(* PASS_LENGTH is 256 in the code; nothing here depends on that value.     *)
(***************************************************************************)
EXTENDS Integers, Sequences

CONSTANT PASS_LENGTH

ASSUME PassLengthAssumption == PASS_LENGTH \in Nat \ {0}

Byte == 0 .. PASS_LENGTH - 1

(* typedef struct { byte x[PASS_LENGTH]; } Password.  Nothing checks that a *)
(* table read from the configuration is a permutation.                      *)
Table == [Byte -> Byte]

IsPermutation(x) == \A a, b \in Byte : x[a] = x[b] => a = b

(* Mutant of encode_data: the table is read one entry further, without the  *)
(* wrap of a byte.                                                          *)
encode_data_shifted(bytes, x) == [i \in DOMAIN bytes |-> x[bytes[i]] + 1]

encode_data(bytes, x) == [i \in DOMAIN bytes |-> x[bytes[i]]]

(* decode_pass starts zeroed and its entries are written in index order:   *)
(* the last index that encodes to b wins, and a byte no index encodes to   *)
(* decodes to 0.                                                           *)
DecodeTable(x) ==
  [b \in Byte |->
     LET last == {i \in Byte : x[i] = b /\ \A j \in Byte : x[j] = b => j <= i} IN
     IF last = {} THEN 0 ELSE CHOOSE i \in last : TRUE]

decode_data(bytes, x) ==
  LET decode_pass == DecodeTable(x) IN encode_data(bytes, decode_pass)
=============================================================================
