------------------------------- MODULE Codec -------------------------------
(***************************************************************************)
(* The in-place loops of encode_data and decode_data (lib/password.c), run *)
(* one after the other on the same bytes, as the two ends of a tunnel do:  *)
(* one assignment of a loop per step.                                      *)
(***************************************************************************)
EXTENDS Password

CONSTANTS Tables,    \* the passwords considered
          Messages   \* the byte arrays considered

ASSUME CodecAssumption == Tables \subseteq Table /\ Messages \subseteq Seq(Byte)

VARIABLES pc,       \* "encode", "invert", "decode" or "done"
          x,        \* encode_pass->x
          message,  \* bytes before encode_data, never assigned
          bytes,    \* bytes[]
          dec,      \* decode_pass.x
          i         \* the index of the current loop

vars == <<pc, x, message, bytes, dec, i>>

Init ==
  /\ pc = "encode"
  /\ x \in Tables
  /\ message \in Messages
  /\ bytes = message
  /\ dec = [b \in Byte |-> 0]
  /\ i = 0

(* Mutant of EncodeStep: the last byte is left alone.                       *)
EncodeStepShort ==
  /\ pc = "encode"
  /\ IF i < Len(bytes) - 1
       THEN bytes' = [bytes EXCEPT ![i + 1] = x[@]] /\ i' = i + 1 /\ UNCHANGED pc
       ELSE pc' = "invert" /\ i' = 0 /\ UNCHANGED bytes
  /\ UNCHANGED <<x, message, dec>>

(* bytes[i] = encode_pass->x[bytes[i]]                                      *)
EncodeStep ==
  /\ pc = "encode"
  /\ IF i < Len(bytes)
       THEN /\ bytes' = [bytes EXCEPT ![i + 1] = x[@]]
            /\ i' = i + 1
            /\ UNCHANGED pc
       ELSE /\ pc' = "invert"
            /\ i' = 0
            /\ UNCHANGED bytes
  /\ UNCHANGED <<x, message, dec>>

(* Mutant of InvertStep: the first index of a value counts.                 *)
InvertStepKeepsFirst ==
  /\ pc = "invert"
  /\ IF i < PASS_LENGTH
       THEN /\ dec' = IF \E j \in Byte : j < i /\ x[j] = x[i] THEN dec
                      ELSE [dec EXCEPT ![x[i]] = i]
            /\ i' = i + 1 /\ UNCHANGED pc
       ELSE pc' = "decode" /\ i' = 0 /\ UNCHANGED dec
  /\ UNCHANGED <<x, message, bytes>>

(* decode_pass.x[encode_pass->x[i]] = i                                     *)
InvertStep ==
  /\ pc = "invert"
  /\ IF i < PASS_LENGTH
       THEN /\ dec' = [dec EXCEPT ![x[i]] = i]
            /\ i' = i + 1
            /\ UNCHANGED pc
       ELSE /\ pc' = "decode"
            /\ i' = 0
            /\ UNCHANGED dec
  /\ UNCHANGED <<x, message, bytes>>

(* Mutant of DecodeStep: the password in place of its inverse.              *)
DecodeStepEncodes ==
  /\ pc = "decode"
  /\ IF i < Len(bytes)
       THEN bytes' = [bytes EXCEPT ![i + 1] = x[@]] /\ i' = i + 1 /\ UNCHANGED pc
       ELSE pc' = "done" /\ UNCHANGED <<bytes, i>>
  /\ UNCHANGED <<x, message, dec>>

(* bytes[i] = decode_pass.x[bytes[i]]                                       *)
DecodeStep ==
  /\ pc = "decode"
  /\ IF i < Len(bytes)
       THEN /\ bytes' = [bytes EXCEPT ![i + 1] = dec[@]]
            /\ i' = i + 1
            /\ UNCHANGED pc
       ELSE /\ pc' = "done"
            /\ UNCHANGED <<bytes, i>>
  /\ UNCHANGED <<x, message, dec>>

Next == EncodeStep \/ InvertStep \/ DecodeStep

Spec == Init /\ [][Next]_vars

-----------------------------------------------------------------------------
(* Bytes stay bytes through both loops, and no table or buffer is written    *)
(* outside its bounds (password.c:66-82).                                   *)
TypeOK ==
  /\ pc \in {"encode", "invert", "decode", "done"}
  /\ x \in Table
  /\ message \in Seq(Byte) /\ bytes \in Seq(Byte)
  /\ dec \in Table
  /\ i \in Nat

(* After the first n steps of the inversion loop, entry b is the last index *)
(* below n that encodes to b, or 0.                                         *)
InvertedUpTo(n) ==
  \A b \in Byte :
    LET before == {j \in Byte : j < n /\ x[j] = b} IN
    IF before = {} THEN dec[b] = 0
                   ELSE dec[b] \in before /\ \A j \in before : j <= dec[b]

(* A loop that is at index i has transformed the first i bytes and no other. *)
LoopInvariant ==
  /\ Len(bytes) = Len(message)
  /\ \A k \in 1 .. Len(message) :
       bytes[k] = CASE pc = "encode" -> IF k <= i THEN x[message[k]]
                                                  ELSE message[k]
                    [] pc = "invert" -> x[message[k]]
                    [] pc = "decode" -> IF k <= i THEN dec[x[message[k]]]
                                                  ELSE x[message[k]]
                    [] OTHER -> dec[x[message[k]]]
  /\ i <= (IF pc = "invert" THEN PASS_LENGTH ELSE Len(message))
  /\ InvertedUpTo(CASE pc = "encode" -> 0
                    [] pc = "invert" -> i
                    [] OTHER -> PASS_LENGTH)

(* The loops compute the operators the other modules use                    *)
(* (password.c:66-82).                                                      *)
LoopsComputeOperators ==
  /\ pc = "invert" => bytes = encode_data(message, x)
  /\ pc = "done" => bytes = decode_data(encode_data(message, x), x)

(* Exactly the bytes that are the last index of their code survive a round  *)
(* trip; a table that is not a permutation, which nothing rejects, silently *)
(* changes the others (password.c:73-82).                                   *)
SurvivesIfLast ==
  pc = "done" =>
    \A k \in 1 .. Len(message) :
      bytes[k] = message[k] <=>
        \A b \in Byte : x[b] = x[message[k]] => b <= message[k]

(* With a permutation for a password the far end reads what was written.    *)
RoundTrip == (pc = "done" /\ IsPermutation(x)) => bytes = message
=============================================================================
