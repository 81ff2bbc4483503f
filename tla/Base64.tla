------------------------------- MODULE Base64 -------------------------------
(***************************************************************************)
(* lib/base64.c and the part of lib/password.c that reads a password from  *)
(* a string: a password of PASS_LENGTH bytes is written with b64_encode    *)
(* (password_string) and read back with b64_decode_ex                      *)
(* (gen_password_by_string).                                               *)
(*                                                                         *)
(* A character is the index of a digit in b64_table, Pad ('=') or 65, any  *)
(* other character.  Characters and bytes are consumed one per step;       *)
(* shifts and masks are arithmetic, and what an unsigned char cannot hold  *)
(* is cut off.                                                             *)
(***************************************************************************)
EXTENDS Integers, Sequences

CONSTANTS PASS_LENGTH,   \* sizeof(Password)
          Sources,       \* the byte strings given to b64_encode
          Noise          \* the strings put in place of an encoded one

Octet == 0 .. 255

Digit == 0 .. 63

Pad == 64

Char == Digit \cup {Pad, 65}

VARIABLES pc,        \* "encode", "decode", "check" or "done"
          source,    \* the bytes being encoded, never assigned
          str,       \* the string: enc, then src of b64_decode_ex
          dec,       \* the decoded bytes; dec[size++]
          tmp,       \* the group being collected: tmp[0 .. i - 1]
          j,         \* how many bytes or characters have been consumed
          loaded     \* what becomes of gen_password_by_string

vars == <<pc, source, str, dec, tmp, j, loaded>>

(* The first n of the numbers in group, the missing ones being '\0'.        *)
Padded(group, n) == [k \in 1 .. n |-> IF k <= Len(group) THEN group[k] ELSE 0]

(* Mutants of Sextets and Octets: a term is dropped.                        *)
SextetsDropped(t) == <<t[1] \div 4, (t[1] % 4) * 16 + t[2] \div 16,
                       (t[2] % 16) * 4, t[3] % 64>>

OctetsDropped(t) == <<(t[1] * 4) % 256, ((t[2] % 16) * 16 + t[3] \div 4) % 256,
                      ((t[3] % 4) * 64 + t[4]) % 256>>

(* buf[] from tmp[] in b64_encode and in b64_decode_ex.                     *)
Sextets(t) == <<t[1] \div 4,
                (t[1] % 4) * 16 + t[2] \div 16,
                (t[2] % 16) * 4 + t[3] \div 64,
                t[3] % 64>>

Octets(t) == <<(t[1] * 4 + t[2] \div 16) % 256,
               ((t[2] % 16) * 16 + t[3] \div 4) % 256,
               ((t[3] % 4) * 64 + t[4]) % 256>>

(* Either a password is written and read back, or some string is read.      *)
Init ==
  /\ \/ pc = "encode" /\ source \in Sources /\ str = <<>>
     \/ pc = "decode" /\ source = <<>> /\ str \in Noise
  /\ dec = <<>> /\ tmp = <<>>
  /\ j = 0
  /\ loaded = "none"

(* tmp[i++] = *(src++); four characters are appended for every third byte.  *)
EncodeByte ==
  LET group == Append(tmp, source[j + 1]) IN
  /\ pc = "encode" /\ j < Len(source)
  /\ IF Len(group) = 3
       THEN str' = str \o Sextets(group) /\ tmp' = <<>>
       ELSE tmp' = group /\ UNCHANGED str
  /\ j' = j + 1
  /\ UNCHANGED <<pc, source, dec, loaded>>

(* The remainder: i + 1 characters and 3 - i pads.                          *)
EncodeRemainder ==
  LET i == Len(tmp) IN
  /\ pc = "encode" /\ j = Len(source)
  /\ str' = IF i = 0 THEN str
            ELSE str \o SubSeq(Sextets(Padded(tmp, 3)), 1, i + 1)
                     \o [k \in 1 .. 3 - i |-> Pad]
  /\ pc' = "decode"
  /\ tmp' = <<>> /\ j' = 0
  /\ UNCHANGED <<source, dec, loaded>>

Stops == IF j = Len(str) THEN TRUE ELSE str[j + 1] \notin Digit

(* Four characters have been read: three bytes are written.                 *)
DecodeChar ==
  LET group == Append(tmp, str[j + 1]) IN
  /\ pc = "decode" /\ ~Stops
  /\ IF Len(group) = 4
       THEN dec' = dec \o Octets(group) /\ tmp' = <<>>
       ELSE tmp' = group /\ UNCHANGED dec
  /\ j' = j + 1
  /\ UNCHANGED <<pc, source, str, loaded>>

(* The remainder: i - 1 bytes.                                              *)
DecodeRemainder ==
  LET i == Len(tmp) IN
  /\ pc = "decode" /\ Stops
  /\ dec' = IF i = 0 THEN dec
                     ELSE dec \o SubSeq(Octets(Padded(tmp, 4)), 1, i - 1)
  /\ pc' = "check"
  /\ UNCHANGED <<source, str, tmp, j, loaded>>

(* Mutants of gen_password_by_string: other comparisons.                    *)
GenPassword(fits) ==
  /\ pc = "check"
  /\ loaded' = IF fits THEN "accepted" ELSE "rejected"
  /\ pc' = "done"
  /\ UNCHANGED <<source, str, dec, tmp, j>>

gen_password_if_longer == GenPassword(Len(dec) > PASS_LENGTH)

gen_password_if_enough == GenPassword(Len(dec) >= PASS_LENGTH)

(* decsize == PASS_LENGTH decides.  After a remainder of one character and  *)
(* no byte before it, realloc(dec, 0) has returned NULL and decsize is      *)
(* whatever the stack held: the string is rejected, or NULL is copied from. *)
gen_password_by_string ==
  /\ pc = "check"
  /\ loaded' \in IF Len(tmp) = 1 /\ dec = <<>> THEN {"rejected", "crashed"}
                  ELSE IF Len(dec) = PASS_LENGTH THEN {"accepted"}
                  ELSE {"rejected"}
  /\ pc' = "done"
  /\ UNCHANGED <<source, str, dec, tmp, j>>

Next ==
  \/ EncodeByte
  \/ EncodeRemainder
  \/ DecodeChar
  \/ DecodeRemainder
  \/ gen_password_by_string

Spec == Init /\ [][Next]_vars
-----------------------------------------------------------------------------
PowersOfTwo == <<1, 2, 4, 8, 16, 32, 64, 128>>

(* The k-th bit, from the left, of a sequence of numbers of width bits.      *)
Bit(s, width, k) ==
  (s[(k - 1) \div width + 1] \div PowersOfTwo[width - ((k - 1) % width)]) % 2

(* How many digits the string begins with.                                  *)
Leading == CHOOSE n \in 0 .. Len(str) :
             /\ \A k \in 1 .. n : str[k] \in Digit
             /\ n = Len(str) \/ str[n + 1] \notin Digit

(* b64_encode regroups the bits of the source by six, fills the last group  *)
(* with zeros and pads the string to a multiple of four (base64.c:131-206). *)
EncodesBits ==
  (pc = "decode" /\ source # <<>>) =>
    LET bits == 8 * Len(source) IN
    /\ Leading = (bits + 5) \div 6
    /\ Len(str) = 4 * ((Len(source) + 2) \div 3)
    /\ \A k \in Leading + 1 .. Len(str) : str[k] = Pad
    /\ \A k \in 1 .. 6 * Leading :
         Bit(str, 6, k) = IF k <= bits THEN Bit(source, 8, k) ELSE 0

(* b64_decode_ex regroups by eight the bits of the digits before the first  *)
(* other character and forgets what does not fill a byte: never a byte too  *)
(* many or too few, whatever the string (base64.c:20-129).                  *)
DecodesBits ==
  pc \in {"check", "done"} =>
    /\ Len(dec) = (6 * Leading) \div 8
    /\ \A k \in 1 .. 8 * Len(dec) : Bit(dec, 8, k) = Bit(str, 6, k)

(* A string is accepted exactly when its leading digits hold PASS_LENGTH    *)
(* bytes; nothing else is asked of it (password.c:29-31).                   *)
AcceptedIfSizeFits ==
  pc = "done" =>
    /\ loaded = "accepted" <=> (6 * Leading) \div 8 = PASS_LENGTH
    /\ loaded = "crashed" => Leading = 1
=============================================================================
