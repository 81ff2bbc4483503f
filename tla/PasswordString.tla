--------------------------- MODULE PasswordString ---------------------------
(***************************************************************************)
(* The way of a password (lib/password_test.c): rand_password makes it     *)
(* (Shuffle), password_string writes it in base64 (Base64), parson writes  *)
(* that into the configuration and reads it from there (JsonString), and   *)
(* gen_password_by_string makes a password of it again.                    *)
(*                                                                         *)
(* Other bytes, other strings and other texts start in the middle.         *)
(***************************************************************************)
EXTENDS Shuffle, JsonString

CONSTANTS Sources,   \* other byte strings given to b64_encode
          Noise,     \* strings given to gen_password_by_string
          Strings,   \* other strings given to json_serialize_string
          Texts      \* texts given to get_quoted_string

VARIABLES b64,       \* pc of Base64; "idle" before, "none" without
          source, str, dec, tmp, j, loaded,
          string,    \* the string that parson has written
          text       \* the text in the configuration file, or << >>

B == INSTANCE Base64 WITH pc <- b64

ASSUME PasswordStringAssumption ==
  /\ Sources \subseteq Seq(B!Octet) /\ Noise \subseteq Seq(B!Char)
  /\ Strings \subseteq Seq(1 .. 255) /\ Texts \subseteq Seq(1 .. 127)
  /\ PASS_LENGTH <= 256  \* an unsigned char holds every Byte

base64 == <<b64, source, str, dec, tmp, j, loaded>>

json == <<string, text>>

NoBase64(state) ==
  /\ b64 = state /\ loaded = "none" /\ j = 0
  /\ source = << >> /\ str = << >> /\ dec = << >> /\ tmp = << >>

NoPassword ==
  /\ pc = "fill" /\ i = 0
  /\ x = [b \in Byte |-> 0] /\ draws = x

PasswordInit ==
  \/ Init /\ NoBase64("idle") /\ string = << >> /\ text = << >>
  \/ NoPassword /\ B!Init /\ string = << >> /\ text = << >>
  \/ /\ NoPassword /\ NoBase64("none")
     /\ \/ string \in Strings /\ text = json_serialize_string(string)
        \/ string = << >> /\ text \in Texts

RandPassword == b64 = "idle" /\ Next /\ UNCHANGED base64 /\ UNCHANGED json

password_string ==
  /\ pc = "done" /\ b64 = "idle"
  /\ b64' = "encode"
  /\ source' = [k \in 1 .. PASS_LENGTH |-> x[k - 1]]
  /\ UNCHANGED <<str, dec, tmp, j, loaded>>
  /\ UNCHANGED vars /\ UNCHANGED json

\* b64_table, with '=' and, for any other character, a blank.
ASCII(char) ==
  CASE char \in 0 .. 25 -> 65 + char
    [] char \in 26 .. 51 -> 71 + char
    [] char \in 52 .. 61 -> char - 4
    [] char = 62 -> 43
    [] char = 63 -> 47
    [] char = B!Pad -> 61
    [] OTHER -> 32

CharOf(c) == CHOOSE char \in B!Char : ASCII(char) = c

\* The string is a member of the configuration that is written and read.
Configured ==
  /\ b64 = "decode" /\ source # << >> /\ text = << >>
  /\ string' = [k \in DOMAIN str |-> ASCII(str[k])]
  /\ text' = json_serialize_string(string')
  /\ LET read == get_quoted_string(text') IN
     IF read = {} THEN b64' = "done" /\ loaded' = "rejected" /\ UNCHANGED str
     ELSE /\ \E s \in read : str' = [k \in DOMAIN s |-> CharOf(s[k])]
          /\ UNCHANGED <<b64, loaded>>
  /\ UNCHANGED <<source, dec, tmp, j>>
  /\ UNCHANGED vars

Codes ==
  /\ b64 = "encode" \/ source = << >> \/ text # << >>
  /\ B!Next
  /\ UNCHANGED vars /\ UNCHANGED json

PasswordNext == RandPassword \/ password_string \/ Configured \/ Codes

PasswordSpec == PasswordInit /\ [][PasswordNext]_<<vars, base64, json>>

-----------------------------------------------------------------------------
(* b64_encode regroups the bits of the source by six, whatever its length   *)
(* (base64.c:131-206).                                                      *)
EncodesBits == B!EncodesBits

(* b64_decode_ex regroups by eight the bits of the leading digits of any    *)
(* string (base64.c:20-129).                                                *)
DecodesBits == B!DecodesBits

(* A string is accepted exactly when its leading digits hold PASS_LENGTH    *)
(* bytes (password.c:29-31).                                                *)
AcceptedIfSizeFits == B!AcceptedIfSizeFits

(* A password that has been written as a string, and put into a             *)
(* configuration file, is read from there as it was and accepted            *)
(* (password_test.c:31-37): what rand_password makes, every proxy that is   *)
(* given the string uses.                                                   *)
PasswordReadBack ==
  (b64 = "done" /\ Len(source) = PASS_LENGTH) =>
    /\ loaded = "accepted" /\ dec = source
    /\ pc = "done" => \A b \in Byte : dec[b + 1] = x[b]

(* Every string of bytes that parson writes between quotes it reads as the  *)
(* same string (parson.c:493-627, 945-1003).                                *)
StringReadBack == string # << >> => get_quoted_string(text) = {string}

\* The code points that u, one character or one escape, stands for.
StandsFor(u) ==
  LET hex == parse_utf16_hex(u, 3)
      trail == parse_utf16_hex(u, 9)
      escape(k) == SubSeq(u, k, k + 1) = <<Backslash, LetterU>>
  IN  CASE Len(u) = 1 -> {c \in {u[1]} : c >= 32 /\ c \notin {Quote, Backslash}}
        [] Len(u) = 2 -> {e[1] : e \in {f \in Escape : u = <<Backslash, f[2]>>}}
        [] Len(u) = 6 ->
             {c \in {hex} : escape(1) /\ c # -1 /\ c \notin Lead \cup Trail}
        [] OTHER ->
             {\h10000 + 1024 * (c - \hD800) + trail - \hDC00 :
                c \in {d \in {hex} : /\ escape(1) /\ escape(7)
                                     /\ d \in Lead /\ trail \in Trail}}

\* What a text without quotes stands for, by the grammar of RFC 4627.
Readings(s) ==
  LET from[k \in Nat] ==
        IF k = Len(s) + 1 THEN {<< >>}
        ELSE UNION {{<<c>> \o rest : c \in StandsFor(SubSeq(s, k, k + n - 1)),
                                     rest \in from[k + n]} :
                    n \in {m \in {1, 2, 6, 12} : k + m <= Len(s) + 1}}
  IN  from[1]

CodePoints(s) ==
  LET from[k \in Nat] ==
        IF k > Len(s) THEN << >>
        ELSE LET u == verify_utf8_sequence(s, k) IN <<u.cp>> \o from[k + u.len]
  IN  from[1]

(* Of an ASCII text, get_quoted_string accepts what RFC 4627 lets stand     *)
(* between quotes and nothing else, and returns, up to a \u0000, the        *)
(* characters it stands for, in valid UTF-8: surrogate pairs are one        *)
(* character, halves of them are refused (parson.c:168-248, 493-627).       *)
ReadsJSONStrings ==
  (string = << >> /\ text # << >>) =>
    LET read == get_quoted_string(text)
        quoted == {SubSeq(text, 2, k - 1) :
                     k \in {l \in 2 .. Len(text) : text[1] = Quote /\ text[l] = Quote}}
    IN  /\ \A s \in read : is_valid_utf8(s)[1]
        /\ {CodePoints(s) : s \in read}
             = {CString(cps) : cps \in UNION {Readings(s) : s \in quoted}}
=============================================================================
