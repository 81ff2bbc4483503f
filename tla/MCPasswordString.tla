-------------------------- MODULE MCPasswordString --------------------------
EXTENDS PasswordString

(* Bytes whose bits differ in every position the shifts and masks touch;    *)
(* 252 and 255 make '/', which parson escapes.                              *)
SomeOctets == {0, 3, 85, 170, 252, 255}

UpToFourOctets == UNION {[1 .. n -> SomeOctets] : n \in 1 .. 4}

(* Strings no encoder makes: a lone digit, stray digits after a group, a    *)
(* pad or another character in the middle; too short, as long as a password *)
(* and too long.                                                            *)
UpToEightChars ==
  UNION ({[1 .. n -> {5, 63, 64, 65}] : n \in 0 .. 5}
           \cup {[1 .. n -> {63, 64}] : n \in 6 .. 8})

(* Every byte but '\0', and the ones with an escape beside others.           *)
SomeStrings ==
  {<<c>> : c \in 1 .. 255}
    \cup UNION {[1 .. n -> {34, 92, 47, 9, 31, 97, 117, 200}] : n \in 2 .. 3}

(* " \ / u 0 and a control character, in any order.                         *)
ShortTexts == {<<34>> \o s : s \in UNION {[1 .. n -> {34, 92, 47, 117, 48, 31}] :
                                          n \in 0 .. 5}}

(* Escapes at the ends of the ranges that UTF-8 and UTF-16 distinguish.      *)
U(n) == <<92, 117, HexDigit(n \div 4096), HexDigit((n \div 256) % 16),
          HexDigit((n \div 16) % 16), HexDigit(n % 16)>>

Edges == {0, 127, 128, 2047, 2048, 55295, 55296, 56319, 56320, 57343, 57344, 65535}

Escapes ==
  UNION {{<<34>> \o U(n) \o <<34>>,
          <<34>> \o U(n) \o U(k) \o <<34>>,
          <<34>> \o U(n) \o <<97>> \o U(k) \o <<34>>,
          <<34>> \o SubSeq(U(n), 1, 5) \o <<34>> \o U(k)} : n \in Edges, k \in Edges}

SomeTexts == ShortTexts \cup Escapes
=============================================================================
