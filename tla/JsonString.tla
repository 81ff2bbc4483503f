----------------------------- MODULE JsonString -----------------------------
(***************************************************************************)
(* How lib/parson.c writes a string between quotes and reads what stands   *)
(* between quotes, and what it takes for UTF-8.                            *)
(*                                                                         *)
(* Strings are sequences of bytes without the '\0' at their end, which is  *)
(* what is read beyond it.  A function that may refuse its input returns   *)
(* the set of its results: one or none.                                    *)
(***************************************************************************)
EXTENDS Integers, SequencesExt

Quote == 34

Backslash == 92

\* Characters with the letter that stands for them after a backslash.
Escape == {<<Quote, Quote>>, <<Backslash, Backslash>>, <<47, 47>>, <<8, 98>>,
           <<12, 102>>, <<10, 110>>, <<13, 114>>, <<9, 116>>}

LetterU == 117

HexDigit(n) == IF n < 10 THEN 48 + n ELSE 87 + n

Written(c) ==
  IF \E e \in Escape : e[1] = c
    THEN <<Backslash, (CHOOSE e \in Escape : e[1] = c)[2]>>
  ELSE IF c < 32
    THEN <<Backslash, LetterU, 48, 48, HexDigit(c \div 16), HexDigit(c % 16)>>
  ELSE <<c>>

\* Mutant of json_serialize_string: what is between the quotes is not escaped.
json_serialize_string_plain(string) == <<Quote>> \o string \o <<Quote>>

json_serialize_string(string) ==
  <<Quote>> \o FlattenSeq([i \in DOMAIN string |-> Written(string[i])])
    \o <<Quote>>

-----------------------------------------------------------------------------
CharAt(s, k) == IF k \in DOMAIN s THEN s[k] ELSE 0

\* One round of the loop of skip_quotes, at k: where the string ends, or 0, if
\* from[l] says that of the rounds at l > k.
QuoteAt(s, k, from) ==
  IF CharAt(s, k) = 0 THEN 0
  ELSE IF s[k] = Quote THEN k
  ELSE IF s[k] = Backslash
    THEN IF CharAt(s, k + 1) = 0 THEN 0 ELSE from[k + 2]
  ELSE from[k + 1]

ClosingQuote(s) == LET from[k \in Nat] == QuoteAt(s, k, from) IN from

skip_quotes(s) == IF CharAt(s, 1) # Quote THEN 0 ELSE ClosingQuote(s)[2]

hex_char_to_int(c) ==
  CASE c \in 48 .. 57 -> c - 48
    [] c \in 97 .. 102 -> c - 97 + 10
    [] c \in 65 .. 70 -> c - 65 + 10
    [] OTHER -> -1

\* The number that the four digits from k on are, or -1.
parse_utf16_hex(s, k) ==
  LET d == [i \in 0 .. 3 |-> hex_char_to_int(CharAt(s, k + i))] IN
  IF \E i \in 0 .. 3 : d[i] = -1 THEN -1
    ELSE 4096 * d[0] + 256 * d[1] + 16 * d[2] + d[3]

Cont(n) == 128 + (n % 64)

Lead == \hD800 .. \hDBFF

Trail == \hDC00 .. \hDFFF

\* Mutant of parse_utf16: no surrogates.
parse_utf16_bmp(s, k) ==
  LET cp == parse_utf16_hex(s, k + 1) IN
  IF cp = -1 THEN {}
  ELSE {[bytes |-> CASE cp < \h80 -> <<cp>>
                     [] cp \in \h80 .. \h7FF -> <<192 + cp \div 64, Cont(cp)>>
                     [] OTHER -> <<224 + cp \div 4096, Cont(cp \div 64), Cont(cp)>>,
         next |-> k + 5]}

\* From the u of an escape at k: its bytes and where the text goes on.
parse_utf16(s, k) ==
  LET cp == parse_utf16_hex(s, k + 1)
      trail == parse_utf16_hex(s, k + 7)
      pair == (cp - \hD800) * 1024 + (trail - \hDC00) + \h10000
  IN  CASE cp = -1 \/ cp \in Trail -> {}
        [] cp \in 0 .. \h7F -> {[bytes |-> <<cp>>, next |-> k + 5]}
        [] cp \in \h80 .. \h7FF ->
             {[bytes |-> <<192 + cp \div 64, Cont(cp)>>, next |-> k + 5]}
        [] cp \in Lead ->
             IF \/ CharAt(s, k + 5) # Backslash \/ CharAt(s, k + 6) # LetterU
                \/ trail \notin Trail
               THEN {}
               ELSE {[bytes |-> <<240 + pair \div \h40000, Cont(pair \div 4096),
                                  Cont(pair \div 64), Cont(pair)>>,
                      next |-> k + 11]}
        [] OTHER ->
             {[bytes |-> <<224 + cp \div 4096, Cont(cp \div 64), Cont(cp)>>,
               next |-> k + 5]}

\* One round of process_string, at k: what the text from k to last stands for,
\* if from[l] says that of the text from l > k.
CharsAt(s, k, last, from) ==
  LET Then(bytes, next) == {bytes \o rest : rest \in from[next]}
      letter == CharAt(s, k + 1)
  IN  IF k > last THEN {<< >>}
      ELSE IF s[k] = Backslash THEN
        IF letter = LetterU
          THEN UNION {Then(u.bytes, u.next) : u \in parse_utf16(s, k + 1)}
          ELSE UNION {Then(<<e[1]>>, k + 2) : e \in {f \in Escape : f[2] = letter}}
      ELSE IF s[k] < 32 THEN {}
      ELSE Then(<<s[k]>>, k + 1)

process_string(s, last) ==
  LET from[k \in Nat] == CharsAt(s, k, last, from) IN from

\* A string of C ends at its first '\0'.
CString(s) ==
  IF \E k \in DOMAIN s : s[k] = 0
    THEN SubSeq(s, 1, (CHOOSE k \in DOMAIN s :
                         s[k] = 0 /\ \A l \in 1 .. k - 1 : s[l] # 0) - 1)
    ELSE s

get_quoted_string(s) ==
  IF skip_quotes(s) = 0 THEN {}
    ELSE {CString(out) : out \in process_string(s, skip_quotes(s) - 1)[2]}

-----------------------------------------------------------------------------
IsCont(c) == c \in 128 .. 191

num_bytes_in_utf8_sequence(c) ==
  CASE c \in {192, 193} \/ c > 244 \/ IsCont(c) -> 0
    [] c < 128 -> 1
    [] c \in 194 .. 223 -> 2
    [] c \in 224 .. 239 -> 3
    [] OTHER -> 4

\* The length of the sequence at k and its code point; a length of 0 if it is
\* none.
verify_utf8_sequence(s, k) ==
  LET len == num_bytes_in_utf8_sequence(CharAt(s, k))
      low(i) == CharAt(s, k + i) % 64
      cp == CASE len = 1 -> s[k]
              [] len = 2 -> (s[k] % 32) * 64 + low(1)
              [] len = 3 -> (s[k] % 16) * 4096 + low(1) * 64 + low(2)
              [] len = 4 -> (s[k] % 8) * \h40000 + low(1) * 4096 + low(2) * 64 + low(3)
              [] OTHER -> 0
  IN  IF \/ \E i \in 1 .. len - 1 : ~IsCont(CharAt(s, k + i))
         \/ len > 1 /\ cp < \h80
         \/ len > 2 /\ cp < \h800
         \/ len > 3 /\ cp < \h10000
         \/ cp > \h10FFFF \/ cp \in Lead \cup Trail
        THEN [len |-> 0, cp |-> 0]
        ELSE [len |-> len, cp |-> cp]

\* Of the bytes from each k on.
is_valid_utf8(s) ==
  LET from[k \in Nat] ==
        k > Len(s) \/ LET len == verify_utf8_sequence(s, k).len IN
                      len # 0 /\ from[k + len]
  IN  from
=============================================================================
