--------------------------- MODULE PasswordProofs ---------------------------
(***************************************************************************)
(* What PasswordString promises, for every PASS_LENGTH of at most 256 and  *)
(* for all passwords, byte strings, base64 strings and JSON strings:       *)
(*                                                                         *)
(*   - parson reads back the string it has written: the places q[k] in     *)
(*     the text at which what is written for the k-th byte begins are      *)
(*     stepped through from the last one back, for both loops that read;   *)
(*   - b64_encode and b64_decode_ex move bits: what stands in the string   *)
(*     are the groups of three bytes, four characters each, that have been *)
(*     consumed, and in the decoded bytes the groups of four characters;   *)
(*   - the invariant of the whole way, PasswordInv, which adds that the    *)
(*     password stays a permutation and is what has been encoded.          *)
(***************************************************************************)
EXTENDS PasswordString, SequenceTheorems, FunctionTheorems, NaturalsInduction,
        WellFoundedInduction, TLAPS

(* Induction over the natural numbers, of a set in place of a predicate.     *)
LEMMA NatSetInduction ==
  ASSUME NEW S, 0 \in S, \A n \in Nat : n \in S => n + 1 \in S
  PROVE  \A n \in Nat : n \in S
<1>. DEFINE T == {n \in Nat : n \notin S}
            R == {ss \in Nat \X Nat : ss[1] < ss[2]}
<1>1. IsWellFoundedOn(R, Nat)
  BY NatLessThanWellFounded DEF OpToRel
<1>. SUFFICES ASSUME T # {} PROVE FALSE
  OBVIOUS
<1>2. T \subseteq Nat
  OBVIOUS
<1>. HIDE DEF T
<1>3. PICK v \in T : \A y \in T : ~(<<y, v>> \in R)
  BY <1>1, <1>2, WFMin DEF R
<1>4. v \in Nat /\ v # 0 /\ v - 1 \in Nat
  BY <1>2 DEF T
<1>5. v - 1 \in T
  BY <1>4 DEF T
<1>6. <<v - 1, v>> \in R
  BY <1>4
<1>. QED
  BY <1>3, <1>5, <1>6

(* The loops of skip_quotes and process_string: each round looks only at    *)
(* what comes behind it.                                                    *)

LEMMA QuoteLooksAhead ==
  ASSUME NEW s, NEW k \in Nat, NEW f, NEW g,
         f[k + 1] = g[k + 1], f[k + 2] = g[k + 2]
  PROVE  QuoteAt(s, k, f) = QuoteAt(s, k, g)
BY DEF QuoteAt

LEMMA QuoteAtEnd ==
  ASSUME NEW s \in Seq(Nat), NEW k \in Nat, k > Len(s), NEW f
  PROVE  QuoteAt(s, k, f) = 0
<1>1. k \notin DOMAIN s
  BY LenProperties
<1>. QED
  BY <1>1 DEF QuoteAt, CharAt

(* The rounds of skip_quotes have a solution.                               *)
LEMMA ClosingQuoteIs ==
  ASSUME NEW s \in Seq(Nat)
  PROVE  \A k \in Nat : ClosingQuote(s)[k] = QuoteAt(s, k, ClosingQuote(s))
<1>. DEFINE L == Len(s)
            Solves(m, f) ==
              \A k \in Nat : k + m > L => f[k] = QuoteAt(s, k, f)
            S == {m \in Nat : \E f : Solves(m, f)}
<1>0. L \in Nat
  BY LenProperties
<1>. HIDE DEF L
<1>1. 0 \in S
  <2>. DEFINE f == [k \in Nat |-> 0]
  <2>1. Solves(0, f)
    BY <1>0, QuoteAtEnd DEF L
  <2>. HIDE DEF f
  <2>. QED
    BY <2>1
<1>2. ASSUME NEW m \in Nat, m \in S
      PROVE  m + 1 \in S
  <2>1. PICK f : Solves(m, f)
    BY <1>2
  <2>. DEFINE g == [k \in Nat |-> IF k + m = L THEN QuoteAt(s, k, f) ELSE f[k]]
  <2>2. \A k \in Nat : k + m > L => g[k] = f[k]
    BY <1>0
  <2>3. \A k \in Nat : k + m = L => g[k] = QuoteAt(s, k, f)
    OBVIOUS
  <2>. HIDE DEF g
  <2>4. ASSUME NEW k \in Nat, k + (m + 1) > L
        PROVE  g[k] = QuoteAt(s, k, g)
    <3>1. g[k + 1] = f[k + 1] /\ g[k + 2] = f[k + 2]
      BY <1>0, <2>2, <2>4
    <3>2. QuoteAt(s, k, f) = QuoteAt(s, k, g)
      BY <3>1, QuoteLooksAhead
    <3>3. CASE k + m = L
      BY <2>3, <3>2, <3>3
    <3>4. CASE k + m # L
      <4>1. k + m > L
        BY <1>0, <2>4, <3>4
      <4>. HIDE DEF S
      <4>. QED
        BY <2>1, <2>2, <3>2, <4>1
    <3>. QED
      BY <3>3, <3>4
  <2>5. Solves(m + 1, g)
    BY <2>4
  <2>. QED
    BY <2>5
<1>3. \A m \in Nat : m \in S
  <2>. HIDE DEF S
  <2>. QED
    BY <1>1, <1>2, NatSetInduction
<1>4. PICK f : Solves(L + 1, f)
  <2>1. L + 1 \in S
    <3>. HIDE DEF S
    <3>. QED
      BY <1>0, <1>3
  <2>. HIDE DEF Solves
  <2>. QED
    BY <2>1
<1>. DEFINE F == [k \in Nat |-> f[k]]
<1>5. \A k \in Nat : F[k] = f[k]
  OBVIOUS
<1>6. \A k \in Nat : f[k] = QuoteAt(s, k, f)
  BY <1>0, <1>4
<1>. HIDE DEF F
<1>7. \A k \in Nat : f[k] = QuoteAt(s, k, F)
  BY <1>5, <1>6, QuoteLooksAhead
<1>8. F = [k \in Nat |-> QuoteAt(s, k, F)]
  BY <1>7 DEF F
<1>. DEFINE from == CHOOSE from : from = [k \in Nat |-> QuoteAt(s, k, from)]
<1>9. from = [k \in Nat |-> QuoteAt(s, k, from)]
  BY <1>8, SMTT(30)
<1>10. ClosingQuote(s) = from
  BY DEF ClosingQuote
<1>. HIDE DEF from
<1>. QED
  BY <1>9, <1>10

LEMMA Utf16Next ==
  ASSUME NEW s, NEW k \in Nat, NEW u \in parse_utf16(s, k)
  PROVE  u.next \in {k + 5, k + 11}
BY DEF parse_utf16

\* What a round of process_string makes of \uXXXX, and of another escape.
Unicode(s, k, from) ==
  UNION {{u.bytes \o rest : rest \in from[u.next]} : u \in parse_utf16(s, k + 1)}

Unescaped(s, k, from) ==
  UNION {{<<e[1]>> \o rest : rest \in from[k + 2]} :
         e \in {f \in Escape : f[2] = CharAt(s, k + 1)}}

Plain(s, k, from) == {<<s[k]>> \o rest : rest \in from[k + 1]}

LEMMA CharsAtIs ==
  ASSUME NEW s, NEW k \in Nat, NEW last \in Nat, NEW from
  PROVE  /\ k > last => CharsAt(s, k, last, from) = {<< >>}
         /\ (k <= last /\ s[k] = Backslash) =>
              CharsAt(s, k, last, from)
                = IF CharAt(s, k + 1) = LetterU
                    THEN Unicode(s, k, from) ELSE Unescaped(s, k, from)
         /\ (k <= last /\ s[k] # Backslash) =>
              CharsAt(s, k, last, from)
                = IF s[k] < 32 THEN {} ELSE Plain(s, k, from)
<1>1. CharsAt(s, k, last, from) =
        IF k > last THEN {<< >>}
        ELSE IF s[k] = Backslash THEN
          IF CharAt(s, k + 1) = LetterU
            THEN Unicode(s, k, from) ELSE Unescaped(s, k, from)
        ELSE IF s[k] < 32 THEN {} ELSE Plain(s, k, from)
  BY DEF CharsAt, Unicode, Unescaped, Plain
<1>2. k > last <=> ~(k <= last)
  OBVIOUS
<1>. QED
  BY <1>1, <1>2, Zenon

LEMMA UnicodeSame ==
  ASSUME NEW s, NEW k, NEW f, NEW g,
         \A u \in parse_utf16(s, k + 1) : f[u.next] = g[u.next]
  PROVE  Unicode(s, k, f) = Unicode(s, k, g)
<1>. DEFINE U == parse_utf16(s, k + 1)
            Then(from, u) == {u.bytes \o rest : rest \in from[u.next]}
<1>1. /\ Unicode(s, k, f) = UNION {Then(f, u) : u \in U}
      /\ Unicode(s, k, g) = UNION {Then(g, u) : u \in U}
  BY DEF Unicode
<1>2. \A u \in U : Then(f, u) = Then(g, u)
  OBVIOUS
<1>. HIDE DEF U, Then
<1>3. {Then(f, u) : u \in U} = {Then(g, u) : u \in U}
  BY <1>2
<1>. QED
  BY <1>1, <1>3

LEMMA CharsLookAhead ==
  ASSUME NEW s, NEW k \in Nat, NEW last \in Nat, NEW f, NEW g,
         \A l \in Nat : l > k => f[l] = g[l]
  PROVE  CharsAt(s, k, last, f) = CharsAt(s, k, last, g)
<1>1. f[k + 1] = g[k + 1] /\ f[k + 2] = g[k + 2]
  OBVIOUS
<1>2. \A u \in parse_utf16(s, k + 1) : f[u.next] = g[u.next]
  <2>. SUFFICES ASSUME NEW u \in parse_utf16(s, k + 1)
                PROVE  f[u.next] = g[u.next]
    OBVIOUS
  <2>1. u.next \in {k + 1 + 5, k + 1 + 11}
    BY Utf16Next
  <2>. QED
    BY <2>1
<1>3. Unicode(s, k, f) = Unicode(s, k, g)
  BY <1>2, UnicodeSame, Zenon
<1>4. Unescaped(s, k, f) = Unescaped(s, k, g)
  BY <1>1 DEF Unescaped
<1>5. Plain(s, k, f) = Plain(s, k, g)
  BY <1>1 DEF Plain
<1>. DEFINE Cases(from, at) ==
              /\ k > last => at = {<< >>}
              /\ (k <= last /\ s[k] = Backslash) =>
                   at = IF CharAt(s, k + 1) = LetterU
                          THEN Unicode(s, k, from) ELSE Unescaped(s, k, from)
              /\ (k <= last /\ s[k] # Backslash) =>
                   at = IF s[k] < 32 THEN {} ELSE Plain(s, k, from)
<1>6. Cases(f, CharsAt(s, k, last, f)) /\ Cases(g, CharsAt(s, k, last, g))
  BY CharsAtIs
<1>7. \A from, at : Cases(from, at) =>
        at = IF k > last THEN {<< >>}
             ELSE IF s[k] = Backslash THEN
               IF CharAt(s, k + 1) = LetterU
                 THEN Unicode(s, k, from) ELSE Unescaped(s, k, from)
             ELSE IF s[k] < 32 THEN {} ELSE Plain(s, k, from)
  OBVIOUS
<1>. HIDE DEF Cases
<1>. QED
  BY <1>3, <1>4, <1>5, <1>6, <1>7, Zenon

(* So have the rounds of process_string.                                    *)
LEMMA ProcessStringIs ==
  ASSUME NEW s, NEW last \in Nat
  PROVE  \A k \in Nat :
           process_string(s, last)[k]
             = CharsAt(s, k, last, process_string(s, last))
<1>. DEFINE Solves(m, f) ==
              \A k \in Nat : k + m > last => f[k] = CharsAt(s, k, last, f)
            S == {m \in Nat : \E f : Solves(m, f)}
<1>1. 0 \in S
  <2>. DEFINE f == [k \in Nat |-> {<< >>}]
  <2>1. Solves(0, f)
    BY DEF CharsAt
  <2>. HIDE DEF f
  <2>. QED
    BY <2>1
<1>2. ASSUME NEW m \in Nat, m \in S
      PROVE  m + 1 \in S
  <2>1. PICK f : Solves(m, f)
    BY <1>2
  <2>. DEFINE g == [k \in Nat |->
                      IF k + m = last THEN CharsAt(s, k, last, f) ELSE f[k]]
  <2>2. \A k \in Nat : k + m > last => g[k] = f[k]
    OBVIOUS
  <2>3. \A k \in Nat : k + m = last => g[k] = CharsAt(s, k, last, f)
    OBVIOUS
  <2>. HIDE DEF g
  <2>4. ASSUME NEW k \in Nat, k + (m + 1) > last
        PROVE  g[k] = CharsAt(s, k, last, g)
    <3>1. \A l \in Nat : l > k => f[l] = g[l]
      BY <2>2, <2>4
    <3>2. CharsAt(s, k, last, f) = CharsAt(s, k, last, g)
      BY <3>1, CharsLookAhead
    <3>3. CASE k + m = last
      BY <2>3, <3>2, <3>3
    <3>4. CASE k + m # last
      <4>1. k + m > last
        BY <2>4, <3>4
      <4>. HIDE DEF S
      <4>. QED
        BY <2>1, <2>2, <3>2, <4>1
    <3>. QED
      BY <3>3, <3>4
  <2>5. Solves(m + 1, g)
    BY <2>4
  <2>. QED
    BY <2>5
<1>3. \A m \in Nat : m \in S
  <2>. HIDE DEF S
  <2>. QED
    BY <1>1, <1>2, NatSetInduction
<1>4. PICK f : Solves(last + 1, f)
  <2>1. last + 1 \in S
    <3>. HIDE DEF S
    <3>. QED
      BY <1>3
  <2>. HIDE DEF Solves
  <2>. QED
    BY <2>1
<1>. DEFINE F == [k \in Nat |-> f[k]]
<1>5. \A k \in Nat : F[k] = f[k]
  OBVIOUS
<1>6. \A k \in Nat : f[k] = CharsAt(s, k, last, f)
  BY <1>4
<1>. HIDE DEF F
<1>7. \A k \in Nat : f[k] = CharsAt(s, k, last, F)
  BY <1>5, <1>6, CharsLookAhead
<1>8. F = [k \in Nat |-> CharsAt(s, k, last, F)]
  BY <1>7 DEF F
<1>. DEFINE from == CHOOSE from : from = [k \in Nat |-> CharsAt(s, k, last, from)]
<1>9. from = [k \in Nat |-> CharsAt(s, k, last, from)]
  BY <1>8
<1>10. process_string(s, last) = from
  BY DEF process_string
<1>. HIDE DEF from
<1>. QED
  BY <1>9, <1>10

(* What json_serialize_string writes.                                       *)

\* p[k] bytes come of the first k of the sequences in w.
Lengths(w, n, p) ==
  /\ p \in [0 .. n -> Nat] /\ p[0] = 0
  /\ \A k \in 1 .. n : p[k] = p[k - 1] + Len(w[k])

LEMMA ConcatAt ==
  ASSUME NEW S, NEW s \in Seq(S), NEW t \in Seq(S)
  PROVE  /\ s \o t \in Seq(S) /\ Len(s \o t) = Len(s) + Len(t)
         /\ \A z \in 1 .. Len(s) : (s \o t)[z] = s[z]
         /\ \A z \in 1 .. Len(t) : (s \o t)[Len(s) + z] = t[z]
<1>. DEFINE r == s \o t
<1>1. /\ r \in Seq(S) /\ Len(r) = Len(s) + Len(t)
      /\ \A z \in 1 .. Len(s) + Len(t) :
           r[z] = IF z <= Len(s) THEN s[z] ELSE t[z - Len(s)]
  BY ConcatProperties
<1>2. Len(s) \in Nat /\ Len(t) \in Nat
  BY LenProperties
<1>. HIDE DEF r
<1>3. \A z \in 1 .. Len(s) : r[z] = s[z]
  BY <1>1, <1>2
<1>4. ASSUME NEW z \in 1 .. Len(t)
      PROVE  r[Len(s) + z] = t[z]
  <2>. DEFINE q == Len(s) + z
  <2>1. q \in 1 .. Len(s) + Len(t) /\ ~(q <= Len(s)) /\ q - Len(s) = z
    BY <1>2
  <2>. HIDE DEF q
  <2>2. r[q] = t[z]
    BY <1>1, <2>1
  <2>. QED
    BY <2>2 DEF q
<1>. QED
  BY <1>1, <1>3, <1>4 DEF r

\* The prefixes that FlattenSeq builds.
Flattens(S, w, f) ==
  /\ f \in [1 .. Len(w) -> Seq(S)] /\ FlattenSeq(w) = f[Len(w)]
  /\ f[1] = w[1]
  /\ \A z \in 2 .. Len(w) : f[z] = f[z - 1] \o w[z]

LEMMA FlattenPrefixes ==
  ASSUME NEW S, NEW w \in Seq(Seq(S)), Len(w) # 0
  PROVE  \E f : Flattens(S, w, f)
<1>. DEFINE n == Len(w)
<1>0. n \in Nat \ {0} /\ Len(w) = n
  BY LenProperties
<1>. HIDE DEF n
<1>. USE <1>0
<1>. DEFINE Upto(m, f) ==
              f = [z \in 1 .. m |-> IF z = 1 THEN w[1] ELSE f[z - 1] \o w[z]]
            T == {m \in Nat : \E f : Upto(m, f)}
<1>1. 0 \in T
  <2>. DEFINE f == [z \in 1 .. 0 |-> w[z]]
  <2>1. Upto(0, f)
    OBVIOUS
  <2>. HIDE DEF f
  <2>. QED
    BY <2>1
<1>2. ASSUME NEW m \in Nat, m \in T
      PROVE  m + 1 \in T
  <2>1. PICK f : Upto(m, f)
    BY <1>2
  <2>. DEFINE g == [z \in 1 .. m + 1 |-> IF z <= m THEN f[z]
                      ELSE IF z = 1 THEN w[1] ELSE f[m] \o w[z]]
  <2>2. \A z \in 1 .. m : f[z] = IF z = 1 THEN w[1] ELSE f[z - 1] \o w[z]
    BY <2>1
  <2>3. \A z \in 1 .. m : g[z] = f[z]
    OBVIOUS
  <2>4. g[m + 1] = IF m + 1 = 1 THEN w[1] ELSE f[m] \o w[m + 1]
    OBVIOUS
  <2>5. g = [z \in 1 .. m + 1 |-> g[z]]
    OBVIOUS
  <2>. HIDE DEF g
  <2>6. ASSUME NEW z \in 1 .. m + 1
        PROVE  g[z] = IF z = 1 THEN w[1] ELSE g[z - 1] \o w[z]
    <3>1. CASE z = m + 1
      <4>1. z # 1 => m \in 1 .. m /\ z - 1 = m
        BY <3>1
      <4>. QED
        BY <2>3, <2>4, <3>1, <4>1
    <3>2. CASE z # m + 1
      <4>1. z \in 1 .. m /\ (z # 1 => z - 1 \in 1 .. m)
        BY <3>2
      <4>. QED
        BY <2>2, <2>3, <4>1
    <3>. QED
      BY <3>1, <3>2
  <2>7. Upto(m + 1, g)
    BY <2>5, <2>6
  <2>. HIDE DEF Upto
  <2>. QED
    BY <2>7
<1>3. n \in T
  <2>. HIDE DEF T
  <2>. QED
    BY <1>1, <1>2, NatSetInduction
<1>. DEFINE f == CHOOSE f : Upto(n, f)
<1>4. Upto(n, f)
  BY <1>3
<1>5. FlattenSeq(w) = f[n]
  BY DEF FlattenSeq
<1>. HIDE DEF f
<1>7. \A z \in 1 .. n : f[z] = IF z = 1 THEN w[1] ELSE f[z - 1] \o w[z]
  BY <1>4
<1>. HIDE DEF Upto, T
<1>. DEFINE R == {m \in Nat : m \in 1 .. n => f[m] \in Seq(S)}
<1>8. 0 \in R
  OBVIOUS
<1>9. ASSUME NEW m \in Nat, m \in R
      PROVE  m + 1 \in R
  <2>. SUFFICES ASSUME m + 1 \in 1 .. n PROVE f[m + 1] \in Seq(S)
    OBVIOUS
  <2>1. w[m + 1] \in Seq(S)
    BY ElementOfSeq
  <2>2. CASE m = 0
    BY <1>7, <2>1, <2>2
  <2>3. CASE m # 0
    <3>. DEFINE k == m + 1
    <3>1. m \in 1 .. n /\ k \in 1 .. n /\ k # 1 /\ k - 1 = m
      BY <2>3
    <3>. HIDE DEF k
    <3>2. f[m] \in Seq(S) /\ f[k] = f[m] \o w[k] /\ w[k] \in Seq(S)
      BY <1>7, <1>9, <2>1, <3>1 DEF k
    <3>3. f[k] \in Seq(S)
      BY <3>2, ConcatProperties
    <3>. QED
      BY <3>3 DEF k
  <2>. QED
    BY <2>2, <2>3
<1>10. \A m \in Nat : m \in R
  <2>. HIDE DEF R
  <2>. QED
    BY <1>8, <1>9, NatSetInduction
<1>11. f \in [1 .. n -> Seq(S)]
  <2>1. \A m \in 1 .. n : f[m] \in Seq(S)
    BY <1>10
  <2>2. f = [m \in 1 .. n |-> f[m]]
    BY <1>4 DEF Upto
  <2>. QED
    BY <2>1, <2>2
<1>12. \A z \in 2 .. n : f[z] = f[z - 1] \o w[z]
  <2>1. \A z \in 2 .. n : z \in 1 .. n /\ z # 1
    OBVIOUS
  <2>. QED
    BY <1>7, <2>1
<1>13. f[1] = w[1]
  BY <1>7
<1>. HIDE DEF R
<1>. QED
  BY <1>5, <1>11, <1>12, <1>13 DEF Flattens, n

\* Where the sequences of w stand in their concatenation.
StandsAt(w, flat, p) ==
  /\ Lengths(w, Len(w), p) /\ p[Len(w)] = Len(flat)
  /\ \A k \in 1 .. Len(w) : \A m \in 1 .. Len(w[k]) : flat[p[k - 1] + m] = w[k][m]

LEMMA FlattenAt ==
  ASSUME NEW S, NEW w \in Seq(Seq(S))
  PROVE  FlattenSeq(w) \in Seq(S) /\ \E p : StandsAt(w, FlattenSeq(w), p)
<1>. DEFINE n == Len(w)
<1>0. n \in Nat /\ \A k \in 1 .. n : w[k] \in Seq(S) /\ Len(w[k]) \in Nat
  BY LenProperties, ElementOfSeq
<1>1. CASE n = 0
  <2>1. w = << >> /\ FlattenSeq(w) = << >>
    BY <1>1, EmptySeq DEF FlattenSeq
  <2>. DEFINE p == [k \in 0 .. 0 |-> 0]
  <2>2. Lengths(w, 0, p) /\ p[0] = 0
    BY DEF Lengths
  <2>. HIDE DEF p
  <2>3. \A k \in 1 .. 0 : FALSE
    OBVIOUS
  <2>4. Len(w) = 0 /\ Len(FlattenSeq(w)) = 0 /\ FlattenSeq(w) \in Seq(S)
    BY <1>1, <2>1, EmptySeq
  <2>. QED
    BY <2>2, <2>3, <2>4 DEF StandsAt
<1>2. CASE n # 0
  <2>. HIDE DEF n
  <2>1. n \in Nat \ {0} /\ Len(w) = n
    BY <1>0, <1>2 DEF n
  <2>. USE <2>1
  <2>2. PICK f : /\ f \in [1 .. n -> Seq(S)] /\ FlattenSeq(w) = f[n]
                 /\ f[1] = w[1]
                 /\ \A z \in 2 .. n : f[z] = f[z - 1] \o w[z]
    <3>1. PICK f : Flattens(S, w, f)
      BY FlattenPrefixes
    <3>. QED
      BY <3>1 DEF Flattens, n
  <2>3. \A z \in 1 .. n : f[z] \in Seq(S) /\ Len(f[z]) \in Nat
    BY <2>2, LenProperties
  <2>. DEFINE p == [k \in 0 .. n |-> IF k = 0 THEN 0 ELSE Len(f[k])]
  <2>4. p[0] = 0 /\ \A k \in 1 .. n : p[k] = Len(f[k])
    BY <2>1
  <2>5. p \in [0 .. n -> Nat]
    BY <2>3
  <2>. HIDE DEF p
  <2>6. ASSUME NEW z \in 2 .. n
        PROVE  /\ Len(f[z]) = Len(f[z - 1]) + Len(w[z])
               /\ \A y \in 1 .. Len(f[z - 1]) : f[z][y] = f[z - 1][y]
               /\ \A y \in 1 .. Len(w[z]) : f[z][Len(f[z - 1]) + y] = w[z][y]
    <3>1. z \in 1 .. n /\ z - 1 \in 1 .. n
      OBVIOUS
    <3>2. f[z - 1] \in Seq(S) /\ w[z] \in Seq(S) /\ f[z] = f[z - 1] \o w[z]
      BY <1>0, <2>2, <2>3, <3>1 DEF n
    <3>. DEFINE a == f[z - 1]
                b == w[z]
    <3>. HIDE DEF a, b
    <3>3. a \in Seq(S) /\ b \in Seq(S) /\ f[z] = a \o b
      BY <3>2 DEF a, b
    <3>4. /\ Len(a \o b) = Len(a) + Len(b)
          /\ \A y \in 1 .. Len(a) : (a \o b)[y] = a[y]
          /\ \A y \in 1 .. Len(b) : (a \o b)[Len(a) + y] = b[y]
      BY <3>3, ConcatAt
    <3>. QED
      BY <3>3, <3>4 DEF a, b
  <2>7. Lengths(w, n, p)
    <3>. SUFFICES ASSUME NEW k \in 1 .. n
                  PROVE  p[k] = p[k - 1] + Len(w[k])
      BY <2>4, <2>5 DEF Lengths
    <3>1. CASE k = 1
      BY <1>0, <2>2, <2>4, <3>1 DEF n
    <3>2. CASE k # 1
      <4>1. k \in 2 .. n /\ k - 1 \in 1 .. n
        BY <3>2
      <4>. QED
        BY <2>4, <2>6, <4>1
    <3>. QED
      BY <3>1, <3>2
  <2>8. ASSUME NEW k \in 1 .. n, NEW m \in 1 .. Len(w[k])
        PROVE  f[n][p[k - 1] + m] = w[k][m]
    <3>. DEFINE q == p[k - 1] + m
                T == {d \in Nat : k + d \in 1 .. n =>
                        q \in 1 .. Len(f[k + d]) /\ f[k + d][q] = w[k][m]}
    <3>0. Len(w[k]) \in Nat /\ m \in Nat /\ m >= 1 /\ k \in Nat
      BY <1>0 DEF n
    <3>1. p[k] = p[k - 1] + Len(w[k]) /\ p[k] = Len(f[k]) /\ p[k - 1] \in Nat
      BY <2>4, <2>7 DEF Lengths
    <3>2. q \in Nat /\ q >= 1 /\ q <= Len(f[k])
      BY <3>0, <3>1
    <3>3. f[k][q] = w[k][m]
      <4>1. CASE k = 1
        BY <2>2, <2>4, <3>0, <4>1
      <4>2. CASE k # 1
        <5>1. k \in 2 .. n /\ p[k - 1] = Len(f[k - 1])
          BY <2>4, <4>2
        <5>. QED
          BY <2>6, <5>1, ZenonT(30)
      <4>. QED
        BY <4>1, <4>2
    <3>. HIDE DEF q
    <3>4. 0 \in T
      BY <2>3, <3>0, <3>2, <3>3
    <3>5. ASSUME NEW d \in Nat, d \in T
          PROVE  d + 1 \in T
      <4>. DEFINE z == k + (d + 1)
      <4>. SUFFICES ASSUME z \in 1 .. n
                    PROVE  q \in 1 .. Len(f[z]) /\ f[z][q] = w[k][m]
        OBVIOUS
      <4>1. z \in 2 .. n /\ z - 1 = k + d /\ k + d \in 1 .. n
        BY <3>0
      <4>. HIDE DEF z
      <4>2. q \in 1 .. Len(f[z - 1]) /\ f[z - 1][q] = w[k][m]
        BY <3>5, <4>1
      <4>3. /\ Len(f[z]) = Len(f[z - 1]) + Len(w[z]) /\ f[z][q] = f[z - 1][q]
            /\ Len(w[z]) \in Nat /\ Len(f[z - 1]) \in Nat
        BY <1>0, <2>3, <2>6, <4>1, <4>2 DEF n
      <4>. QED
        BY <4>2, <4>3
    <3>6. n - k \in Nat /\ k + (n - k) = n
      BY <2>1
    <3>7. n - k \in T
      <4>. HIDE DEF T
      <4>. QED
        BY <3>4, <3>5, <3>6, NatSetInduction
    <3>. QED
      BY <2>1, <3>6, <3>7 DEF q
  <2>9. FlattenSeq(w) \in Seq(S) /\ Len(FlattenSeq(w)) = p[n]
    BY <2>1, <2>2, <2>3, <2>4
  <2>. QED
    BY <2>1, <2>2, <2>7, <2>8, <2>9 DEF StandsAt
<1>. QED
  BY <1>1, <1>2

-----------------------------------------------------------------------------
(* Reading back what has been written, one round after the other.           *)

LEMMA SkipEnd ==
  ASSUME NEW s \in Seq(Nat), NEW k \in 1 .. Len(s), s[k] = Quote
  PROVE  ClosingQuote(s)[k] = k
<1>1. k \in Nat /\ k \in DOMAIN s
  BY LenProperties
<1>. QED
  BY <1>1, ClosingQuoteIs DEF QuoteAt, CharAt, Quote

LEMMA SkipPlain ==
  ASSUME NEW s \in Seq(Nat), NEW k \in 1 .. Len(s),
         s[k] \notin {0, Quote, Backslash}
  PROVE  ClosingQuote(s)[k] = ClosingQuote(s)[k + 1]
<1>1. k \in Nat /\ k \in DOMAIN s
  BY LenProperties
<1>. QED
  BY <1>1, ClosingQuoteIs DEF QuoteAt, CharAt

LEMMA SkipEscape ==
  ASSUME NEW s \in Seq(Nat), NEW k \in 1 .. Len(s), k + 1 <= Len(s),
         s[k] = Backslash, s[k + 1] # 0
  PROVE  ClosingQuote(s)[k] = ClosingQuote(s)[k + 2]
<1>1. k \in Nat /\ k \in DOMAIN s /\ k + 1 \in DOMAIN s
  BY LenProperties
<1>. QED
  BY <1>1, ClosingQuoteIs, SMTT(30) DEF QuoteAt, CharAt, Quote, Backslash

LEMMA ReadEnd ==
  ASSUME NEW s, NEW last \in Nat, NEW k \in Nat, k > last
  PROVE  process_string(s, last)[k] = {<< >>}
BY ProcessStringIs DEF CharsAt

\* The texts in S with c in front.
Prefixed(c, S) == {<<c>> \o rest : rest \in S}

LEMMA ReadPlain ==
  ASSUME NEW s, NEW last \in Nat, NEW k \in Nat, k <= last,
         NEW c \in Nat, s[k] = c, c # Backslash, c >= 32
  PROVE  process_string(s, last)[k]
           = Prefixed(c, process_string(s, last)[k + 1])
<1>. DEFINE from == process_string(s, last)
<1>1. from[k] = CharsAt(s, k, last, from)
  BY ProcessStringIs
<1>. HIDE DEF from
<1>2. ~(s[k] < 32)
  OBVIOUS
<1>3. from[k] = Plain(s, k, from)
  <2>1. s[k] # Backslash
    OBVIOUS
  <2>2. CharsAt(s, k, last, from) = IF s[k] < 32 THEN {} ELSE Plain(s, k, from)
    BY <2>1, CharsAtIs
  <2>. QED
    BY <1>1, <1>2, <2>2, Zenon
<1>4. Plain(s, k, from) = Prefixed(c, from[k + 1])
  BY DEF Plain, Prefixed
<1>. QED
  BY <1>3, <1>4 DEF from

LEMMA ReadEscape ==
  ASSUME NEW s, NEW last \in Nat, NEW k \in Nat, k <= last, NEW c, NEW letter,
         s[k] = Backslash, CharAt(s, k + 1) = letter, letter # LetterU,
         {e \in Escape : e[2] = letter} = {<<c, letter>>}
  PROVE  process_string(s, last)[k]
           = Prefixed(c, process_string(s, last)[k + 2])
<1>. DEFINE from == process_string(s, last)
            Then(c1) == {<<c1>> \o rest : rest \in from[k + 2]}
<1>1. from[k] = CharsAt(s, k, last, from)
  BY ProcessStringIs
<1>. HIDE DEF from
<1>2. from[k] = Unescaped(s, k, from)
  <2>1. CharAt(s, k + 1) # LetterU
    OBVIOUS
  <2>2. CharsAt(s, k, last, from)
          = IF CharAt(s, k + 1) = LetterU
              THEN Unicode(s, k, from) ELSE Unescaped(s, k, from)
    BY CharsAtIs
  <2>. QED
    BY <1>1, <2>1, <2>2, Zenon
<1>3. Unescaped(s, k, from)
        = UNION {Then(e[1]) : e \in {f \in Escape : f[2] = letter}}
  BY DEF Unescaped
<1>4. \A S : S = {<<c, letter>>} => UNION {Then(e[1]) : e \in S} = Then(c)
  <2>. HIDE DEF Then
  <2>. QED
    OBVIOUS
<1>5. UNION {Then(e[1]) : e \in {f \in Escape : f[2] = letter}} = Then(c)
  BY <1>4
<1>. QED
  BY <1>2, <1>3, <1>5 DEF from, Prefixed

LEMMA HexDigitIs ==
  ASSUME NEW d \in 0 .. 15
  PROVE  /\ HexDigit(d) \in 48 .. 57 \cup 97 .. 102
         /\ hex_char_to_int(HexDigit(d)) = d
BY DEF HexDigit, hex_char_to_int

LEMMA ControlIsPlain ==
  ASSUME NEW c \in Nat, c < 32
  PROVE  /\ c # -1 /\ c \notin Trail /\ c \in 0 .. \h7F
         /\ c \notin \h80 .. \h7FF /\ c \notin Lead
<1>1. c # -1 /\ c \in 0 .. \h7F
  OBVIOUS
<1>2. c \notin \h80 .. \h7FF
  BY SMTT(30)
<1>3. c \notin Trail
  BY DEF Trail
<1>4. c \notin Lead
  BY DEF Lead
<1>. QED
  BY <1>1, <1>2, <1>3, <1>4

LEMMA Utf16Ascii ==
  ASSUME NEW s, NEW k \in Nat, NEW c \in Nat, c < 32,
         parse_utf16_hex(s, k + 1) = c
  PROVE  parse_utf16(s, k) = {[bytes |-> <<c>>, next |-> k + 5]}
<1>. DEFINE cp == parse_utf16_hex(s, k + 1)
            trail == parse_utf16_hex(s, k + 7)
            pair == (cp - \hD800) * 1024 + (trail - \hDC00) + \h10000
            A == {[bytes |-> <<cp>>, next |-> k + 5]}
            E == {[bytes |-> <<192 + cp \div 64, Cont(cp)>>, next |-> k + 5]}
            C == IF \/ CharAt(s, k + 5) # Backslash \/ CharAt(s, k + 6) # LetterU
                    \/ trail \notin Trail
                   THEN {}
                   ELSE {[bytes |-> <<240 + pair \div \h40000, Cont(pair \div 4096),
                                      Cont(pair \div 64), Cont(pair)>>,
                          next |-> k + 11]}
            D == {[bytes |-> <<224 + cp \div 4096, Cont(cp \div 64), Cont(cp)>>,
                   next |-> k + 5]}
<1>1. parse_utf16(s, k) = CASE cp = -1 \/ cp \in Trail -> {}
                            [] cp \in 0 .. \h7F -> A
                            [] cp \in \h80 .. \h7FF -> E
                            [] cp \in Lead -> C
                            [] OTHER -> D
  BY DEF parse_utf16
<1>2. cp = c
  OBVIOUS
<1>3. A = {[bytes |-> <<c>>, next |-> k + 5]}
  BY <1>2
<1>. HIDE DEF cp, A, E, C, D
<1>4. /\ cp # -1 /\ cp \notin Trail /\ cp \in 0 .. \h7F
      /\ cp \notin \h80 .. \h7FF /\ cp \notin Lead
  <2>1. /\ c # -1 /\ c \notin Trail /\ c \in 0 .. \h7F
        /\ c \notin \h80 .. \h7FF /\ c \notin Lead
    BY ControlIsPlain
  <2>. QED
    BY <1>2, <2>1, Zenon
<1>5. parse_utf16(s, k) = A
  BY <1>1, <1>4
<1>. QED
  BY <1>3, <1>5

\* What is written for c, the digits being h and l, stands at k.
ControlAt(s, k, c, h, l) ==
  /\ c \in Nat /\ c < 32 /\ h \in 0 .. 15 /\ l \in 0 .. 15 /\ c = 16 * h + l
  /\ s[k] = Backslash /\ CharAt(s, k + 1) = LetterU
  /\ CharAt(s, k + 2) = 48 /\ CharAt(s, k + 3) = 48
  /\ CharAt(s, k + 4) = HexDigit(h) /\ CharAt(s, k + 5) = HexDigit(l)

LEMMA ReadControl ==
  ASSUME NEW s, NEW last \in Nat, NEW k \in Nat, k <= last,
         NEW c, NEW h, NEW l, ControlAt(s, k, c, h, l)
  PROVE  process_string(s, last)[k]
           = Prefixed(c, process_string(s, last)[k + 6])
<1>2. /\ hex_char_to_int(48) = 0
      /\ hex_char_to_int(HexDigit(h)) = h /\ hex_char_to_int(HexDigit(l)) = l
  <2>1. HexDigit(0) = 48
    BY DEF HexDigit
  <2>2. 0 \in 0 .. 15
    OBVIOUS
  <2>. QED
    BY <2>1, <2>2, HexDigitIs DEF ControlAt
<1>. DEFINE d == [z \in 0 .. 3 |-> hex_char_to_int(CharAt(s, k + 2 + z))]
<1>4. d[0] = 0 /\ d[1] = 0 /\ d[2] = h /\ d[3] = l
  <2>1. /\ k + 2 + 0 = k + 2 /\ k + 2 + 1 = k + 3
        /\ k + 2 + 2 = k + 4 /\ k + 2 + 3 = k + 5
    OBVIOUS
  <2>. QED
    BY <1>2, <2>1 DEF ControlAt
<1>5. parse_utf16_hex(s, k + 2) = IF \E z \in 0 .. 3 : d[z] = -1 THEN -1
        ELSE 4096 * d[0] + 256 * d[1] + 16 * d[2] + d[3]
  BY DEF parse_utf16_hex
<1>. HIDE DEF d
<1>6. parse_utf16_hex(s, k + 2) = c
  BY <1>4, <1>5 DEF ControlAt
<1>7. parse_utf16(s, k + 1) = {[bytes |-> <<c>>, next |-> k + 6]}
  <2>1. k + 1 + 1 = k + 2 /\ k + 1 + 5 = k + 6
    OBVIOUS
  <2>2. parse_utf16_hex(s, k + 1 + 1) = c
    BY <1>6, <2>1
  <2>3. parse_utf16(s, k + 1) = {[bytes |-> <<c>>, next |-> k + 1 + 5]}
    BY <2>2, Utf16Ascii DEF ControlAt
  <2>. QED
    BY <2>1, <2>3
<1>. DEFINE from == process_string(s, last)
            Then(u) == {u.bytes \o rest : rest \in from[u.next]}
<1>8. from[k] = CharsAt(s, k, last, from)
  BY ProcessStringIs
<1>. HIDE DEF from
<1>9. from[k] = Unicode(s, k, from)
  <2>1. CharsAt(s, k, last, from)
          = IF CharAt(s, k + 1) = LetterU
              THEN Unicode(s, k, from) ELSE Unescaped(s, k, from)
    BY CharsAtIs DEF ControlAt
  <2>2. CharAt(s, k + 1) = LetterU
    BY DEF ControlAt
  <2>. QED
    BY <1>8, <2>1, <2>2, Zenon
<1>10. Unicode(s, k, from) = UNION {Then(u) : u \in parse_utf16(s, k + 1)}
  BY DEF Unicode
<1>11. UNION {Then(u) : u \in parse_utf16(s, k + 1)}
         = Then([bytes |-> <<c>>, next |-> k + 6])
  <2>. HIDE DEF Then
  <2>. QED
    BY <1>7
<1>12. Then([bytes |-> <<c>>, next |-> k + 6])
         = Prefixed(c, from[k + 6])
  BY DEF Prefixed
<1>. HIDE DEF Then
<1>. QED
  BY <1>9, <1>10, <1>11, <1>12 DEF from

(* Each byte is written in one of three ways.                               *)
LEMMA WrittenIs ==
  ASSUME NEW c \in 1 .. 255
  PROVE  \/ \E letter \in 1 .. 255 :
              /\ Written(c) = <<Backslash, letter>> /\ letter # LetterU
              /\ {e \in Escape : e[2] = letter} = {<<c, letter>>}
         \/ /\ c < 32
            /\ Written(c) = <<Backslash, LetterU, 48, 48,
                              HexDigit(c \div 16), HexDigit(c % 16)>>
         \/ c >= 32 /\ c \notin {Quote, Backslash} /\ Written(c) = <<c>>
<1>1. CASE \E e \in Escape : e[1] = c
  <2>. DEFINE chosen == CHOOSE e \in Escape : e[1] = c
  <2>1. chosen \in Escape /\ chosen[1] = c
    BY <1>1
  <2>2. Written(c) = <<Backslash, chosen[2]>>
    BY <1>1 DEF Written
  <2>. HIDE DEF chosen
  <2>3. /\ chosen[2] \in 1 .. 255 /\ chosen[2] # LetterU
        /\ chosen = <<chosen[1], chosen[2]>>
    BY <2>1 DEF Escape, LetterU, Quote, Backslash
  <2>4. \A e \in Escape : e[2] = chosen[2] => e = chosen
    BY <2>1 DEF Escape, Quote, Backslash
  <2>. QED
    BY <2>1, <2>2, <2>3, <2>4, ZenonT(30)
<1>2. CASE ~ \E e \in Escape : e[1] = c
  <2>1. c \notin {Quote, Backslash}
    BY <1>2 DEF Escape
  <2>2. Written(c) = IF c < 32
          THEN <<Backslash, LetterU, 48, 48, HexDigit(c \div 16), HexDigit(c % 16)>>
          ELSE <<c>>
    BY <1>2 DEF Written
  <2>3. c < 32 \/ c >= 32
    OBVIOUS
  <2>. QED
    BY <2>1, <2>2, <2>3
<1>. QED
  BY <1>1, <1>2

LEMMA HexDigitRange ==
  ASSUME NEW d \in 0 .. 15
  PROVE  HexDigit(d) \in Nat \ {0, Quote, Backslash}
BY SMTT(30) DEF HexDigit, Quote, Backslash

LEMMA WrittenBytes ==
  ASSUME NEW c \in 1 .. 255
  PROVE  Written(c) \in Seq(Nat)
<1>1. CASE \E letter \in 1 .. 255 : Written(c) = <<Backslash, letter>>
  BY <1>1 DEF Backslash
<1>2. CASE Written(c) = <<Backslash, LetterU, 48, 48,
                          HexDigit(c \div 16), HexDigit(c % 16)>>
  <2>1. c \div 16 \in 0 .. 15 /\ c % 16 \in 0 .. 15
    OBVIOUS
  <2>2. HexDigit(c \div 16) \in Nat /\ HexDigit(c % 16) \in Nat
    BY <2>1, HexDigitRange
  <2>. QED
    BY <1>2, <2>2 DEF Backslash, LetterU
<1>3. CASE Written(c) = <<c>>
  BY <1>3
<1>. QED
  BY <1>1, <1>2, <1>3, WrittenIs

\* The byte at q[k] of the text is the first that is written for the k-th one.
Places(chars, q) ==
  LET T == json_serialize_string(chars) IN
  /\ q \in [1 .. Len(chars) + 1 -> Nat]
  /\ q[1] = 2 /\ q[Len(chars) + 1] = Len(T)
  /\ \A k \in 1 .. Len(chars) :
       /\ q[k + 1] = q[k] + Len(Written(chars[k]))
       /\ \A m \in 1 .. Len(Written(chars[k])) :
            (q[k] >= 2 /\ q[k] + m <= Len(T)) =>
              T[q[k] + m - 1] = Written(chars[k])[m]

(* A text is a quote, what is written for each byte and another quote.      *)
LEMMA TextIs ==
  ASSUME NEW chars \in Seq(1 .. 255)
  PROVE  LET T == json_serialize_string(chars) IN
         /\ T \in Seq(Nat) /\ Len(T) \in Nat /\ Len(T) >= 2
         /\ T[1] = Quote /\ T[Len(T)] = Quote
         /\ \E q : Places(chars, q)
<1>. DEFINE n == Len(chars)
            w == [z \in DOMAIN chars |-> Written(chars[z])]
            F == FlattenSeq(w)
            T == json_serialize_string(chars)
<1>1. n \in Nat /\ DOMAIN chars = 1 .. n /\ \A z \in 1 .. n : chars[z] \in 1 .. 255
  BY LenProperties, ElementOfSeq, SMTT(30)
<1>2. w \in Seq(Seq(Nat)) /\ Len(w) = n
  <2>1. \A z \in 1 .. n : Written(chars[z]) \in Seq(Nat)
    BY <1>1, WrittenBytes
  <2>2. w = [z \in 1 .. n |-> Written(chars[z])]
    BY <1>1
  <2>. HIDE DEF n, w
  <2>. QED
    BY <1>1, <2>1, <2>2, IsASeq
<1>3. \A z \in 1 .. n : w[z] = Written(chars[z])
  BY <1>1
<1>. HIDE DEF w
<1>4. F \in Seq(Nat)
  BY <1>2, FlattenAt
<1>16. PICK p : StandsAt(w, F, p)
  BY <1>2, FlattenAt
<1>5. /\ Lengths(w, n, p) /\ p[n] = Len(F)
      /\ \A k \in 1 .. n : \A m \in 1 .. Len(w[k]) :
           F[p[k - 1] + m] = w[k][m]
  BY <1>2, <1>16 DEF StandsAt
<1>6. T = (<<Quote>> \o F) \o <<Quote>>
  BY DEF json_serialize_string, w
<1>. HIDE DEF F, T, n
<1>7. <<Quote>> \in Seq(Nat) /\ Len(<<Quote>>) = 1 /\ <<Quote>>[1] = Quote
  BY DEF Quote
<1>8. /\ <<Quote>> \o F \in Seq(Nat) /\ Len(<<Quote>> \o F) = 1 + Len(F)
      /\ (<<Quote>> \o F)[1] = Quote
      /\ \A z \in 1 .. Len(F) : (<<Quote>> \o F)[1 + z] = F[z]
  BY <1>4, <1>7, ConcatAt
<1>. DEFINE G == <<Quote>> \o F
<1>. HIDE DEF G
<1>9. Len(F) \in Nat
  BY <1>4, LenProperties
<1>10. /\ G \in Seq(Nat) /\ Len(G) = 1 + Len(F) /\ G[1] = Quote
       /\ \A z \in 1 .. Len(F) : G[1 + z] = F[z]
       /\ T = G \o <<Quote>>
  BY <1>6, <1>8 DEF G
<1>11. /\ T \in Seq(Nat) /\ Len(T) = Len(G) + 1
       /\ \A z \in 1 .. Len(G) : T[z] = G[z]
       /\ T[Len(G) + 1] = Quote
  <2>1. /\ G \o <<Quote>> \in Seq(Nat)
        /\ Len(G \o <<Quote>>) = Len(G) + Len(<<Quote>>)
        /\ \A z \in 1 .. Len(G) : (G \o <<Quote>>)[z] = G[z]
        /\ \A z \in 1 .. Len(<<Quote>>) : (G \o <<Quote>>)[Len(G) + z] = <<Quote>>[z]
    BY <1>7, <1>10, ConcatAt
  <2>. QED
    BY <1>7, <1>10, <2>1
<1>12. /\ Len(T) = Len(F) + 2 /\ T[1] = Quote /\ T[Len(F) + 2] = Quote
       /\ \A z \in 1 .. Len(F) : T[1 + z] = F[z]
  <2>1. \A z \in 1 .. Len(F) : 1 + z \in 1 .. Len(G)
    BY <1>9, <1>10
  <2>2. 1 \in 1 .. Len(G) /\ Len(F) + 2 = Len(G) + 1
    BY <1>9, <1>10
  <2>. QED
    BY <1>10, <1>11, <2>1, <2>2
<1>. DEFINE q == [k \in 1 .. n + 1 |-> 2 + p[k - 1]]
<1>13. p \in [0 .. n -> Nat] /\ p[0] = 0
       /\ \A k \in 1 .. n : p[k] = p[k - 1] + Len(w[k])
  BY <1>5 DEF Lengths
<1>14. /\ q \in [1 .. n + 1 -> Nat] /\ q[1] = 2 /\ q[n + 1] = Len(T)
       /\ \A k \in 1 .. n : q[k] = 2 + p[k - 1] /\ q[k + 1] = 2 + p[k]
                            /\ p[k - 1] \in Nat
  <2>1. \A k \in 1 .. n + 1 : p[k - 1] \in Nat
    <3>1. \A k \in 1 .. n + 1 : k - 1 \in 0 .. n
      BY <1>1
    <3>. HIDE DEF q
    <3>. QED
      BY <1>13, <3>1
  <2>2. 1 \in 1 .. n + 1 /\ n + 1 \in 1 .. n + 1 /\ n + 1 - 1 = n
    BY <1>1
  <2>3. \A k \in 1 .. n : k \in 1 .. n + 1 /\ k + 1 \in 1 .. n + 1 /\ k + 1 - 1 = k
    BY <1>1
  <2>4. q \in [1 .. n + 1 -> Nat]
    BY <2>1
  <2>5. /\ q[1] = 2 + p[0] /\ q[n + 1] = 2 + p[n]
        /\ \A k \in 1 .. n : q[k] = 2 + p[k - 1] /\ q[k + 1] = 2 + p[k]
    <3>1. \A k \in 1 .. n + 1 : q[k] = 2 + p[k - 1]
      OBVIOUS
    <3>2. 1 - 1 = 0
      OBVIOUS
    <3>. HIDE DEF q
    <3>. QED
      BY <1>1, <2>2, <2>3, <3>1, <3>2
  <2>. HIDE DEF q
  <2>. QED
    BY <1>5, <1>9, <1>12, <1>13, <2>1, <2>3, <2>4, <2>5
<1>. HIDE DEF q
<1>15. ASSUME NEW k \in 1 .. n
       PROVE  /\ q[k + 1] = q[k] + Len(Written(chars[k]))
              /\ \A m \in 1 .. Len(Written(chars[k])) :
                   (q[k] >= 2 /\ q[k] + m <= Len(T)) =>
                      T[q[k] + m - 1] = Written(chars[k])[m]
  <2>1. /\ w[k] = Written(chars[k]) /\ Len(w[k]) \in Nat /\ p[k - 1] \in Nat
        /\ q[k] = 2 + p[k - 1] /\ q[k + 1] = 2 + p[k]
        /\ p[k] = p[k - 1] + Len(w[k])
    <3>1. Written(chars[k]) \in Seq(Nat)
      BY <1>1, WrittenBytes
    <3>2. Len(Written(chars[k])) \in Nat
      BY <3>1, LenProperties
    <3>. QED
      BY <1>3, <1>13, <1>14, <3>2
  <2>2. q[k + 1] = q[k] + Len(w[k])
    BY <2>1
  <2>3. ASSUME NEW m \in 1 .. Len(w[k]), q[k] + m <= Len(T)
        PROVE  T[q[k] + m - 1] = w[k][m]
    <3>. DEFINE a == p[k - 1] + m
    <3>0. m \in Nat /\ m >= 1
      BY <2>1
    <3>1. a \in 1 .. Len(F) /\ q[k] + m - 1 = 1 + a
      <4>. DEFINE b == p[k - 1]
                  c == q[k]
                  l == Len(F)
      <4>1. b \in Nat /\ c = 2 + b /\ l \in Nat /\ c + m <= l + 2
        BY <1>9, <1>12, <2>1, <2>3
      <4>2. a = b + m
        OBVIOUS
      <4>. HIDE DEF a, b, c, l
      <4>3. a \in 1 .. l /\ c + m - 1 = 1 + a
        BY <3>0, <4>1, <4>2
      <4>. QED
        BY <4>3 DEF c, l
    <3>2. F[a] = w[k][m]
      BY <1>5
    <3>. HIDE DEF a
    <3>. QED
      BY <1>12, <3>1, <3>2
  <2>. QED
    BY <2>1, <2>2, <2>3
<1>17. Places(chars, q)
  BY <1>14, <1>15 DEF Places, n, T
<1>. QED
  BY <1>9, <1>11, <1>12, <1>17 DEF T

\* What reading the text of string from k on has to give, if reading from l on
\* does what it has to.
ReadsBack(quoted, last, k, c, l) ==
  /\ ClosingQuote(quoted)[k] = ClosingQuote(quoted)[l]
  /\ process_string(quoted, last)[k]
       = Prefixed(c, process_string(quoted, last)[l])

LEMMA ReadsBackEscape ==
  ASSUME NEW quoted \in Seq(Nat), NEW k \in Nat, k >= 1, k + 2 <= Len(quoted),
         NEW c, NEW letter \in 1 .. 255, letter # LetterU,
         quoted[k] = Backslash, quoted[k + 1] = letter,
         {e \in Escape : e[2] = letter} = {<<c, letter>>}
  PROVE  ReadsBack(quoted, Len(quoted) - 1, k, c, k + 2)
<1>1. /\ Len(quoted) \in Nat /\ Len(quoted) - 1 \in Nat
      /\ DOMAIN quoted = 1 .. Len(quoted)
  BY LenProperties
<1>2. /\ k \in 1 .. Len(quoted) /\ k + 1 \in DOMAIN quoted /\ k + 1 <= Len(quoted)
      /\ k <= Len(quoted) - 1
  BY <1>1
<1>3. CharAt(quoted, k + 1) = letter /\ quoted[k + 1] # 0
  BY <1>2 DEF CharAt
<1>4. ClosingQuote(quoted)[k] = ClosingQuote(quoted)[k + 2]
  BY <1>2, <1>3, SkipEscape
<1>. DEFINE last == Len(quoted) - 1
<1>5. last \in Nat /\ k <= last
  BY <1>1, <1>2
<1>. HIDE DEF last
<1>6. process_string(quoted, last)[k]
        = Prefixed(c, process_string(quoted, last)[k + 2])
  BY <1>3, <1>5, ReadEscape
<1>. QED
  BY <1>4, <1>6 DEF ReadsBack, last

LEMMA ReadsBackPlain ==
  ASSUME NEW quoted \in Seq(Nat), NEW k \in Nat, k >= 1, k + 1 <= Len(quoted),
         NEW c \in Nat, c >= 32, c \notin {Quote, Backslash}, quoted[k] = c
  PROVE  ReadsBack(quoted, Len(quoted) - 1, k, c, k + 1)
<1>1. /\ Len(quoted) \in Nat /\ Len(quoted) - 1 \in Nat /\ k \in 1 .. Len(quoted)
      /\ k <= Len(quoted) - 1
  BY LenProperties
<1>2. ClosingQuote(quoted)[k] = ClosingQuote(quoted)[k + 1]
  <2>1. quoted[k] \notin {0, Quote, Backslash}
    OBVIOUS
  <2>. QED
    BY <1>1, <2>1, SkipPlain
<1>. DEFINE last == Len(quoted) - 1
<1>3. last \in Nat /\ k <= last
  BY <1>1
<1>. HIDE DEF last
<1>4. process_string(quoted, last)[k]
        = Prefixed(c, process_string(quoted, last)[k + 1])
  BY <1>3, ReadPlain
<1>. QED
  BY <1>2, <1>4, Zenon DEF ReadsBack, last

LEMMA SkipControl ==
  ASSUME NEW quoted \in Seq(Nat), NEW k \in Nat, k >= 1, k + 6 <= Len(quoted),
         quoted[k] = Backslash, quoted[k + 1] = LetterU,
         \A d \in 2 .. 5 : quoted[k + d] \notin {0, Quote, Backslash}
  PROVE  ClosingQuote(quoted)[k] = ClosingQuote(quoted)[k + 6]
<1>1. Len(quoted) \in Nat
  BY LenProperties
<1>2. k \in 1 .. Len(quoted) /\ k + 1 <= Len(quoted) /\ quoted[k + 1] # 0
  <2>. DEFINE n == Len(quoted)
  <2>1. n \in Nat /\ k + 6 <= n
    BY <1>1
  <2>. HIDE DEF n
  <2>2. k \in 1 .. n /\ k + 1 <= n
    BY <2>1
  <2>3. quoted[k + 1] # 0
    BY DEF LetterU
  <2>. QED
    BY <2>2, <2>3 DEF n
<1>3. ClosingQuote(quoted)[k] = ClosingQuote(quoted)[k + 2]
  BY <1>2, SkipEscape
<1>4. ASSUME NEW d \in 2 .. 5
      PROVE  ClosingQuote(quoted)[k + d] = ClosingQuote(quoted)[k + d + 1]
  <2>. DEFINE l == k + d
  <2>1. l \in 1 .. Len(quoted) /\ quoted[l] \notin {0, Quote, Backslash}
    BY <1>1, SMTT(30)
  <2>. HIDE DEF l
  <2>2. ClosingQuote(quoted)[l] = ClosingQuote(quoted)[l + 1]
    BY <2>1, SkipPlain
  <2>. QED
    BY <2>2 DEF l
<1>5. /\ k + 2 + 1 = k + 3 /\ k + 3 + 1 = k + 4
      /\ k + 4 + 1 = k + 5 /\ k + 5 + 1 = k + 6
      /\ 2 \in 2 .. 5 /\ 3 \in 2 .. 5 /\ 4 \in 2 .. 5 /\ 5 \in 2 .. 5
  OBVIOUS
<1>. QED
  BY <1>3, <1>4, <1>5

LEMMA ReadsBackControl ==
  ASSUME NEW quoted \in Seq(Nat), NEW k \in Nat, k >= 1, k + 6 <= Len(quoted),
         NEW c \in Nat, c < 32, quoted[k] = Backslash, quoted[k + 1] = LetterU,
         NEW h \in 0 .. 15, NEW l \in 0 .. 15, c = 16 * h + l,
         quoted[k + 2] = 48, quoted[k + 3] = 48,
         quoted[k + 4] = HexDigit(h), quoted[k + 5] = HexDigit(l)
  PROVE  ReadsBack(quoted, Len(quoted) - 1, k, c, k + 6)
<1>. DEFINE L == Len(quoted)
<1>2. L \in Nat /\ DOMAIN quoted = 1 .. L /\ k + 6 <= L
  BY LenProperties, Zenon
<1>. HIDE DEF L
<1>1. /\ L \in Nat /\ L - 1 \in Nat /\ DOMAIN quoted = 1 .. L /\ k <= L - 1
  BY <1>2
<1>3. \A d \in 2 .. 5 : quoted[k + d] \notin {0, Quote, Backslash}
  <2>1. 48 \notin {0, Quote, Backslash}
    BY DEF Quote, Backslash
  <2>2. /\ HexDigit(h) \notin {0, Quote, Backslash}
        /\ HexDigit(l) \notin {0, Quote, Backslash}
    BY HexDigitRange
  <2>3. \A d \in 2 .. 5 : d = 2 \/ d = 3 \/ d = 4 \/ d = 5
    OBVIOUS
  <2>. QED
    BY <2>1, <2>2, <2>3, ZenonT(30)
<1>4. ClosingQuote(quoted)[k] = ClosingQuote(quoted)[k + 6]
  BY <1>3, SkipControl
<1>5. ControlAt(quoted, k, c, h, l)
  <2>1. /\ k + 1 \in DOMAIN quoted /\ k + 2 \in DOMAIN quoted
        /\ k + 3 \in DOMAIN quoted /\ k + 4 \in DOMAIN quoted
        /\ k + 5 \in DOMAIN quoted
    BY <1>2
  <2>. QED
    BY <2>1, Zenon DEF CharAt, ControlAt
<1>. DEFINE last == L - 1
<1>6. last \in Nat /\ k <= last
  BY <1>1
<1>. HIDE DEF last
<1>7. process_string(quoted, last)[k] = Prefixed(c, process_string(quoted, last)[k + 6])
  BY <1>5, <1>6, ReadControl
<1>. QED
  BY <1>4, <1>7, Zenon DEF ReadsBack, last, L

(* Each byte is read as it was written.                                     *)
LEMMA ByteReadBack ==
  ASSUME NEW chars \in Seq(1 .. 255), NEW q, Places(chars, q),
         NEW k \in 1 .. Len(chars),
         q[k] >= 2, q[k + 1] <= Len(json_serialize_string(chars))
  PROVE  LET T == json_serialize_string(chars) IN
         ReadsBack(T, Len(T) - 1, q[k], chars[k], q[k + 1])
<1>. DEFINE T == json_serialize_string(chars)
            c == chars[k]
            W == Written(c)
            a == q[k]
<1>1. T \in Seq(Nat) /\ Len(T) \in Nat
  BY TextIs
<1>2. c \in 1 .. 255 /\ k \in Nat /\ k >= 1
  BY LenProperties, ElementOfSeq
<1>3. a \in Nat /\ a >= 2 /\ q[k + 1] = a + Len(W) /\ a + Len(W) <= Len(T)
  <2>1. k \in 1 .. Len(chars) + 1
    BY LenProperties
  <2>. QED
    BY <2>1 DEF Places
<1>4. \A m \in 1 .. Len(W) : a + m <= Len(T) => T[a + m - 1] = W[m]
  BY <1>3 DEF Places
<1>. HIDE DEF T, c, a, W
<1>5. ASSUME NEW letter \in 1 .. 255, W = <<Backslash, letter>>,
             letter # LetterU,
             {e \in Escape : e[2] = letter} = {<<c, letter>>}
      PROVE  ReadsBack(T, Len(T) - 1, a, c, a + 2)
  <2>1. Len(W) = 2 /\ W[1] = Backslash /\ W[2] = letter
    BY <1>5
  <2>2. a + 1 - 1 = a /\ a + 2 - 1 = a + 1 /\ a + 1 <= Len(T) /\ a + 2 <= Len(T)
        /\ 1 \in 1 .. 2 /\ 2 \in 1 .. 2
    BY <1>1, <1>3, <2>1
  <2>3. T[a] = Backslash /\ T[a + 1] = letter
    BY <1>4, <2>1, <2>2
  <2>4. a \in Nat /\ a >= 1
    BY <1>3
  <2>. QED
    BY <1>1, <1>5, <2>2, <2>3, <2>4, ReadsBackEscape, ZenonT(30)
<1>6. ASSUME c < 32,
             W = <<Backslash, LetterU, 48, 48, HexDigit(c \div 16), HexDigit(c % 16)>>
      PROVE  ReadsBack(T, Len(T) - 1, a, c, a + 6)
  <2>. DEFINE h == c \div 16
              l == c % 16
  <2>0. h \in 0 .. 15 /\ l \in 0 .. 15 /\ c = 16 * h + l
    BY <1>2, <1>6
  <2>. HIDE DEF h, l
  <2>1. /\ Len(W) = 6 /\ W[1] = Backslash /\ W[2] = LetterU /\ W[3] = 48
        /\ W[4] = 48 /\ W[5] = HexDigit(h) /\ W[6] = HexDigit(l)
    BY <1>6 DEF h, l
  <2>2. /\ a + 1 - 1 = a /\ a + 2 - 1 = a + 1 /\ a + 3 - 1 = a + 2
        /\ a + 4 - 1 = a + 3 /\ a + 5 - 1 = a + 4 /\ a + 6 - 1 = a + 5
        /\ a + 6 <= Len(T) /\ c \in Nat
    BY <1>1, <1>2, <1>3, <2>1
  <2>3. \A m \in 1 .. 6 : T[a + m - 1] = W[m]
    <3>. SUFFICES ASSUME NEW m \in 1 .. 6 PROVE T[a + m - 1] = W[m]
      OBVIOUS
    <3>1. m \in 1 .. Len(W) /\ a + m <= Len(T)
      BY <1>1, <1>3, <2>1
    <3>. QED
      BY <1>4, <3>1
  <2>4. /\ 1 \in 1 .. 6 /\ 2 \in 1 .. 6 /\ 3 \in 1 .. 6 /\ 4 \in 1 .. 6
        /\ 5 \in 1 .. 6 /\ 6 \in 1 .. 6
    OBVIOUS
  <2>5. /\ T[a] = Backslash /\ T[a + 1] = LetterU /\ T[a + 2] = 48
        /\ T[a + 3] = 48 /\ T[a + 4] = HexDigit(h) /\ T[a + 5] = HexDigit(l)
    BY <2>1, <2>2, <2>3, <2>4
  <2>6. a >= 1
    BY <1>3
  <2>. QED
    BY <1>1, <1>3, <1>6, <2>0, <2>2, <2>5, <2>6, ReadsBackControl, Zenon
<1>7. ASSUME c >= 32, c \notin {Quote, Backslash}, W = <<c>>
      PROVE  ReadsBack(T, Len(T) - 1, a, c, a + 1)
  <2>1. Len(W) = 1 /\ W[1] = c
    BY <1>7
  <2>2. a + 1 - 1 = a /\ a + 1 <= Len(T) /\ 1 \in 1 .. 1 /\ a >= 1 /\ c \in Nat
    BY <1>1, <1>2, <1>3, <2>1
  <2>3. T[a] = c
    BY <1>4, <2>1, <2>2, SMTT(30)
  <2>. QED
    BY <1>1, <1>3, <1>7, <2>2, <2>3, ReadsBackPlain, Zenon
<1>8. ReadsBack(T, Len(T) - 1, a, c, a + Len(W))
  <2>1. CASE \E letter \in 1 .. 255 :
               /\ W = <<Backslash, letter>> /\ letter # LetterU
               /\ {e \in Escape : e[2] = letter} = {<<c, letter>>}
    <3>1. Len(W) = 2
      BY <2>1
    <3>. QED
      BY <1>5, <2>1, <3>1
  <2>2. CASE /\ c < 32
             /\ W = <<Backslash, LetterU, 48, 48,
                      HexDigit(c \div 16), HexDigit(c % 16)>>
    <3>1. Len(W) = 6
      BY <2>2
    <3>. QED
      BY <1>6, <2>2, <3>1
  <2>3. CASE c >= 32 /\ c \notin {Quote, Backslash} /\ W = <<c>>
    <3>1. Len(W) = 1
      BY <2>3
    <3>. QED
      BY <1>7, <2>3, <3>1
  <2>. QED
    BY <1>2, <2>1, <2>2, <2>3, WrittenIs DEF W
<1>. QED
  BY <1>3, <1>8 DEF T, c, a

(* What json_serialize_string writes get_quoted_string reads back.          *)
LEMMA QuotedReadBack ==
  ASSUME NEW chars \in Seq(1 .. 255)
  PROVE  get_quoted_string(json_serialize_string(chars)) = {chars}
<1>. DEFINE n == Len(chars)
            T == json_serialize_string(chars)
            L == Len(T)
            from == process_string(T, L - 1)
<1>1. n \in Nat
  BY LenProperties
<1>2. T \in Seq(Nat) /\ L \in Nat /\ L >= 2 /\ T[1] = Quote /\ T[L] = Quote
  BY TextIs
<1>3. PICK q : Places(chars, q)
  BY TextIs
<1>4. /\ q \in [1 .. n + 1 -> Nat] /\ q[1] = 2 /\ q[n + 1] = L
      /\ \A k \in 1 .. n : /\ q[k + 1] = q[k] + Len(Written(chars[k]))
                           /\ Len(Written(chars[k])) \in Nat
  <2>1. \A k \in 1 .. n : Len(Written(chars[k])) \in Nat
    <3>1. \A k \in 1 .. n : Written(chars[k]) \in Seq(Nat)
      BY ElementOfSeq, WrittenBytes
    <3>. QED
      BY <3>1, LenProperties
  <2>. QED
    BY <1>3, <2>1 DEF Places
<1>5. \A k \in 1 .. n : (q[k] >= 2 /\ q[k + 1] <= L) =>
         /\ ClosingQuote(T)[q[k]] = ClosingQuote(T)[q[k + 1]]
         /\ from[q[k]] = Prefixed(chars[k], from[q[k + 1]])
  <2>. SUFFICES ASSUME NEW k \in 1 .. n, q[k] >= 2, q[k + 1] <= L
                PROVE  ReadsBack(T, L - 1, q[k], chars[k], q[k + 1])
    BY DEF ReadsBack
  <2>. QED
    BY <1>3, ByteReadBack
<1>. HIDE DEF T, L, from, n
\* The places lie between the quotes.
<1>. DEFINE Up == {m \in Nat : m + 1 \in 1 .. n + 1 => q[m + 1] >= 2}
<1>6. \A k \in 1 .. n + 1 : q[k] >= 2
  <2>1. 0 \in Up
    BY <1>4
  <2>2. ASSUME NEW m \in Nat, m \in Up PROVE m + 1 \in Up
    <3>. SUFFICES ASSUME m + 2 \in 1 .. n + 1 PROVE q[m + 2] >= 2
      OBVIOUS
    <3>. DEFINE k == m + 1
    <3>1. k \in 1 .. n /\ k \in 1 .. n + 1 /\ k + 1 = m + 2 /\ q[k] >= 2
      BY <1>1, <2>2
    <3>. HIDE DEF k
    <3>2. q[k + 1] = q[k] + Len(Written(chars[k])) /\ Len(Written(chars[k])) \in Nat
          /\ q[k] \in Nat
      BY <1>4, <3>1
    <3>. QED
      BY <3>1, <3>2
  <2>3. \A m \in Nat : m \in Up
    <3>. HIDE DEF Up
    <3>. QED
      BY <2>1, <2>2, NatSetInduction
  <2>4. \A k \in 1 .. n + 1 : k - 1 \in Nat /\ k - 1 + 1 = k
    BY <1>1
  <2>. QED
    BY <2>3, <2>4
<1>. DEFINE Back(k) == /\ q[k] <= L /\ ClosingQuote(T)[q[k]] = L
                       /\ from[q[k]] = {SubSeq(chars, k, n)}
            Down == {m \in Nat : m <= n => Back(n + 1 - m)}
<1>7. 0 \in Down
  <2>1. L \in Nat /\ L \in 1 .. Len(T) /\ L - 1 \in Nat /\ L > L - 1 /\ T[L] = Quote
    BY <1>2 DEF L
  <2>2. ClosingQuote(T)[L] = L
    BY <1>2, <2>1, SkipEnd
  <2>3. from[L] = {<< >>}
    BY <2>1, ReadEnd DEF from
  <2>4. SubSeq(chars, n + 1, n) = << >>
    BY <1>1, SubSeqEmpty
  <2>5. Back(n + 1)
    <3>1. q[n + 1] = L /\ L <= L
      BY <1>2, <1>4
    <3>. QED
      BY <2>2, <2>3, <2>4, <3>1, Zenon
  <2>6. n + 1 - 0 = n + 1
    BY <1>1
  <2>. QED
    BY <2>5, <2>6
<1>8. ASSUME NEW m \in Nat, m \in Down PROVE m + 1 \in Down
  <2>. SUFFICES ASSUME m + 1 <= n PROVE Back(n + 1 - (m + 1))
    OBVIOUS
  <2>. DEFINE k == n + 1 - (m + 1)
  <2>1. k \in 1 .. n /\ k \in 1 .. n + 1 /\ k + 1 \in 1 .. n + 1 /\ k + 1 = n + 1 - m
        /\ m <= n
    BY <1>1
  <2>2. Back(k + 1)
    <3>1. Back(n + 1 - m)
      BY <1>8, <2>1
    <3>. HIDE DEF Back, k
    <3>. QED
      BY <2>1, <3>1
  <2>. HIDE DEF k
  <2>3. /\ q[k + 1] <= L /\ ClosingQuote(T)[q[k + 1]] = L
        /\ from[q[k + 1]] = {SubSeq(chars, k + 1, n)}
    BY <2>2
  <2>4. q[k] >= 2 /\ q[k] \in Nat /\ q[k + 1] \in Nat /\ q[k] <= q[k + 1]
    <3>1. /\ q[k + 1] = q[k] + Len(Written(chars[k]))
          /\ Len(Written(chars[k])) \in Nat
          /\ q[k] >= 2 /\ q[k] \in Nat
      BY <1>4, <1>6, <2>1
    <3>. QED
      BY <3>1
  <2>5. /\ ClosingQuote(T)[q[k]] = ClosingQuote(T)[q[k + 1]]
        /\ from[q[k]] = Prefixed(chars[k], from[q[k + 1]])
    BY <1>5, <2>1, <2>3, <2>4
  <2>6. SubSeq(chars, k, n) = <<chars[k]>> \o SubSeq(chars, k + 1, n)
    <3>1. k \in 1 .. Len(chars) /\ n \in k .. Len(chars)
      BY <1>1, <2>1 DEF n
    <3>. QED
      BY <3>1, SubSeqRecursiveFirst
  <2>7. from[q[k]] = {SubSeq(chars, k, n)}
    BY <2>3, <2>5, <2>6 DEF Prefixed
  <2>8. q[k] <= L
    BY <1>2, <2>3, <2>4
  <2>9. Back(k)
    BY <2>3, <2>5, <2>7, <2>8
  <2>. QED
    BY <2>9 DEF k
<1>9. Back(1)
  <2>1. n \in Down
    <3>. HIDE DEF Down
    <3>. QED
      BY <1>1, <1>7, <1>8, NatSetInduction
  <2>2. n + 1 - n = 1 /\ n <= n
    BY <1>1
  <2>3. Back(n + 1 - n)
    <3>. HIDE DEF Back
    <3>. QED
      BY <2>1, <2>2
  <2>. HIDE DEF Back
  <2>. QED
    BY <2>2, <2>3
<1>10. ClosingQuote(T)[2] = L /\ from[2] = {chars}
  <2>1. SubSeq(chars, 1, n) = chars
    BY SubSeqFull DEF n
  <2>. QED
    BY <1>4, <1>9, <2>1
<1>11. skip_quotes(T) = L
  <2>1. 1 \in DOMAIN T
    BY <1>2, LenProperties DEF L
  <2>. QED
    BY <1>2, <1>10, <2>1 DEF skip_quotes, CharAt
<1>12. CString(chars) = chars
  <2>1. ~ \E k \in DOMAIN chars : chars[k] = 0
    <3>1. \A k \in DOMAIN chars : chars[k] \in 1 .. 255
      BY LenProperties, ElementOfSeq, ZenonT(30)
    <3>2. 0 \notin 1 .. 255
      OBVIOUS
    <3>. QED
      BY <3>1, <3>2, Zenon
  <2>. QED
    BY <2>1, Zenon DEF CString
<1>13. get_quoted_string(T) = {CString(out) : out \in from[2]}
  BY <1>2, <1>11 DEF get_quoted_string, from
<1>. QED
  BY <1>10, <1>12, <1>13 DEF T

-----------------------------------------------------------------------------
(* Base64: the bits of one group.                                           *)

(* The numbers that three bytes and four characters are.                    *)
LEMMA SextetsAre ==
  ASSUME NEW a \in B!Octet, NEW b \in B!Octet, NEW c \in B!Octet
  PROVE  LET t == B!Sextets(<<a, b, c>>) IN
         /\ t \in Seq(B!Digit) /\ Len(t) = 4
         /\ \A m \in 1 .. 4 : t[m] \in B!Digit
         /\ t[1] = a \div 4 /\ t[2] = (a % 4) * 16 + b \div 16
         /\ t[3] = (b % 16) * 4 + c \div 64 /\ t[4] = c % 64
<1>1. B!Sextets(<<a, b, c>>)
        = <<a \div 4, (a % 4) * 16 + b \div 16, (b % 16) * 4 + c \div 64, c % 64>>
  BY DEF B!Sextets
<1>2. /\ a \div 4 \in B!Digit /\ (a % 4) * 16 + b \div 16 \in B!Digit
      /\ (b % 16) * 4 + c \div 64 \in B!Digit /\ c % 64 \in B!Digit
  BY DEF B!Octet, B!Digit
<1>. DEFINE d1 == a \div 4
            d2 == (a % 4) * 16 + b \div 16
            d3 == (b % 16) * 4 + c \div 64
            d4 == c % 64
<1>. HIDE DEF d1, d2, d3, d4
<1>3. \A t : t = <<d1, d2, d3, d4>> =>
        /\ t \in Seq(B!Digit) /\ Len(t) = 4
        /\ \A m \in 1 .. 4 : t[m] \in B!Digit
        /\ t[1] = d1 /\ t[2] = d2 /\ t[3] = d3 /\ t[4] = d4
  BY <1>2 DEF d1, d2, d3, d4
<1>. QED
  BY <1>1, <1>3 DEF d1, d2, d3, d4

LEMMA OctetsAre ==
  ASSUME NEW a \in B!Digit, NEW b \in B!Digit, NEW c \in B!Digit, NEW d \in B!Digit
  PROVE  LET t == B!Octets(<<a, b, c, d>>) IN
         /\ t \in Seq(B!Octet) /\ Len(t) = 3
         /\ \A m \in 1 .. 3 : t[m] \in B!Octet
         /\ t[1] = a * 4 + b \div 16 /\ t[2] = (b % 16) * 16 + c \div 4
         /\ t[3] = (c % 4) * 64 + d
<1>1. B!Octets(<<a, b, c, d>>)
        = <<(a * 4 + b \div 16) % 256, ((b % 16) * 16 + c \div 4) % 256,
            ((c % 4) * 64 + d) % 256>>
  BY DEF B!Octets
<1>2. /\ a * 4 + b \div 16 \in B!Octet /\ (b % 16) * 16 + c \div 4 \in B!Octet
      /\ (c % 4) * 64 + d \in B!Octet
  BY DEF B!Octet, B!Digit
<1>. DEFINE e1 == a * 4 + b \div 16
            e2 == (b % 16) * 16 + c \div 4
            e3 == (c % 4) * 64 + d
<1>. HIDE DEF e1, e2, e3
<1>3. e1 % 256 = e1 /\ e2 % 256 = e2 /\ e3 % 256 = e3
  <2>1. e1 \in 0 .. 255 /\ e2 \in 0 .. 255 /\ e3 \in 0 .. 255
    BY <1>2 DEF e1, e2, e3, B!Octet
  <2>. QED
    BY <2>1
<1>4. \A t : t = <<e1, e2, e3>> =>
        /\ t \in Seq(B!Octet) /\ Len(t) = 3
        /\ \A m \in 1 .. 3 : t[m] \in B!Octet
        /\ t[1] = e1 /\ t[2] = e2 /\ t[3] = e3
  BY <1>2 DEF e1, e2, e3
<1>. QED
  BY <1>1, <1>3, <1>4 DEF e1, e2, e3

(* What is split in sextets is put together again.                          *)
LEMMA OctetsOfSextets ==
  ASSUME NEW a \in B!Octet, NEW b \in B!Octet, NEW c \in B!Octet
  PROVE  LET t == B!Sextets(<<a, b, c>>) IN
         B!Octets(<<t[1], t[2], t[3], t[4]>>) = <<a, b, c>>
<1>. DEFINE t == B!Sextets(<<a, b, c>>)
<1>1. /\ t[1] = a \div 4 /\ t[2] = (a % 4) * 16 + b \div 16
      /\ t[3] = (b % 16) * 4 + c \div 64 /\ t[4] = c % 64
      /\ t[1] \in B!Digit /\ t[2] \in B!Digit /\ t[3] \in B!Digit /\ t[4] \in B!Digit
  BY SextetsAre
<1>. HIDE DEF t
<1>. DEFINE d1 == t[1]
            d2 == t[2]
            d3 == t[3]
            d4 == t[4]
<1>2. d1 * 4 + d2 \div 16 = a
  BY <1>1 DEF B!Octet
<1>3. (d2 % 16) * 16 + d3 \div 4 = b
  BY <1>1 DEF B!Octet
<1>4. (d3 % 4) * 64 + d4 = c
  BY <1>1 DEF B!Octet
<1>5. B!Octets(<<d1, d2, d3, d4>>)
        = <<(d1 * 4 + d2 \div 16) % 256, ((d2 % 16) * 16 + d3 \div 4) % 256,
            ((d3 % 4) * 64 + d4) % 256>>
  BY DEF B!Octets
<1>6. a % 256 = a /\ b % 256 = b /\ c % 256 = c
  BY DEF B!Octet
<1>. HIDE DEF d1, d2, d3, d4
<1>7. B!Octets(<<d1, d2, d3, d4>>) = <<a, b, c>>
  BY <1>2, <1>3, <1>4, <1>5, <1>6, ZenonT(30)
<1>. QED
  BY <1>7 DEF d1, d2, d3, d4, t

LEMMA PowersAre ==
  /\ B!PowersOfTwo[1] = 1 /\ B!PowersOfTwo[2] = 2 /\ B!PowersOfTwo[3] = 4
  /\ B!PowersOfTwo[4] = 8 /\ B!PowersOfTwo[5] = 16 /\ B!PowersOfTwo[6] = 32
  /\ B!PowersOfTwo[7] = 64 /\ B!PowersOfTwo[8] = 128
BY DEF B!PowersOfTwo

HalfOf(v, q) == (v \div q) % 2

\* The p-th bit of a character and of a byte.
Bit6(v, p) == HalfOf(v, B!PowersOfTwo[7 - p])

Bit8(v, p) == HalfOf(v, B!PowersOfTwo[9 - p])

LEMMA Bits6 ==
  ASSUME NEW v
  PROVE  /\ Bit6(v, 1) = HalfOf(v, 32) /\ Bit6(v, 2) = HalfOf(v, 16)
         /\ Bit6(v, 3) = HalfOf(v, 8) /\ Bit6(v, 4) = HalfOf(v, 4)
         /\ Bit6(v, 5) = HalfOf(v, 2) /\ Bit6(v, 6) = HalfOf(v, 1)
BY PowersAre DEF Bit6

LEMMA Bits8 ==
  ASSUME NEW v
  PROVE  /\ Bit8(v, 1) = HalfOf(v, 128) /\ Bit8(v, 2) = HalfOf(v, 64)
         /\ Bit8(v, 3) = HalfOf(v, 32) /\ Bit8(v, 4) = HalfOf(v, 16)
         /\ Bit8(v, 5) = HalfOf(v, 8) /\ Bit8(v, 6) = HalfOf(v, 4)
         /\ Bit8(v, 7) = HalfOf(v, 2) /\ Bit8(v, 8) = HalfOf(v, 1)
BY PowersAre DEF Bit8

LEMMA BitOf6 ==
  ASSUME NEW t, NEW k \in 1 .. 24
  PROVE  /\ k \in 1 .. 6 => B!Bit(t, 6, k) = Bit6(t[1], k)
         /\ k \in 7 .. 12 => B!Bit(t, 6, k) = Bit6(t[2], k - 6)
         /\ k \in 13 .. 18 => B!Bit(t, 6, k) = Bit6(t[3], k - 12)
         /\ k \in 19 .. 24 => B!Bit(t, 6, k) = Bit6(t[4], k - 18)
<1>1. ASSUME k \in 1 .. 6 PROVE B!Bit(t, 6, k) = Bit6(t[1], k)
  <2>1. (k - 1) \div 6 + 1 = 1 /\ 6 - ((k - 1) % 6) = 7 - k
    BY <1>1
  <2>. QED
    BY <2>1 DEF B!Bit, Bit6, HalfOf
<1>2. ASSUME k \in 7 .. 12 PROVE B!Bit(t, 6, k) = Bit6(t[2], k - 6)
  <2>1. (k - 1) \div 6 + 1 = 2 /\ 6 - ((k - 1) % 6) = 7 - (k - 6)
    BY <1>2
  <2>. QED
    BY <2>1 DEF B!Bit, Bit6, HalfOf
<1>3. ASSUME k \in 13 .. 18 PROVE B!Bit(t, 6, k) = Bit6(t[3], k - 12)
  <2>1. (k - 1) \div 6 + 1 = 3 /\ 6 - ((k - 1) % 6) = 7 - (k - 12)
    BY <1>3
  <2>. QED
    BY <2>1 DEF B!Bit, Bit6, HalfOf
<1>4. ASSUME k \in 19 .. 24 PROVE B!Bit(t, 6, k) = Bit6(t[4], k - 18)
  <2>1. (k - 1) \div 6 + 1 = 4 /\ 6 - ((k - 1) % 6) = 7 - (k - 18)
    BY <1>4
  <2>. QED
    BY <2>1 DEF B!Bit, Bit6, HalfOf
<1>. QED
  BY <1>1, <1>2, <1>3, <1>4

LEMMA BitOf8 ==
  ASSUME NEW t, NEW k \in 1 .. 24
  PROVE  /\ k \in 1 .. 8 => B!Bit(t, 8, k) = Bit8(t[1], k)
         /\ k \in 9 .. 16 => B!Bit(t, 8, k) = Bit8(t[2], k - 8)
         /\ k \in 17 .. 24 => B!Bit(t, 8, k) = Bit8(t[3], k - 16)
<1>1. ASSUME k \in 1 .. 8 PROVE B!Bit(t, 8, k) = Bit8(t[1], k)
  <2>1. (k - 1) \div 8 + 1 = 1 /\ 8 - ((k - 1) % 8) = 9 - k
    BY <1>1
  <2>. QED
    BY <2>1 DEF B!Bit, Bit8, HalfOf
<1>2. ASSUME k \in 9 .. 16 PROVE B!Bit(t, 8, k) = Bit8(t[2], k - 8)
  <2>1. (k - 1) \div 8 + 1 = 2 /\ 8 - ((k - 1) % 8) = 9 - (k - 8)
    BY <1>2
  <2>. QED
    BY <2>1 DEF B!Bit, Bit8, HalfOf
<1>3. ASSUME k \in 17 .. 24 PROVE B!Bit(t, 8, k) = Bit8(t[3], k - 16)
  <2>1. (k - 1) \div 8 + 1 = 3 /\ 8 - ((k - 1) % 8) = 9 - (k - 16)
    BY <1>3
  <2>. QED
    BY <2>1 DEF B!Bit, Bit8, HalfOf
<1>. QED
  BY <1>1, <1>2, <1>3

(* The bits of a byte that is put together from two numbers.                *)
LEMMA HighSix ==
  ASSUME NEW h \in 0 .. 63, NEW l \in 0 .. 3
  PROVE  /\ Bit8(h * 4 + l, 1) = Bit6(h, 1) /\ Bit8(h * 4 + l, 2) = Bit6(h, 2)
         /\ Bit8(h * 4 + l, 3) = Bit6(h, 3) /\ Bit8(h * 4 + l, 4) = Bit6(h, 4)
         /\ Bit8(h * 4 + l, 5) = Bit6(h, 5) /\ Bit8(h * 4 + l, 6) = Bit6(h, 6)
         /\ Bit8(h * 4 + l, 7) = Bit6(l, 5) /\ Bit8(h * 4 + l, 8) = Bit6(l, 6)
<1>. DEFINE v == h * 4 + l
<1>1. /\ HalfOf(v, 128) = HalfOf(h, 32) /\ HalfOf(v, 64) = HalfOf(h, 16)
      /\ HalfOf(v, 32) = HalfOf(h, 8) /\ HalfOf(v, 16) = HalfOf(h, 4)
      /\ HalfOf(v, 8) = HalfOf(h, 2) /\ HalfOf(v, 4) = HalfOf(h, 1)
      /\ HalfOf(v, 2) = HalfOf(l, 2) /\ HalfOf(v, 1) = HalfOf(l, 1)
  <2>1. v \in 0 .. 255 /\ v \div 4 = h /\ v % 4 = l
    OBVIOUS
  <2>. HIDE DEF v
  <2>2. /\ v \div 128 = (v \div 4) \div 32 /\ v \div 64 = (v \div 4) \div 16
        /\ v \div 32 = (v \div 4) \div 8 /\ v \div 16 = (v \div 4) \div 4
        /\ v \div 8 = (v \div 4) \div 2 /\ v \div 4 = (v \div 4) \div 1
        /\ (v \div 2) % 2 = ((v % 4) \div 2) % 2 /\ (v \div 1) % 2 = ((v % 4) \div 1) % 2
    BY <2>1
  <2>. QED
    BY <2>1, <2>2, Zenon DEF HalfOf
<1>. HIDE DEF v
<1>2. /\ Bit8(v, 1) = Bit6(h, 1) /\ Bit8(v, 2) = Bit6(h, 2)
      /\ Bit8(v, 3) = Bit6(h, 3) /\ Bit8(v, 4) = Bit6(h, 4)
      /\ Bit8(v, 5) = Bit6(h, 5) /\ Bit8(v, 6) = Bit6(h, 6)
      /\ Bit8(v, 7) = Bit6(l, 5) /\ Bit8(v, 8) = Bit6(l, 6)
  BY <1>1, Bits6, Bits8
<1>. QED
  BY <1>2, Zenon DEF v

LEMMA HighFour ==
  ASSUME NEW h \in 0 .. 15, NEW l \in 0 .. 15
  PROVE  /\ Bit8(h * 16 + l, 1) = Bit6(h, 3) /\ Bit8(h * 16 + l, 2) = Bit6(h, 4)
         /\ Bit8(h * 16 + l, 3) = Bit6(h, 5) /\ Bit8(h * 16 + l, 4) = Bit6(h, 6)
         /\ Bit8(h * 16 + l, 5) = Bit6(l, 3) /\ Bit8(h * 16 + l, 6) = Bit6(l, 4)
         /\ Bit8(h * 16 + l, 7) = Bit6(l, 5) /\ Bit8(h * 16 + l, 8) = Bit6(l, 6)
<1>. DEFINE v == h * 16 + l
<1>1. /\ HalfOf(v, 128) = HalfOf(h, 8) /\ HalfOf(v, 64) = HalfOf(h, 4)
      /\ HalfOf(v, 32) = HalfOf(h, 2) /\ HalfOf(v, 16) = HalfOf(h, 1)
      /\ HalfOf(v, 8) = HalfOf(l, 8) /\ HalfOf(v, 4) = HalfOf(l, 4)
      /\ HalfOf(v, 2) = HalfOf(l, 2) /\ HalfOf(v, 1) = HalfOf(l, 1)
  BY SMTT(30) DEF HalfOf
<1>. HIDE DEF v
<1>2. /\ Bit8(v, 1) = Bit6(h, 3) /\ Bit8(v, 2) = Bit6(h, 4)
      /\ Bit8(v, 3) = Bit6(h, 5) /\ Bit8(v, 4) = Bit6(h, 6)
      /\ Bit8(v, 5) = Bit6(l, 3) /\ Bit8(v, 6) = Bit6(l, 4)
      /\ Bit8(v, 7) = Bit6(l, 5) /\ Bit8(v, 8) = Bit6(l, 6)
  BY <1>1, Bits6, Bits8
<1>. QED
  BY <1>2, Zenon DEF v

LEMMA HighTwo ==
  ASSUME NEW h \in 0 .. 3, NEW l \in 0 .. 63
  PROVE  /\ Bit8(h * 64 + l, 1) = Bit6(h, 5) /\ Bit8(h * 64 + l, 2) = Bit6(h, 6)
         /\ Bit8(h * 64 + l, 3) = Bit6(l, 1) /\ Bit8(h * 64 + l, 4) = Bit6(l, 2)
         /\ Bit8(h * 64 + l, 5) = Bit6(l, 3) /\ Bit8(h * 64 + l, 6) = Bit6(l, 4)
         /\ Bit8(h * 64 + l, 7) = Bit6(l, 5) /\ Bit8(h * 64 + l, 8) = Bit6(l, 6)
<1>. DEFINE v == h * 64 + l
<1>1. /\ HalfOf(v, 128) = HalfOf(h, 2) /\ HalfOf(v, 64) = HalfOf(h, 1)
      /\ HalfOf(v, 32) = HalfOf(l, 32) /\ HalfOf(v, 16) = HalfOf(l, 16)
      /\ HalfOf(v, 8) = HalfOf(l, 8) /\ HalfOf(v, 4) = HalfOf(l, 4)
      /\ HalfOf(v, 2) = HalfOf(l, 2) /\ HalfOf(v, 1) = HalfOf(l, 1)
  BY DEF HalfOf
<1>. HIDE DEF v
<1>2. /\ Bit8(v, 1) = Bit6(h, 5) /\ Bit8(v, 2) = Bit6(h, 6)
      /\ Bit8(v, 3) = Bit6(l, 1) /\ Bit8(v, 4) = Bit6(l, 2)
      /\ Bit8(v, 5) = Bit6(l, 3) /\ Bit8(v, 6) = Bit6(l, 4)
      /\ Bit8(v, 7) = Bit6(l, 5) /\ Bit8(v, 8) = Bit6(l, 6)
  BY <1>1, Bits6, Bits8
<1>. QED
  BY <1>2, Zenon DEF v

(* The bits of the parts of a character.                                    *)
LEMMA Parts ==
  ASSUME NEW d \in B!Digit
  PROVE  /\ Bit6(d \div 16, 5) = Bit6(d, 1) /\ Bit6(d \div 16, 6) = Bit6(d, 2)
         /\ Bit6(d % 16, 3) = Bit6(d, 3) /\ Bit6(d % 16, 4) = Bit6(d, 4)
         /\ Bit6(d % 16, 5) = Bit6(d, 5) /\ Bit6(d % 16, 6) = Bit6(d, 6)
         /\ Bit6(d \div 4, 3) = Bit6(d, 1) /\ Bit6(d \div 4, 4) = Bit6(d, 2)
         /\ Bit6(d \div 4, 5) = Bit6(d, 3) /\ Bit6(d \div 4, 6) = Bit6(d, 4)
         /\ Bit6(d % 4, 5) = Bit6(d, 5) /\ Bit6(d % 4, 6) = Bit6(d, 6)
<1>1. /\ HalfOf(d \div 16, 2) = HalfOf(d, 32) /\ HalfOf(d \div 16, 1) = HalfOf(d, 16)
      /\ HalfOf(d % 16, 8) = HalfOf(d, 8) /\ HalfOf(d % 16, 4) = HalfOf(d, 4)
      /\ HalfOf(d % 16, 2) = HalfOf(d, 2) /\ HalfOf(d % 16, 1) = HalfOf(d, 1)
      /\ HalfOf(d \div 4, 8) = HalfOf(d, 32) /\ HalfOf(d \div 4, 4) = HalfOf(d, 16)
      /\ HalfOf(d \div 4, 2) = HalfOf(d, 8) /\ HalfOf(d \div 4, 1) = HalfOf(d, 4)
      /\ HalfOf(d % 4, 2) = HalfOf(d, 2) /\ HalfOf(d % 4, 1) = HalfOf(d, 1)
  BY SMTT(30) DEF HalfOf, B!Digit
<1>. QED
  BY <1>1, Bits6, Bits8

(* The bits of each of the Octets and of the Sextets.                       *)
LEMMA FirstOctet ==
  ASSUME NEW a \in B!Digit, NEW b \in B!Digit
  PROVE  LET v == a * 4 + b \div 16 IN
         /\ \A p \in 1 .. 6 : Bit8(v, p) = Bit6(a, p)
         /\ \A p \in 7 .. 8 : Bit8(v, p) = Bit6(b, p - 6)
<1>. DEFINE v == a * 4 + b \div 16
<1>1. a \in 0 .. 63 /\ b \div 16 \in 0 .. 3
  BY DEF B!Digit
<1>2. /\ Bit8(v, 1) = Bit6(a, 1) /\ Bit8(v, 2) = Bit6(a, 2)
      /\ Bit8(v, 3) = Bit6(a, 3) /\ Bit8(v, 4) = Bit6(a, 4)
      /\ Bit8(v, 5) = Bit6(a, 5) /\ Bit8(v, 6) = Bit6(a, 6)
      /\ Bit8(v, 7) = Bit6(b, 1) /\ Bit8(v, 8) = Bit6(b, 2)
  BY <1>1, HighSix, Parts
<1>. HIDE DEF v
<1>3. /\ \A p \in 1 .. 6 : Bit8(v, p) = Bit6(a, p)
      /\ \A p \in 7 .. 8 : Bit8(v, p) = Bit6(b, p - 6)
  BY <1>2
<1>. QED
  BY <1>3, Zenon DEF v

LEMMA SecondOctet ==
  ASSUME NEW b \in B!Digit, NEW c \in B!Digit
  PROVE  LET v == (b % 16) * 16 + c \div 4 IN
         /\ \A p \in 1 .. 4 : Bit8(v, p) = Bit6(b, p + 2)
         /\ \A p \in 5 .. 8 : Bit8(v, p) = Bit6(c, p - 4)
<1>. DEFINE v == (b % 16) * 16 + c \div 4
<1>1. b % 16 \in 0 .. 15 /\ c \div 4 \in 0 .. 15
  BY DEF B!Digit
<1>2. /\ Bit8(v, 1) = Bit6(b, 3) /\ Bit8(v, 2) = Bit6(b, 4)
      /\ Bit8(v, 3) = Bit6(b, 5) /\ Bit8(v, 4) = Bit6(b, 6)
      /\ Bit8(v, 5) = Bit6(c, 1) /\ Bit8(v, 6) = Bit6(c, 2)
      /\ Bit8(v, 7) = Bit6(c, 3) /\ Bit8(v, 8) = Bit6(c, 4)
  BY <1>1, HighFour, Parts
<1>. HIDE DEF v
<1>3. /\ \A p \in 1 .. 4 : Bit8(v, p) = Bit6(b, p + 2)
      /\ \A p \in 5 .. 8 : Bit8(v, p) = Bit6(c, p - 4)
  BY <1>2
<1>. QED
  BY <1>3, Zenon DEF v

LEMMA ThirdOctet ==
  ASSUME NEW c \in B!Digit, NEW d \in B!Digit
  PROVE  LET v == (c % 4) * 64 + d IN
         /\ \A p \in 1 .. 2 : Bit8(v, p) = Bit6(c, p + 4)
         /\ \A p \in 3 .. 8 : Bit8(v, p) = Bit6(d, p - 2)
<1>. DEFINE v == (c % 4) * 64 + d
<1>1. c % 4 \in 0 .. 3 /\ d \in 0 .. 63
  BY DEF B!Digit
<1>2. /\ Bit8(v, 1) = Bit6(c, 5) /\ Bit8(v, 2) = Bit6(c, 6)
      /\ Bit8(v, 3) = Bit6(d, 1) /\ Bit8(v, 4) = Bit6(d, 2)
      /\ Bit8(v, 5) = Bit6(d, 3) /\ Bit8(v, 6) = Bit6(d, 4)
      /\ Bit8(v, 7) = Bit6(d, 5) /\ Bit8(v, 8) = Bit6(d, 6)
  BY <1>1, HighTwo, Parts
<1>. HIDE DEF v
<1>3. /\ \A p \in 1 .. 2 : Bit8(v, p) = Bit6(c, p + 4)
      /\ \A p \in 3 .. 8 : Bit8(v, p) = Bit6(d, p - 2)
  BY <1>2
<1>. QED
  BY <1>3, Zenon DEF v

LEMMA FirstSextet ==
  ASSUME NEW a \in B!Octet
  PROVE  LET v == a \div 4 IN
         /\ \A p \in 1 .. 6 : Bit6(v, p) = Bit8(a, p)
<1>. DEFINE v == a \div 4
<1>1. /\ HalfOf(v, 32) = HalfOf(a, 128) /\ HalfOf(v, 16) = HalfOf(a, 64)
      /\ HalfOf(v, 8) = HalfOf(a, 32) /\ HalfOf(v, 4) = HalfOf(a, 16)
      /\ HalfOf(v, 2) = HalfOf(a, 8) /\ HalfOf(v, 1) = HalfOf(a, 4)
  BY SMTT(30) DEF HalfOf, B!Octet
<1>. HIDE DEF v
<1>2. /\ Bit6(v, 1) = Bit8(a, 1) /\ Bit6(v, 2) = Bit8(a, 2)
      /\ Bit6(v, 3) = Bit8(a, 3) /\ Bit6(v, 4) = Bit8(a, 4)
      /\ Bit6(v, 5) = Bit8(a, 5) /\ Bit6(v, 6) = Bit8(a, 6)
  BY <1>1, Bits6, Bits8
<1>3. /\ \A p \in 1 .. 6 : Bit6(v, p) = Bit8(a, p)
  BY <1>2
<1>. QED
  BY <1>3, Zenon DEF v

LEMMA SecondSextet ==
  ASSUME NEW a \in B!Octet, NEW b \in B!Octet
  PROVE  LET v == (a % 4) * 16 + b \div 16 IN
         /\ \A p \in 1 .. 2 : Bit6(v, p) = Bit8(a, p + 6)
         /\ \A p \in 3 .. 6 : Bit6(v, p) = Bit8(b, p - 2)
<1>. DEFINE v == (a % 4) * 16 + b \div 16
<1>1. /\ HalfOf(v, 32) = HalfOf(a, 2) /\ HalfOf(v, 16) = HalfOf(a, 1)
      /\ HalfOf(v, 8) = HalfOf(b, 128) /\ HalfOf(v, 4) = HalfOf(b, 64)
      /\ HalfOf(v, 2) = HalfOf(b, 32) /\ HalfOf(v, 1) = HalfOf(b, 16)
  <2>. DEFINE h == a % 4
              l == b \div 16
  <2>1. /\ h \in 0 .. 3 /\ l \in 0 .. 15
        /\ HalfOf(h, 2) = HalfOf(a, 2) /\ HalfOf(h, 1) = HalfOf(a, 1)
        /\ HalfOf(l, 8) = HalfOf(b, 128) /\ HalfOf(l, 4) = HalfOf(b, 64)
        /\ HalfOf(l, 2) = HalfOf(b, 32) /\ HalfOf(l, 1) = HalfOf(b, 16)
    BY SMTT(30) DEF HalfOf, B!Octet
  <2>. HIDE DEF h, l
  <2>2. /\ HalfOf(h * 16 + l, 32) = HalfOf(h, 2) /\ HalfOf(h * 16 + l, 16) = HalfOf(h, 1)
        /\ HalfOf(h * 16 + l, 8) = HalfOf(l, 8) /\ HalfOf(h * 16 + l, 4) = HalfOf(l, 4)
        /\ HalfOf(h * 16 + l, 2) = HalfOf(l, 2) /\ HalfOf(h * 16 + l, 1) = HalfOf(l, 1)
    BY <2>1 DEF HalfOf
  <2>3. v = h * 16 + l
    BY DEF h, l
  <2>. HIDE DEF v
  <2>. QED
    BY <2>1, <2>2, <2>3, ZenonT(30)
<1>. HIDE DEF v
<1>2. /\ Bit6(v, 1) = Bit8(a, 7) /\ Bit6(v, 2) = Bit8(a, 8)
      /\ Bit6(v, 3) = Bit8(b, 1) /\ Bit6(v, 4) = Bit8(b, 2)
      /\ Bit6(v, 5) = Bit8(b, 3) /\ Bit6(v, 6) = Bit8(b, 4)
  BY <1>1, Bits6, Bits8
<1>3. /\ \A p \in 1 .. 2 : Bit6(v, p) = Bit8(a, p + 6)
      /\ \A p \in 3 .. 6 : Bit6(v, p) = Bit8(b, p - 2)
  BY <1>2
<1>. QED
  BY <1>3, Zenon DEF v

LEMMA ThirdSextet ==
  ASSUME NEW b \in B!Octet, NEW c \in B!Octet
  PROVE  LET v == (b % 16) * 4 + c \div 64 IN
         /\ \A p \in 1 .. 4 : Bit6(v, p) = Bit8(b, p + 4)
         /\ \A p \in 5 .. 6 : Bit6(v, p) = Bit8(c, p - 4)
<1>. DEFINE v == (b % 16) * 4 + c \div 64
<1>1. /\ HalfOf(v, 32) = HalfOf(b, 8) /\ HalfOf(v, 16) = HalfOf(b, 4)
      /\ HalfOf(v, 8) = HalfOf(b, 2) /\ HalfOf(v, 4) = HalfOf(b, 1)
      /\ HalfOf(v, 2) = HalfOf(c, 128) /\ HalfOf(v, 1) = HalfOf(c, 64)
  <2>. DEFINE h == b % 16
              l == c \div 64
  <2>1. /\ h \in 0 .. 15 /\ l \in 0 .. 3
        /\ HalfOf(h, 8) = HalfOf(b, 8) /\ HalfOf(h, 4) = HalfOf(b, 4)
        /\ HalfOf(h, 2) = HalfOf(b, 2) /\ HalfOf(h, 1) = HalfOf(b, 1)
        /\ HalfOf(l, 2) = HalfOf(c, 128) /\ HalfOf(l, 1) = HalfOf(c, 64)
    BY DEF HalfOf, B!Octet
  <2>. HIDE DEF h, l
  <2>2. /\ HalfOf(h * 4 + l, 32) = HalfOf(h, 8) /\ HalfOf(h * 4 + l, 16) = HalfOf(h, 4)
        /\ HalfOf(h * 4 + l, 8) = HalfOf(h, 2) /\ HalfOf(h * 4 + l, 4) = HalfOf(h, 1)
        /\ HalfOf(h * 4 + l, 2) = HalfOf(l, 2) /\ HalfOf(h * 4 + l, 1) = HalfOf(l, 1)
    BY <2>1 DEF HalfOf
  <2>3. v = h * 4 + l
    BY DEF h, l
  <2>. HIDE DEF v
  <2>. QED
    BY <2>1, <2>2, <2>3, ZenonT(30)
<1>. HIDE DEF v
<1>2. /\ Bit6(v, 1) = Bit8(b, 5) /\ Bit6(v, 2) = Bit8(b, 6)
      /\ Bit6(v, 3) = Bit8(b, 7) /\ Bit6(v, 4) = Bit8(b, 8)
      /\ Bit6(v, 5) = Bit8(c, 1) /\ Bit6(v, 6) = Bit8(c, 2)
  BY <1>1, Bits6, Bits8
<1>3. /\ \A p \in 1 .. 4 : Bit6(v, p) = Bit8(b, p + 4)
      /\ \A p \in 5 .. 6 : Bit6(v, p) = Bit8(c, p - 4)
  BY <1>2
<1>. QED
  BY <1>3, Zenon DEF v

LEMMA FourthSextet ==
  ASSUME NEW c \in B!Octet
  PROVE  LET v == c % 64 IN
         /\ \A p \in 1 .. 6 : Bit6(v, p) = Bit8(c, p + 2)
<1>. DEFINE v == c % 64
<1>1. /\ HalfOf(v, 32) = HalfOf(c, 32) /\ HalfOf(v, 16) = HalfOf(c, 16)
      /\ HalfOf(v, 8) = HalfOf(c, 8) /\ HalfOf(v, 4) = HalfOf(c, 4)
      /\ HalfOf(v, 2) = HalfOf(c, 2) /\ HalfOf(v, 1) = HalfOf(c, 1)
  BY DEF HalfOf, B!Octet
<1>. HIDE DEF v
<1>2. /\ Bit6(v, 1) = Bit8(c, 3) /\ Bit6(v, 2) = Bit8(c, 4)
      /\ Bit6(v, 3) = Bit8(c, 5) /\ Bit6(v, 4) = Bit8(c, 6)
      /\ Bit6(v, 5) = Bit8(c, 7) /\ Bit6(v, 6) = Bit8(c, 8)
  BY <1>1, Bits6, Bits8
<1>3. /\ \A p \in 1 .. 6 : Bit6(v, p) = Bit8(c, p + 2)
  BY <1>2
<1>. QED
  BY <1>3, Zenon DEF v

(* A regrouping keeps the bits.                                             *)
LEMMA SextetBits ==
  ASSUME NEW a \in B!Octet, NEW b \in B!Octet, NEW c \in B!Octet,
         NEW k \in 1 .. 24
  PROVE  B!Bit(B!Sextets(<<a, b, c>>), 6, k) = B!Bit(<<a, b, c>>, 8, k)
<1>. DEFINE t == B!Sextets(<<a, b, c>>)
            u == <<a, b, c>>
<1>1. /\ t[1] = a \div 4 /\ t[2] = (a % 4) * 16 + b \div 16
      /\ t[3] = (b % 16) * 4 + c \div 64 /\ t[4] = c % 64
  BY SextetsAre
<1>2. /\ u[1] = a /\ u[2] = b /\ u[3] = c
  OBVIOUS
<1>. HIDE DEF t, u
<1>3. /\ \A p \in 1 .. 6 : Bit6(t[1], p) = Bit8(a, p)
      /\ \A p \in 1 .. 2 : Bit6(t[2], p) = Bit8(a, p + 6)
      /\ \A p \in 3 .. 6 : Bit6(t[2], p) = Bit8(b, p - 2)
      /\ \A p \in 1 .. 4 : Bit6(t[3], p) = Bit8(b, p + 4)
      /\ \A p \in 5 .. 6 : Bit6(t[3], p) = Bit8(c, p - 4)
      /\ \A p \in 1 .. 6 : Bit6(t[4], p) = Bit8(c, p + 2)
  <2>1. /\ \A p \in 1 .. 6 : Bit6(a \div 4, p) = Bit8(a, p)
    BY FirstSextet
  <2>2. /\ \A p \in 1 .. 2 : Bit6((a % 4) * 16 + b \div 16, p) = Bit8(a, p + 6)
        /\ \A p \in 3 .. 6 : Bit6((a % 4) * 16 + b \div 16, p) = Bit8(b, p - 2)
    BY SecondSextet
  <2>3. /\ \A p \in 1 .. 4 : Bit6((b % 16) * 4 + c \div 64, p) = Bit8(b, p + 4)
        /\ \A p \in 5 .. 6 : Bit6((b % 16) * 4 + c \div 64, p) = Bit8(c, p - 4)
    BY ThirdSextet
  <2>4. /\ \A p \in 1 .. 6 : Bit6(c % 64, p) = Bit8(c, p + 2)
    BY FourthSextet
  <2>. QED
    BY <1>1, <2>1, <2>2, <2>3, <2>4, ZenonT(30)
<1>4. CASE k \in 1 .. 6
  <2>1. B!Bit(t, 6, k) = Bit6(t[1], k)
    BY <1>4, BitOf6
  <2>2. B!Bit(u, 8, k) = Bit8(a, k)
    BY <1>2, <1>4, BitOf8
  <2>3. Bit6(t[1], k) = Bit8(a, k)
    BY <1>3, <1>4
  <2>. QED
    BY <2>1, <2>2, <2>3, Zenon DEF t, u
<1>5. CASE k \in 7 .. 8
  <2>1. B!Bit(t, 6, k) = Bit6(t[2], k - 6)
    BY <1>5, BitOf6
  <2>2. B!Bit(u, 8, k) = Bit8(a, k)
    BY <1>2, <1>5, BitOf8
  <2>3. Bit6(t[2], k - 6) = Bit8(a, k)
    BY <1>3, <1>5
  <2>. QED
    BY <2>1, <2>2, <2>3, Zenon DEF t, u
<1>6. CASE k \in 9 .. 12
  <2>1. B!Bit(t, 6, k) = Bit6(t[2], k - 6)
    BY <1>6, BitOf6
  <2>2. B!Bit(u, 8, k) = Bit8(b, k - 8)
    BY <1>2, <1>6, BitOf8
  <2>3. Bit6(t[2], k - 6) = Bit8(b, k - 8)
    BY <1>3, <1>6
  <2>. QED
    BY <2>1, <2>2, <2>3, Zenon DEF t, u
<1>7. CASE k \in 13 .. 16
  <2>1. B!Bit(t, 6, k) = Bit6(t[3], k - 12)
    BY <1>7, BitOf6
  <2>2. B!Bit(u, 8, k) = Bit8(b, k - 8)
    BY <1>2, <1>7, BitOf8
  <2>3. Bit6(t[3], k - 12) = Bit8(b, k - 8)
    BY <1>3, <1>7
  <2>. QED
    BY <2>1, <2>2, <2>3, Zenon DEF t, u
<1>8. CASE k \in 17 .. 18
  <2>1. B!Bit(t, 6, k) = Bit6(t[3], k - 12)
    BY <1>8, BitOf6
  <2>2. B!Bit(u, 8, k) = Bit8(c, k - 16)
    BY <1>2, <1>8, BitOf8
  <2>3. Bit6(t[3], k - 12) = Bit8(c, k - 16)
    BY <1>3, <1>8
  <2>. QED
    BY <2>1, <2>2, <2>3, Zenon DEF t, u
<1>9. CASE k \in 19 .. 24
  <2>1. B!Bit(t, 6, k) = Bit6(t[4], k - 18)
    BY <1>9, BitOf6
  <2>2. B!Bit(u, 8, k) = Bit8(c, k - 16)
    BY <1>2, <1>9, BitOf8
  <2>3. Bit6(t[4], k - 18) = Bit8(c, k - 16)
    BY <1>3, <1>9
  <2>. QED
    BY <2>1, <2>2, <2>3, Zenon DEF t, u
<1>. QED
  BY <1>4, <1>5, <1>6, <1>7, <1>8, <1>9

LEMMA OctetBits ==
  ASSUME NEW a \in B!Digit, NEW b \in B!Digit, NEW c \in B!Digit, NEW d \in B!Digit,
         NEW k \in 1 .. 24
  PROVE  B!Bit(B!Octets(<<a, b, c, d>>), 8, k) = B!Bit(<<a, b, c, d>>, 6, k)
<1>. DEFINE t == B!Octets(<<a, b, c, d>>)
            u == <<a, b, c, d>>
<1>1. /\ t[1] = a * 4 + b \div 16 /\ t[2] = (b % 16) * 16 + c \div 4
      /\ t[3] = (c % 4) * 64 + d
  BY OctetsAre
<1>2. /\ u[1] = a /\ u[2] = b /\ u[3] = c /\ u[4] = d
  OBVIOUS
<1>. HIDE DEF t, u
<1>3. /\ \A p \in 1 .. 6 : Bit8(t[1], p) = Bit6(a, p)
      /\ \A p \in 7 .. 8 : Bit8(t[1], p) = Bit6(b, p - 6)
      /\ \A p \in 1 .. 4 : Bit8(t[2], p) = Bit6(b, p + 2)
      /\ \A p \in 5 .. 8 : Bit8(t[2], p) = Bit6(c, p - 4)
      /\ \A p \in 1 .. 2 : Bit8(t[3], p) = Bit6(c, p + 4)
      /\ \A p \in 3 .. 8 : Bit8(t[3], p) = Bit6(d, p - 2)
  <2>1. /\ \A p \in 1 .. 6 : Bit8(a * 4 + b \div 16, p) = Bit6(a, p)
        /\ \A p \in 7 .. 8 : Bit8(a * 4 + b \div 16, p) = Bit6(b, p - 6)
    BY FirstOctet
  <2>2. /\ \A p \in 1 .. 4 : Bit8((b % 16) * 16 + c \div 4, p) = Bit6(b, p + 2)
        /\ \A p \in 5 .. 8 : Bit8((b % 16) * 16 + c \div 4, p) = Bit6(c, p - 4)
    BY SecondOctet
  <2>3. /\ \A p \in 1 .. 2 : Bit8((c % 4) * 64 + d, p) = Bit6(c, p + 4)
        /\ \A p \in 3 .. 8 : Bit8((c % 4) * 64 + d, p) = Bit6(d, p - 2)
    BY ThirdOctet
  <2>. QED
    BY <1>1, <2>1, <2>2, <2>3, ZenonT(30)
<1>4. CASE k \in 1 .. 6
  <2>1. B!Bit(t, 8, k) = Bit8(t[1], k)
    BY <1>4, BitOf8
  <2>2. B!Bit(u, 6, k) = Bit6(a, k)
    BY <1>2, <1>4, BitOf6
  <2>3. Bit8(t[1], k) = Bit6(a, k)
    BY <1>3, <1>4
  <2>. QED
    BY <2>1, <2>2, <2>3, Zenon DEF t, u
<1>5. CASE k \in 7 .. 8
  <2>1. B!Bit(t, 8, k) = Bit8(t[1], k)
    BY <1>5, BitOf8
  <2>2. B!Bit(u, 6, k) = Bit6(b, k - 6)
    BY <1>2, <1>5, BitOf6
  <2>3. Bit8(t[1], k) = Bit6(b, k - 6)
    BY <1>3, <1>5
  <2>. QED
    BY <2>1, <2>2, <2>3, Zenon DEF t, u
<1>6. CASE k \in 9 .. 12
  <2>1. B!Bit(t, 8, k) = Bit8(t[2], k - 8)
    BY <1>6, BitOf8
  <2>2. B!Bit(u, 6, k) = Bit6(b, k - 6)
    BY <1>2, <1>6, BitOf6
  <2>3. Bit8(t[2], k - 8) = Bit6(b, k - 6)
    BY <1>3, <1>6
  <2>. QED
    BY <2>1, <2>2, <2>3, Zenon DEF t, u
<1>7. CASE k \in 13 .. 16
  <2>1. B!Bit(t, 8, k) = Bit8(t[2], k - 8)
    BY <1>7, BitOf8
  <2>2. B!Bit(u, 6, k) = Bit6(c, k - 12)
    BY <1>2, <1>7, BitOf6
  <2>3. Bit8(t[2], k - 8) = Bit6(c, k - 12)
    BY <1>3, <1>7
  <2>. QED
    BY <2>1, <2>2, <2>3, Zenon DEF t, u
<1>8. CASE k \in 17 .. 18
  <2>1. B!Bit(t, 8, k) = Bit8(t[3], k - 16)
    BY <1>8, BitOf8
  <2>2. B!Bit(u, 6, k) = Bit6(c, k - 12)
    BY <1>2, <1>8, BitOf6
  <2>3. Bit8(t[3], k - 16) = Bit6(c, k - 12)
    BY <1>3, <1>8
  <2>. QED
    BY <2>1, <2>2, <2>3, Zenon DEF t, u
<1>9. CASE k \in 19 .. 24
  <2>1. B!Bit(t, 8, k) = Bit8(t[3], k - 16)
    BY <1>9, BitOf8
  <2>2. B!Bit(u, 6, k) = Bit6(d, k - 18)
    BY <1>2, <1>9, BitOf6
  <2>3. Bit8(t[3], k - 16) = Bit6(d, k - 18)
    BY <1>3, <1>9
  <2>. QED
    BY <2>1, <2>2, <2>3, Zenon DEF t, u
<1>. QED
  BY <1>4, <1>5, <1>6, <1>7, <1>8, <1>9

(* A bit of a sequence is a bit of the group of 24 that it lies in.         *)
SameBit6(s, t, h, b) == B!Bit(s, 6, 24 * h + b) = B!Bit(t, 6, b)

SameBit8(s, t, h, b) == B!Bit(s, 8, 24 * h + b) = B!Bit(t, 8, b)

LEMMA BitIn6 ==
  ASSUME NEW s, NEW t, NEW h \in Nat, NEW b \in Nat, NEW m \in Nat,
         b <= 24, 6 * m - 6 < b, b <= 6 * m, s[4 * h + m] = t[m]
  PROVE  SameBit6(s, t, h, b)
<1>1. /\ (24 * h + b - 1) \div 6 + 1 = 4 * h + m /\ (b - 1) \div 6 + 1 = m
      /\ (24 * h + b - 1) % 6 = (b - 1) % 6
  OBVIOUS
<1>2. /\ B!Bit(s, 6, 24 * h + b)
           = HalfOf(s[(24 * h + b - 1) \div 6 + 1],
                    B!PowersOfTwo[6 - ((24 * h + b - 1) % 6)])
      /\ B!Bit(t, 6, b)
           = HalfOf(t[(b - 1) \div 6 + 1], B!PowersOfTwo[6 - ((b - 1) % 6)])
  BY DEF B!Bit, HalfOf
<1>. QED
  BY <1>1, <1>2, Zenon DEF SameBit6

LEMMA BitIn8 ==
  ASSUME NEW s, NEW t, NEW h \in Nat, NEW b \in Nat, NEW m \in Nat,
         b <= 24, 8 * m - 8 < b, b <= 8 * m, s[3 * h + m] = t[m]
  PROVE  SameBit8(s, t, h, b)
<1>1. /\ (24 * h + b - 1) \div 8 + 1 = 3 * h + m /\ (b - 1) \div 8 + 1 = m
      /\ (24 * h + b - 1) % 8 = (b - 1) % 8
  OBVIOUS
<1>2. /\ B!Bit(s, 8, 24 * h + b)
           = HalfOf(s[(24 * h + b - 1) \div 8 + 1],
                    B!PowersOfTwo[8 - ((24 * h + b - 1) % 8)])
      /\ B!Bit(t, 8, b)
           = HalfOf(t[(b - 1) \div 8 + 1], B!PowersOfTwo[8 - ((b - 1) % 8)])
  BY DEF B!Bit, HalfOf
<1>. QED
  BY <1>1, <1>2, Zenon DEF SameBit8

LEMMA ZeroBits ==
  ASSUME NEW t, NEW k \in 1 .. 24, t[(k - 1) \div 8 + 1] = 0
  PROVE  B!Bit(t, 8, k) = 0
<1>1. 8 - ((k - 1) % 8) \in 1 .. 8
  OBVIOUS
<1>2. \A q \in 1 .. 8 : (0 \div B!PowersOfTwo[q]) % 2 = 0
  <2>1. \A q \in 1 .. 8 : B!PowersOfTwo[q] \in {1, 2, 4, 8, 16, 32, 64, 128}
    BY PowersAre
  <2>2. \A z \in {1, 2, 4, 8, 16, 32, 64, 128} : (0 \div z) % 2 = 0
    OBVIOUS
  <2>. QED
    BY <2>1, <2>2, ZenonT(30)
<1>. QED
  BY <1>1, <1>2, Zenon DEF B!Bit

-----------------------------------------------------------------------------
(* Base64: what has been encoded and decoded, group by group.               *)

\* s[k], and 0 in place of what comes after s[n].
At(s, n, k) == IF k <= n THEN s[k] ELSE 0

\* The h-th group of the bytes S, and of the first J characters of E.
Three(S, h) == <<At(S, Len(S), 3 * h + 1), At(S, Len(S), 3 * h + 2), At(S, Len(S), 3 * h + 3)>>

Four(E, J, h) == <<At(E, J, 4 * h + 1), At(E, J, 4 * h + 2),
                   At(E, J, 4 * h + 3), At(E, J, 4 * h + 4)>>

\* E is made of the groups of S up to the g-th, T is the rest of S[1 .. J].
EncodingAt(g, S, J, E, T) ==
  /\ Len(T) <= 2 /\ J = 3 * g + Len(T) /\ J <= Len(S)
  /\ \A m \in 1 .. Len(T) : T[m] = S[3 * g + m]
  /\ Len(E) = 4 * g
  /\ \A h \in 0 .. g - 1 : \A m \in 1 .. 4 : E[4 * h + m] = B!Sextets(Three(S, h))[m]

\* E is made of all of S: g groups, and r bytes after them.
EncodedAt(g, r, S, E) ==
  /\ Len(S) = 3 * g + r
  /\ Len(E) = IF r = 0 THEN 4 * g ELSE 4 * g + 4
  /\ \A h \in 0 .. g : \A m \in 1 .. 4 : 4 * h + m <= Len(E) =>
       E[4 * h + m] = IF 3 * h + m - 1 <= Len(S) THEN B!Sextets(Three(S, h))[m]
                      ELSE B!Pad

DecodingAt(g, E, J, D, T) ==
  /\ Len(T) <= 3 /\ J = 4 * g + Len(T) /\ J <= Len(E)
  /\ \A k \in 1 .. J : E[k] \in B!Digit
  /\ \A m \in 1 .. Len(T) : T[m] = E[4 * g + m]
  /\ Len(D) = 3 * g
  /\ \A h \in 0 .. g - 1 : \A m \in 1 .. 3 : D[3 * h + m] = B!Octets(Four(E, J, h))[m]

DecodedAt(g, E, J, D, T) ==
  /\ Len(T) <= 3 /\ J = 4 * g + Len(T) /\ J <= Len(E)
  /\ \A k \in 1 .. J : E[k] \in B!Digit
  /\ J = Len(E) \/ E[J + 1] \notin B!Digit
  /\ Len(D) = 3 * g + (IF Len(T) = 0 THEN 0 ELSE Len(T) - 1)
  /\ \A h \in 0 .. g : \A m \in 1 .. 3 : 3 * h + m <= Len(D) =>
       D[3 * h + m] = B!Octets(Four(E, J, h))[m]

LEMMA ThreeOctets ==
  ASSUME NEW S \in Seq(B!Octet), NEW h \in Nat
  PROVE  /\ \A m \in 1 .. 3 : Three(S, h)[m] = At(S, Len(S), 3 * h + m)
         /\ \A m \in 1 .. 3 : Three(S, h)[m] \in B!Octet
         /\ Three(S, h) = <<Three(S, h)[1], Three(S, h)[2], Three(S, h)[3]>>
<1>0. Len(S) \in Nat /\ (\A k \in 1 .. Len(S) : S[k] \in B!Octet)
  OBVIOUS
<1>1. \A k \in Nat \ {0} : At(S, Len(S), k) \in B!Octet
  <2>1. 0 \in B!Octet
    BY DEF B!Octet
  <2>. QED
    BY <1>0, <2>1 DEF At
<1>2. \A p, q, r : \A t : t = <<p, q, r>> =>
        t[1] = p /\ t[2] = q /\ t[3] = r /\ t = <<t[1], t[2], t[3]>>
  OBVIOUS
<1>3. /\ Three(S, h)[1] = At(S, Len(S), 3 * h + 1)
      /\ Three(S, h)[2] = At(S, Len(S), 3 * h + 2)
      /\ Three(S, h)[3] = At(S, Len(S), 3 * h + 3)
      /\ Three(S, h) = <<Three(S, h)[1], Three(S, h)[2], Three(S, h)[3]>>
  BY <1>2, Zenon DEF Three
<1>. QED
  BY <1>1, <1>3

LEMMA FourDigits ==
  ASSUME NEW E, NEW J \in Nat, NEW h \in Nat, \A k \in 1 .. J : E[k] \in B!Digit
  PROVE  /\ \A m \in 1 .. 4 : Four(E, J, h)[m] = At(E, J, 4 * h + m)
         /\ \A m \in 1 .. 4 : Four(E, J, h)[m] \in B!Digit
         /\ Four(E, J, h) = <<Four(E, J, h)[1], Four(E, J, h)[2],
                              Four(E, J, h)[3], Four(E, J, h)[4]>>
<1>1. \A k \in Nat \ {0} : At(E, J, k) \in B!Digit
  BY DEF At, B!Digit
<1>2. \A p, q, r, s : \A t : t = <<p, q, r, s>> =>
        /\ t[1] = p /\ t[2] = q /\ t[3] = r /\ t[4] = s
        /\ t = <<t[1], t[2], t[3], t[4]>>
  OBVIOUS
<1>3. /\ Four(E, J, h)[1] = At(E, J, 4 * h + 1)
      /\ Four(E, J, h)[2] = At(E, J, 4 * h + 2)
      /\ Four(E, J, h)[3] = At(E, J, 4 * h + 3)
      /\ Four(E, J, h)[4] = At(E, J, 4 * h + 4)
      /\ Four(E, J, h) = <<Four(E, J, h)[1], Four(E, J, h)[2],
                           Four(E, J, h)[3], Four(E, J, h)[4]>>
  BY <1>2, Zenon DEF Four
<1>. QED
  BY <1>1, <1>3

LEMMA ThreeSextets ==
  ASSUME NEW S \in Seq(B!Octet), NEW h \in Nat
  PROVE  LET t == B!Sextets(Three(S, h))
             u == Three(S, h) IN
         /\ t \in Seq(B!Digit) /\ Len(t) = 4
         /\ \A m \in 1 .. 4 : t[m] \in B!Digit
         /\ t[1] = u[1] \div 4 /\ t[2] = (u[1] % 4) * 16 + u[2] \div 16
         /\ t[3] = (u[2] % 16) * 4 + u[3] \div 64 /\ t[4] = u[3] % 64
         /\ B!Octets(<<t[1], t[2], t[3], t[4]>>) = u
         /\ \A k \in 1 .. 24 : B!Bit(t, 6, k) = B!Bit(u, 8, k)
<1>. DEFINE u == Three(S, h)
<1>1. /\ u[1] \in B!Octet /\ u[2] \in B!Octet /\ u[3] \in B!Octet
      /\ u = <<u[1], u[2], u[3]>>
  BY ThreeOctets
<1>. HIDE DEF u
<1>. DEFINE a == u[1]
            b == u[2]
            c == u[3]
<1>2. a \in B!Octet /\ b \in B!Octet /\ c \in B!Octet /\ u = <<a, b, c>>
  BY <1>1
<1>. HIDE DEF a, b, c
<1>3. LET t == B!Sextets(<<a, b, c>>) IN
         /\ t \in Seq(B!Digit) /\ Len(t) = 4
         /\ \A m \in 1 .. 4 : t[m] \in B!Digit
         /\ t[1] = a \div 4 /\ t[2] = (a % 4) * 16 + b \div 16
         /\ t[3] = (b % 16) * 4 + c \div 64 /\ t[4] = c % 64
  BY <1>2, SextetsAre
<1>4. LET t == B!Sextets(<<a, b, c>>) IN
         B!Octets(<<t[1], t[2], t[3], t[4]>>) = <<a, b, c>>
  BY <1>2, OctetsOfSextets
<1>5. \A k \in 1 .. 24 :
        B!Bit(B!Sextets(<<a, b, c>>), 6, k) = B!Bit(<<a, b, c>>, 8, k)
  BY <1>2, SextetBits
<1>. QED
  BY <1>2, <1>3, <1>4, <1>5, Zenon DEF a, b, c, u

LEMMA FourOctets ==
  ASSUME NEW E, NEW J \in Nat, NEW h \in Nat, \A k \in 1 .. J : E[k] \in B!Digit
  PROVE  LET t == B!Octets(Four(E, J, h))
             u == Four(E, J, h) IN
         /\ t \in Seq(B!Octet) /\ Len(t) = 3
         /\ \A m \in 1 .. 3 : t[m] \in B!Octet
         /\ \A k \in 1 .. 24 : B!Bit(t, 8, k) = B!Bit(u, 6, k)
<1>. DEFINE u == Four(E, J, h)
<1>1. /\ u[1] \in B!Digit /\ u[2] \in B!Digit /\ u[3] \in B!Digit /\ u[4] \in B!Digit
      /\ u = <<u[1], u[2], u[3], u[4]>>
  <2>1. /\ \A m \in 1 .. 4 : u[m] \in B!Digit
        /\ u = <<u[1], u[2], u[3], u[4]>>
    BY FourDigits, Zenon
  <2>2. 1 \in 1 .. 4 /\ 2 \in 1 .. 4 /\ 3 \in 1 .. 4 /\ 4 \in 1 .. 4
    OBVIOUS
  <2>. QED
    BY <2>1, <2>2, Zenon
<1>. HIDE DEF u
<1>. DEFINE a == u[1]
            b == u[2]
            c == u[3]
            d == u[4]
<1>2. /\ a \in B!Digit /\ b \in B!Digit /\ c \in B!Digit /\ d \in B!Digit
      /\ u = <<a, b, c, d>>
  BY <1>1
<1>. HIDE DEF a, b, c, d
<1>3. LET t == B!Octets(<<a, b, c, d>>) IN
         /\ t \in Seq(B!Octet) /\ Len(t) = 3
         /\ \A m \in 1 .. 3 : t[m] \in B!Octet
  BY <1>2, OctetsAre
<1>4. \A k \in 1 .. 24 :
        B!Bit(B!Octets(<<a, b, c, d>>), 8, k) = B!Bit(<<a, b, c, d>>, 6, k)
  BY <1>2, OctetBits
<1>. QED
  BY <1>2, <1>3, <1>4, Zenon DEF u

IsJoined(u, s, t) ==
  /\ Len(u) = Len(s) + Len(t)
  /\ \A k \in 1 .. Len(s) : u[k] = s[k]
  /\ \A k \in 1 .. Len(t) : u[Len(s) + k] = t[k]

LEMMA Joined ==
  ASSUME NEW A, NEW s \in Seq(A), NEW t \in Seq(A)
  PROVE  s \o t \in Seq(A) /\ IsJoined(s \o t, s, t)
BY DEF IsJoined

LEMMA Taken ==
  ASSUME NEW A, NEW s \in Seq(A), NEW n \in Nat, n <= Len(s)
  PROVE  /\ SubSeq(s, 1, n) \in Seq(A) /\ Len(SubSeq(s, 1, n)) = n
         /\ \A k \in 1 .. n : SubSeq(s, 1, n)[k] = s[k]
BY SubSeqProperties

LEMMA EncodingStarts ==
  ASSUME NEW S \in Seq(B!Octet)
  PROVE  EncodingAt(0, S, 0, << >>, << >>)
BY DEF EncodingAt

(* A byte is encoded.                                                       *)
LEMMA EncodingGoesOn ==
  ASSUME NEW g \in Nat, NEW S \in Seq(B!Octet), NEW J \in Nat, J < Len(S),
         NEW E \in Seq(B!Char), NEW T \in Seq(B!Octet), EncodingAt(g, S, J, E, T)
  PROVE  LET G == Append(T, S[J + 1]) IN
         /\ G \in Seq(B!Octet)
         /\ Len(G) # 3 => EncodingAt(g, S, J + 1, E, G)
         /\ Len(G) = 3 => /\ E \o B!Sextets(G) \in Seq(B!Char)
                          /\ EncodingAt(g + 1, S, J + 1, E \o B!Sextets(G), << >>)
<1>. DEFINE G == Append(T, S[J + 1])
            n == Len(T)
<1>0. n \in Nat /\ n <= 2 /\ J = 3 * g + n /\ J + 1 <= Len(S) /\ Len(E) = 4 * g
  BY DEF EncodingAt
<1>e. \A h \in 0 .. g - 1 : \A m \in 1 .. 4 :
         E[4 * h + m] = B!Sextets(Three(S, h))[m]
  BY DEF EncodingAt
<1>t. \A m \in 1 .. n : T[m] = S[3 * g + m]
  BY DEF EncodingAt
<1>1. /\ G \in Seq(B!Octet) /\ Len(G) = n + 1
      /\ G[n + 1] = S[J + 1] /\ \A m \in 1 .. n : G[m] = T[m]
  <2>1. S[J + 1] \in B!Octet
    OBVIOUS
  <2>. QED
    BY <2>1
<1>. HIDE DEF G, n
<1>2. \A m \in 1 .. n + 1 : G[m] = S[3 * g + m]
  BY <1>0, <1>1, <1>t
<1>3. CASE n # 2
  <2>1. Len(G) <= 2 /\ J + 1 = 3 * g + Len(G) /\ Len(G) # 3
    BY <1>0, <1>1, <1>3
  <2>2. \A m \in 1 .. Len(G) : G[m] = S[3 * g + m]
    BY <1>1, <1>2
  <2>3. EncodingAt(g, S, J + 1, E, G)
    BY <1>0, <1>e, <2>1, <2>2, Zenon DEF EncodingAt
  <2>. QED
    BY <1>1, <2>1, <2>3, Zenon DEF G
<1>4. CASE n = 2
  <2>. DEFINE X == B!Sextets(Three(S, g))
              E2 == E \o X
  <2>2. J + 1 = 3 * g + 3 /\ 3 * g + 3 <= Len(S)
    BY <1>0, <1>4
  <2>3. B!Sextets(G) = X
    <3>1. G[1] = S[3 * g + 1] /\ G[2] = S[3 * g + 2] /\ G[3] = S[3 * g + 3]
      BY <1>2, <1>4
    <3>2. /\ Three(S, g)[1] = At(S, Len(S), 3 * g + 1)
          /\ Three(S, g)[2] = At(S, Len(S), 3 * g + 2)
          /\ Three(S, g)[3] = At(S, Len(S), 3 * g + 3)
      BY ThreeOctets
    <3>3. /\ At(S, Len(S), 3 * g + 1) = S[3 * g + 1]
          /\ At(S, Len(S), 3 * g + 2) = S[3 * g + 2]
          /\ At(S, Len(S), 3 * g + 3) = S[3 * g + 3]
      BY <2>2 DEF At
    <3>. QED
      BY <3>1, <3>2, <3>3, Zenon DEF B!Sextets
  <2>4. X \in Seq(B!Char) /\ Len(X) = 4
    <3>1. X \in Seq(B!Digit) /\ Len(X) = 4
      BY ThreeSextets
    <3>2. B!Digit \subseteq B!Char
      BY DEF B!Char
    <3>. HIDE DEF X
    <3>. QED
      BY <3>1, <3>2
  <2>. HIDE DEF X
  <2>5. /\ E2 \in Seq(B!Char) /\ Len(E2) = Len(E) + 4
        /\ \A k \in 1 .. Len(E) : E2[k] = E[k]
        /\ \A k \in 1 .. 4 : E2[Len(E) + k] = X[k]
    <3>1. E2 \in Seq(B!Char) /\ IsJoined(E2, E, X)
      BY <2>4, Joined, Zenon
    <3>. QED
      BY <2>4, <3>1, Zenon DEF IsJoined
  <2>. HIDE DEF E2
  <2>6. ASSUME NEW h \in 0 .. g, NEW m \in 1 .. 4
        PROVE  E2[4 * h + m] = B!Sextets(Three(S, h))[m]
    <3>1. CASE h = g
      <4>1. E2[4 * g + m] = X[m]
        BY <1>0, <2>5
      <4>. QED
        BY <3>1, <4>1, Zenon DEF X
    <3>2. CASE h # g
      <4>1. h \in 0 .. g - 1 /\ 4 * h + m \in 1 .. 4 * g
        BY <3>2
      <4>2. E2[4 * h + m] = E[4 * h + m]
        BY <1>0, <2>5, <4>1
      <4>. QED
        BY <1>e, <4>1, <4>2, Zenon
    <3>. QED
      BY <3>1, <3>2
  <2>7. EncodingAt(g + 1, S, J + 1, E2, << >>)
    <3>1. (g + 1) - 1 = g /\ Len(E2) = 4 * (g + 1)
      BY <1>0, <2>5
    <3>2. \A h \in 0 .. (g + 1) - 1 : \A m \in 1 .. 4 :
             E2[4 * h + m] = B!Sextets(Three(S, h))[m]
      BY <2>6, <3>1, Zenon
    <3>3. J + 1 = 3 * (g + 1) /\ J + 1 <= Len(S)
      BY <2>2
    <3>. QED
      BY <3>1, <3>2, <3>3 DEF EncodingAt
  <2>8. Len(G) = 3
    BY <1>1, <1>4
  <2>. QED
    BY <1>1, <2>3, <2>5, <2>7, <2>8, Zenon DEF E2, G
<1>. QED
  BY <1>3, <1>4

(* The remainder is encoded.                                                *)
LEMMA EncodingEnds ==
  ASSUME NEW g \in Nat, NEW S \in Seq(B!Octet),
         NEW E \in Seq(B!Char), NEW T \in Seq(B!Octet), EncodingAt(g, S, Len(S), E, T)
  PROVE  LET E2 == IF Len(T) = 0 THEN E
                   ELSE E \o SubSeq(B!Sextets(B!Padded(T, 3)), 1, Len(T) + 1)
                          \o [k \in 1 .. 3 - Len(T) |-> B!Pad] IN
         E2 \in Seq(B!Char) /\ EncodedAt(g, Len(T), S, E2)
<1>. DEFINE r == Len(T)
            X == B!Sextets(Three(S, g))
            Y == SubSeq(X, 1, r + 1)
            Z == [k \in 1 .. 3 - r |-> B!Pad]
            F == E \o Y
            E2 == F \o Z
<1>0. r \in Nat /\ r <= 2 /\ Len(S) = 3 * g + r /\ Len(E) = 4 * g
  BY DEF EncodingAt
<1>e. \A h \in 0 .. g - 1 : \A m \in 1 .. 4 :
         E[4 * h + m] = B!Sextets(Three(S, h))[m]
  BY DEF EncodingAt
<1>t. \A m \in 1 .. r : T[m] = S[3 * g + m]
  BY DEF EncodingAt
<1>p. /\ B!Padded(T, 3)[1] = IF 1 <= r THEN T[1] ELSE 0
      /\ B!Padded(T, 3)[2] = IF 2 <= r THEN T[2] ELSE 0
      /\ B!Padded(T, 3)[3] = IF 3 <= r THEN T[3] ELSE 0
  BY DEF B!Padded
<1>. HIDE DEF r
<1>1. ASSUME NEW h \in 0 .. g - 1, NEW m \in 1 .. 4
      PROVE  /\ 4 * h + m \in 1 .. 4 * g /\ h \in Nat /\ 3 * h + m - 1 <= 3 * g + r
             /\ E[4 * h + m] = B!Sextets(Three(S, h))[m]
  <2>1. E[4 * h + m] = B!Sextets(Three(S, h))[m]
    BY <1>e, Zenon
  <2>2. 4 * h + m \in 1 .. 4 * g /\ h \in Nat /\ 3 * h + m - 1 <= 3 * g + r
    BY <1>0
  <2>. QED
    BY <2>1, <2>2
<1>2. CASE r = 0
  <2>1. ASSUME NEW h \in 0 .. g, NEW m \in 1 .. 4, 4 * h + m <= Len(E)
        PROVE  E[4 * h + m] = IF 3 * h + m - 1 <= Len(S)
                              THEN B!Sextets(Three(S, h))[m] ELSE B!Pad
    <3>1. h \in 0 .. g - 1
      BY <1>0, <2>1
    <3>. QED
      BY <1>0, <1>1, <3>1, Zenon
  <2>2. EncodedAt(g, r, S, E)
    BY <1>0, <1>2, <2>1 DEF EncodedAt
  <2>. QED
    BY <1>2, <2>2, Zenon DEF r
<1>3. CASE r # 0
  <2>0. r \in Nat /\ r >= 1 /\ r <= 2
    BY <1>0, <1>3
  <2>1. B!Sextets(B!Padded(T, 3)) = X
    <3>2. /\ Three(S, g)[1] = At(S, Len(S), 3 * g + 1)
          /\ Three(S, g)[2] = At(S, Len(S), 3 * g + 2)
          /\ Three(S, g)[3] = At(S, Len(S), 3 * g + 3)
      BY ThreeOctets
    <3>3. /\ At(S, Len(S), 3 * g + 1) = S[3 * g + 1]
          /\ At(S, Len(S), 3 * g + 2) = IF r = 2 THEN S[3 * g + 2] ELSE 0
          /\ At(S, Len(S), 3 * g + 3) = 0
      BY <1>0, <2>0 DEF At
    <3>4. /\ B!Padded(T, 3)[1] = S[3 * g + 1]
          /\ B!Padded(T, 3)[2] = IF r = 2 THEN S[3 * g + 2] ELSE 0
          /\ B!Padded(T, 3)[3] = 0
      BY <1>p, <1>t, <2>0
    <3>. QED
      BY <3>2, <3>3, <3>4, Zenon DEF B!Sextets
  <2>2. X \in Seq(B!Char) /\ Len(X) = 4
    <3>1. X \in Seq(B!Digit) /\ Len(X) = 4
      BY ThreeSextets
    <3>2. B!Digit \subseteq B!Char
      BY DEF B!Char
    <3>. HIDE DEF X
    <3>. QED
      BY <3>1, <3>2
  <2>. HIDE DEF X
  <2>3. /\ Y \in Seq(B!Char) /\ Len(Y) = r + 1
        /\ \A k \in 1 .. r + 1 : Y[k] = X[k]
    <3>1. r + 1 \in Nat /\ r + 1 <= Len(X)
      BY <2>0, <2>2
    <3>. QED
      BY <2>2, <3>1, Taken, Zenon
  <2>4. /\ Z \in Seq(B!Char) /\ Len(Z) = 3 - r
        /\ \A k \in 1 .. 3 - r : Z[k] = B!Pad
    <3>1. B!Pad \in B!Char
      BY DEF B!Char
    <3>2. 3 - r \in Nat
      BY <2>0
    <3>. QED
      BY <3>1, <3>2, SMTT(30)
  <2>. HIDE DEF Y, Z
  <2>5. /\ F \in Seq(B!Char) /\ Len(F) = 4 * g + r + 1
        /\ \A k \in 1 .. 4 * g : F[k] = E[k]
        /\ \A k \in 1 .. r + 1 : F[4 * g + k] = X[k]
    <3>. HIDE DEF F
    <3>0. F \in Seq(B!Char) /\ IsJoined(F, E, Y)
      BY <2>3, Joined, Zenon DEF F
    <3>1. /\ F \in Seq(B!Char) /\ Len(F) = Len(E) + Len(Y)
          /\ \A k \in 1 .. Len(E) : F[k] = E[k]
          /\ \A k \in 1 .. Len(Y) : F[Len(E) + k] = Y[k]
      BY <3>0, Zenon DEF IsJoined
    <3>2. Len(F) = 4 * g + r + 1
      BY <1>0, <2>3, <3>1
    <3>. QED
      BY <1>0, <2>3, <3>1, <3>2, Zenon
  <2>. HIDE DEF F
  <2>6. /\ E2 \in Seq(B!Char) /\ Len(E2) = 4 * g + 4
        /\ \A k \in 1 .. 4 * g + r + 1 : E2[k] = F[k]
        /\ \A k \in 1 .. 3 - r : E2[4 * g + r + 1 + k] = B!Pad
    <3>. HIDE DEF E2
    <3>0. E2 \in Seq(B!Char) /\ IsJoined(E2, F, Z)
      BY <2>4, <2>5, Joined, Zenon DEF E2
    <3>1. /\ E2 \in Seq(B!Char) /\ Len(E2) = Len(F) + Len(Z)
          /\ \A k \in 1 .. Len(F) : E2[k] = F[k]
          /\ \A k \in 1 .. Len(Z) : E2[Len(F) + k] = Z[k]
      BY <3>0, Zenon DEF IsJoined
    <3>2. Len(E2) = 4 * g + 4
      BY <2>0, <2>4, <2>5, <3>1
    <3>. QED
      BY <2>4, <2>5, <3>1, <3>2, Zenon
  <2>. HIDE DEF E2
  <2>7. ASSUME NEW h \in 0 .. g, NEW m \in 1 .. 4
        PROVE  E2[4 * h + m] = IF 3 * h + m - 1 <= 3 * g + r
                               THEN B!Sextets(Three(S, h))[m] ELSE B!Pad
    <3>1. CASE h = g /\ m <= r + 1
      <4>1. /\ m \in 1 .. r + 1 /\ 4 * g + m \in 1 .. 4 * g + r + 1
            /\ 3 * h + m - 1 <= 3 * g + r
        BY <2>0, <3>1
      <4>2. E2[4 * g + m] = F[4 * g + m] /\ F[4 * g + m] = X[m]
        BY <2>5, <2>6, <4>1, Zenon
      <4>. QED
        BY <3>1, <4>1, <4>2, Zenon DEF X
    <3>2. CASE h = g /\ m > r + 1
      <4>1. m - (r + 1) \in 1 .. 3 - r /\ 4 * g + r + 1 + (m - (r + 1)) = 4 * h + m
            /\ ~(3 * h + m - 1 <= 3 * g + r)
        BY <2>0, <3>2
      <4>2. E2[4 * g + r + 1 + (m - (r + 1))] = B!Pad
        BY <2>6, <4>1, Zenon
      <4>. QED
        BY <4>1, <4>2, Zenon
    <3>3. CASE h # g
      <4>1. h \in 0 .. g - 1 /\ 4 * h + m \in 1 .. 4 * g
        BY <3>3
      <4>2. E2[4 * h + m] = E[4 * h + m]
        BY <2>0, <2>5, <2>6, <4>1, SMTT(30)
      <4>. QED
        BY <1>1, <4>1, <4>2, Zenon
    <3>. QED
      BY <2>0, <3>1, <3>2, <3>3
  <2>8. EncodedAt(g, r, S, E2)
    BY <1>0, <1>3, <2>6, <2>7, Zenon DEF EncodedAt
  <2>. QED
    BY <1>3, <2>1, <2>6, <2>8, Zenon DEF E2, F, Y, Z, r
<1>. QED
  BY <1>2, <1>3

LEMMA FourIs ==
  ASSUME NEW E, NEW J, NEW h
  PROVE  /\ Four(E, J, h)[1] = At(E, J, 4 * h + 1)
         /\ Four(E, J, h)[2] = At(E, J, 4 * h + 2)
         /\ Four(E, J, h)[3] = At(E, J, 4 * h + 3)
         /\ Four(E, J, h)[4] = At(E, J, 4 * h + 4)
BY DEF Four

LEMMA FourStays ==
  ASSUME NEW E, NEW J \in Nat, NEW h \in Nat, 4 * h + 4 <= J
  PROVE  Four(E, J, h) = Four(E, J + 1, h)
<1>1. /\ At(E, J, 4 * h + 1) = At(E, J + 1, 4 * h + 1)
      /\ At(E, J, 4 * h + 2) = At(E, J + 1, 4 * h + 2)
      /\ At(E, J, 4 * h + 3) = At(E, J + 1, 4 * h + 3)
      /\ At(E, J, 4 * h + 4) = At(E, J + 1, 4 * h + 4)
  BY DEF At
<1>. QED
  BY <1>1, Zenon DEF Four

LEMMA DecodingStarts ==
  ASSUME NEW E \in Seq(B!Char)
  PROVE  DecodingAt(0, E, 0, << >>, << >>)
BY DEF DecodingAt

(* A character is decoded.                                                  *)
LEMMA DecodingGoesOn ==
  ASSUME NEW g \in Nat, NEW E \in Seq(B!Char), NEW J \in Nat, J < Len(E),
         E[J + 1] \in B!Digit, NEW D \in Seq(B!Octet), NEW T \in Seq(B!Octet),
         DecodingAt(g, E, J, D, T)
  PROVE  LET G == Append(T, E[J + 1]) IN
         /\ G \in Seq(B!Octet)
         /\ Len(G) # 4 => DecodingAt(g, E, J + 1, D, G)
         /\ Len(G) = 4 => /\ D \o B!Octets(G) \in Seq(B!Octet)
                          /\ DecodingAt(g + 1, E, J + 1, D \o B!Octets(G), << >>)
<1>. DEFINE G == Append(T, E[J + 1])
            n == Len(T)
<1>0. n \in Nat /\ n <= 3 /\ J = 4 * g + n /\ J + 1 <= Len(E) /\ Len(D) = 3 * g
  BY DEF DecodingAt
<1>k. \A k \in 1 .. J + 1 : E[k] \in B!Digit
  <2>1. \A k \in 1 .. J : E[k] \in B!Digit
    BY DEF DecodingAt
  <2>. QED
    BY <2>1
<1>d. \A h \in 0 .. g - 1 : \A m \in 1 .. 3 :
         D[3 * h + m] = B!Octets(Four(E, J + 1, h))[m]
  <2>1. ASSUME NEW h \in 0 .. g - 1, NEW m \in 1 .. 3
        PROVE  D[3 * h + m] = B!Octets(Four(E, J + 1, h))[m]
    <3>1. D[3 * h + m] = B!Octets(Four(E, J, h))[m]
      BY Zenon DEF DecodingAt
    <3>2. h \in Nat /\ 4 * h + 4 <= J
      <4>. HIDE DEF n
      <4>. QED
        BY <1>0
    <3>3. Four(E, J, h) = Four(E, J + 1, h)
      BY <3>2, FourStays
    <3>. QED
      BY <3>1, <3>3, Zenon
  <2>. QED
    BY <2>1
<1>t. \A m \in 1 .. n : T[m] = E[4 * g + m]
  BY DEF DecodingAt
<1>1. /\ G \in Seq(B!Octet) /\ Len(G) = n + 1
      /\ G[n + 1] = E[J + 1] /\ \A m \in 1 .. n : G[m] = T[m]
  <2>1. E[J + 1] \in B!Octet
    BY DEF B!Digit, B!Octet
  <2>. QED
    BY <2>1
<1>. HIDE DEF G, n
<1>2. \A m \in 1 .. n + 1 : G[m] = E[4 * g + m]
  BY <1>0, <1>1, <1>t
<1>3. CASE n # 3
  <2>1. Len(G) <= 3 /\ J + 1 = 4 * g + Len(G) /\ Len(G) # 4
    BY <1>0, <1>1, <1>3
  <2>2. \A m \in 1 .. Len(G) : G[m] = E[4 * g + m]
    BY <1>1, <1>2
  <2>3. DecodingAt(g, E, J + 1, D, G)
    BY <1>0, <1>d, <1>k, <2>1, <2>2, Zenon DEF DecodingAt
  <2>. QED
    BY <1>1, <2>1, <2>3, Zenon DEF G
<1>4. CASE n = 3
  <2>. DEFINE X == B!Octets(Four(E, J + 1, g))
              D2 == D \o X
  <2>2. J + 1 = 4 * g + 4
    BY <1>0, <1>4
  <2>3. B!Octets(G) = X
    <3>1. /\ G[1] = E[4 * g + 1] /\ G[2] = E[4 * g + 2]
          /\ G[3] = E[4 * g + 3] /\ G[4] = E[4 * g + 4]
      BY <1>2, <1>4
    <3>2. /\ Four(E, J + 1, g)[1] = At(E, J + 1, 4 * g + 1)
          /\ Four(E, J + 1, g)[2] = At(E, J + 1, 4 * g + 2)
          /\ Four(E, J + 1, g)[3] = At(E, J + 1, 4 * g + 3)
          /\ Four(E, J + 1, g)[4] = At(E, J + 1, 4 * g + 4)
      BY FourIs
    <3>3. /\ At(E, J + 1, 4 * g + 1) = E[4 * g + 1]
          /\ At(E, J + 1, 4 * g + 2) = E[4 * g + 2]
          /\ At(E, J + 1, 4 * g + 3) = E[4 * g + 3]
          /\ At(E, J + 1, 4 * g + 4) = E[4 * g + 4]
      BY <2>2 DEF At
    <3>. QED
      BY <3>1, <3>2, <3>3, ZenonT(30) DEF B!Octets
  <2>4. X \in Seq(B!Octet) /\ Len(X) = 3
    <3>1. J + 1 \in Nat
      OBVIOUS
    <3>. QED
      BY <1>k, <3>1, FourOctets, Zenon
  <2>. HIDE DEF X
  <2>5. /\ D2 \in Seq(B!Octet) /\ Len(D2) = Len(D) + 3
        /\ \A k \in 1 .. Len(D) : D2[k] = D[k]
        /\ \A k \in 1 .. 3 : D2[Len(D) + k] = X[k]
    <3>1. D2 \in Seq(B!Octet) /\ IsJoined(D2, D, X)
      BY <2>4, Joined, Zenon
    <3>. QED
      BY <2>4, <3>1, Zenon DEF IsJoined
  <2>. HIDE DEF D2
  <2>6. ASSUME NEW h \in 0 .. g, NEW m \in 1 .. 3
        PROVE  D2[3 * h + m] = B!Octets(Four(E, J + 1, h))[m]
    <3>1. CASE h = g
      <4>1. D2[3 * g + m] = X[m]
        BY <1>0, <2>5
      <4>. QED
        BY <3>1, <4>1, Zenon DEF X
    <3>2. CASE h # g
      <4>1. h \in 0 .. g - 1 /\ 3 * h + m \in 1 .. 3 * g
        BY <3>2
      <4>2. D2[3 * h + m] = D[3 * h + m]
        BY <1>0, <2>5, <4>1
      <4>. QED
        BY <1>d, <4>1, <4>2, Zenon
    <3>. QED
      BY <3>1, <3>2
  <2>7. DecodingAt(g + 1, E, J + 1, D2, << >>)
    <3>1. (g + 1) - 1 = g /\ Len(D2) = 3 * (g + 1)
      BY <1>0, <2>5
    <3>2. \A h \in 0 .. (g + 1) - 1 : \A m \in 1 .. 3 :
             D2[3 * h + m] = B!Octets(Four(E, J + 1, h))[m]
      BY <2>6, <3>1, Zenon
    <3>3. J + 1 = 4 * (g + 1) /\ J + 1 <= Len(E)
      BY <1>0, <2>2
    <3>. QED
      BY <1>k, <3>1, <3>2, <3>3 DEF DecodingAt
  <2>8. Len(G) = 4
    BY <1>1, <1>4
  <2>. QED
    BY <1>1, <2>3, <2>5, <2>7, <2>8, Zenon DEF D2, G
<1>. QED
  BY <1>3, <1>4

(* The remainder is decoded.                                                *)
LEMMA DecodingEnds ==
  ASSUME NEW g \in Nat, NEW E \in Seq(B!Char), NEW J \in Nat,
         NEW D \in Seq(B!Octet), NEW T \in Seq(B!Octet), DecodingAt(g, E, J, D, T),
         J = Len(E) \/ E[J + 1] \notin B!Digit
  PROVE  LET D2 == IF Len(T) = 0 THEN D
                   ELSE D \o SubSeq(B!Octets(B!Padded(T, 4)), 1, Len(T) - 1) IN
         D2 \in Seq(B!Octet) /\ DecodedAt(g, E, J, D2, T)
<1>. DEFINE r == Len(T)
            X == B!Octets(Four(E, J, g))
            Y == SubSeq(X, 1, r - 1)
            D2 == D \o Y
<1>0. r \in Nat /\ r <= 3 /\ J = 4 * g + r /\ Len(D) = 3 * g
  BY DEF DecodingAt
<1>n. /\ Len(T) <= 3 /\ J = 4 * g + Len(T) /\ J <= Len(E)
      /\ \A k \in 1 .. J : E[k] \in B!Digit
  BY DEF DecodingAt
<1>d. \A h \in 0 .. g - 1 : \A m \in 1 .. 3 :
         D[3 * h + m] = B!Octets(Four(E, J, h))[m]
  BY DEF DecodingAt
<1>t. \A m \in 1 .. r : T[m] = E[4 * g + m]
  BY DEF DecodingAt
<1>p. /\ B!Padded(T, 4)[1] = IF 1 <= r THEN T[1] ELSE 0
      /\ B!Padded(T, 4)[2] = IF 2 <= r THEN T[2] ELSE 0
      /\ B!Padded(T, 4)[3] = IF 3 <= r THEN T[3] ELSE 0
      /\ B!Padded(T, 4)[4] = IF 4 <= r THEN T[4] ELSE 0
  BY DEF B!Padded
<1>. HIDE DEF r
<1>2. CASE r = 0
  <2>1. ASSUME NEW h \in 0 .. g, NEW m \in 1 .. 3, 3 * h + m <= Len(D)
        PROVE  D[3 * h + m] = B!Octets(Four(E, J, h))[m]
    <3>1. h \in 0 .. g - 1
      BY <1>0, <2>1
    <3>. QED
      BY <1>d, <3>1, Zenon
  <2>2. Len(D) = 3 * g + (IF Len(T) = 0 THEN 0 ELSE Len(T) - 1)
    BY <1>0, <1>2 DEF r
  <2>3. DecodedAt(g, E, J, D, T)
    BY <1>n, <2>1, <2>2, Zenon DEF DecodedAt
  <2>. QED
    BY <1>2, <2>3, Zenon DEF r
<1>3. CASE r # 0
  <2>0. r \in Nat /\ r >= 1 /\ r <= 3
    BY <1>0, <1>3
  <2>1. B!Octets(B!Padded(T, 4)) = X
    <3>2. /\ Four(E, J, g)[1] = At(E, J, 4 * g + 1)
          /\ Four(E, J, g)[2] = At(E, J, 4 * g + 2)
          /\ Four(E, J, g)[3] = At(E, J, 4 * g + 3)
          /\ Four(E, J, g)[4] = At(E, J, 4 * g + 4)
      BY FourIs
    <3>3. /\ At(E, J, 4 * g + 1) = E[4 * g + 1]
          /\ At(E, J, 4 * g + 2) = IF r >= 2 THEN E[4 * g + 2] ELSE 0
          /\ At(E, J, 4 * g + 3) = IF r >= 3 THEN E[4 * g + 3] ELSE 0
          /\ At(E, J, 4 * g + 4) = 0
      BY <1>0, <2>0 DEF At
    <3>4. /\ B!Padded(T, 4)[1] = E[4 * g + 1]
          /\ B!Padded(T, 4)[2] = IF r >= 2 THEN E[4 * g + 2] ELSE 0
          /\ B!Padded(T, 4)[3] = IF r >= 3 THEN E[4 * g + 3] ELSE 0
          /\ B!Padded(T, 4)[4] = 0
      BY <1>p, <1>t, <2>0
    <3>. QED
      BY <3>2, <3>3, <3>4, ZenonT(30) DEF B!Octets
  <2>2. X \in Seq(B!Octet) /\ Len(X) = 3
    BY <1>n, FourOctets, Zenon
  <2>. HIDE DEF X
  <2>3. /\ Y \in Seq(B!Octet) /\ Len(Y) = r - 1
        /\ \A k \in 1 .. r - 1 : Y[k] = X[k]
    <3>1. r - 1 \in Nat /\ r - 1 <= Len(X)
      BY <2>0, <2>2
    <3>. QED
      BY <2>2, <3>1, Taken, Zenon
  <2>. HIDE DEF Y
  <2>5. /\ D2 \in Seq(B!Octet) /\ Len(D2) = 3 * g + (r - 1)
        /\ \A k \in 1 .. 3 * g : D2[k] = D[k]
        /\ \A k \in 1 .. r - 1 : D2[3 * g + k] = X[k]
    <3>. HIDE DEF D2
    <3>0. D2 \in Seq(B!Octet) /\ IsJoined(D2, D, Y)
      BY <2>3, Joined, Zenon DEF D2
    <3>1. /\ D2 \in Seq(B!Octet) /\ Len(D2) = Len(D) + Len(Y)
          /\ \A k \in 1 .. Len(D) : D2[k] = D[k]
          /\ \A k \in 1 .. Len(Y) : D2[Len(D) + k] = Y[k]
      BY <3>0, Zenon DEF IsJoined
    <3>2. Len(D2) = 3 * g + (r - 1)
      BY <1>0, <2>3, <3>1
    <3>. QED
      BY <1>0, <2>3, <3>1, <3>2, Zenon
  <2>. HIDE DEF D2
  <2>7. ASSUME NEW h \in 0 .. g, NEW m \in 1 .. 3, 3 * h + m <= Len(D2)
        PROVE  D2[3 * h + m] = B!Octets(Four(E, J, h))[m]
    <3>1. CASE h = g
      <4>1. m \in 1 .. r - 1
        BY <2>0, <2>5, <2>7, <3>1
      <4>2. D2[3 * g + m] = X[m]
        BY <2>5, <4>1, Zenon
      <4>. QED
        BY <3>1, <4>2, Zenon DEF X
    <3>3. CASE h # g
      <4>1. h \in 0 .. g - 1 /\ 3 * h + m \in 1 .. 3 * g
        BY <3>3
      <4>2. D2[3 * h + m] = D[3 * h + m]
        BY <2>5, <4>1, Zenon
      <4>. QED
        BY <1>d, <4>1, <4>2, Zenon
    <3>. QED
      BY <3>1, <3>3
  <2>8. Len(D2) = 3 * g + (IF Len(T) = 0 THEN 0 ELSE Len(T) - 1)
    BY <1>0, <1>3, <2>5 DEF r
  <2>9. DecodedAt(g, E, J, D2, T)
    BY <1>n, <2>7, <2>8, Zenon DEF DecodedAt
  <2>. QED
    BY <1>3, <2>1, <2>5, <2>9, Zenon DEF D2, Y, r
<1>. QED
  BY <1>2, <1>3

-----------------------------------------------------------------------------
(* Base64: the bits of whole strings, and the way back.                     *)

\* How many digits encode g groups and r bytes.
Digits(g, r) == 4 * g + (IF r = 0 THEN 0 ELSE r + 1)

SextetAt(E, S, h, m) == E[4 * h + m] = B!Sextets(Three(S, h))[m]

(* The digits of an encoding.                                               *)
LEMMA EncodedDigits ==
  ASSUME NEW g \in Nat, NEW r \in Nat, r <= 2, NEW S \in Seq(B!Octet),
         NEW E \in Seq(B!Char), EncodedAt(g, r, S, E), NEW L,
         L = Digits(g, r)
  PROVE  /\ L \in 0 .. Len(E)
         /\ \A k \in 1 .. L : E[k] \in B!Digit
         /\ \A k \in L + 1 .. Len(E) : E[k] = B!Pad
         /\ \A h \in Nat : \A m \in 1 .. 4 : 4 * h + m <= L => SextetAt(E, S, h, m)
<1>. DEFINE e == Len(E)
            n == Len(S)
<1>1. n = 3 * g + r /\ e = IF r = 0 THEN 4 * g ELSE 4 * g + 4
  BY Zenon DEF EncodedAt
<1>2. ASSUME NEW h \in 0 .. g, NEW m \in 1 .. 4, 4 * h + m <= e
      PROVE  E[4 * h + m] = IF 3 * h + m - 1 <= n THEN B!Sextets(Three(S, h))[m]
                            ELSE B!Pad
  BY <1>2, Zenon DEF EncodedAt
<1>l. L = 4 * g + (IF r = 0 THEN 0 ELSE r + 1)
  BY DEF Digits
<1>. HIDE DEF e, n
<1>3. L \in 0 .. e
  BY <1>1, <1>l
<1>4. ASSUME NEW h \in Nat, NEW m \in 1 .. 4, 4 * h + m <= L
      PROVE  h \in 0 .. g /\ 4 * h + m <= e /\ 3 * h + m - 1 <= n
  BY <1>1, <1>4, <1>l
<1>5. ASSUME NEW h \in Nat, NEW m \in 1 .. 4, 4 * h + m <= e, ~(4 * h + m <= L)
      PROVE  h \in 0 .. g /\ ~(3 * h + m - 1 <= n)
  BY <1>1, <1>5, <1>l
<1>6. ASSUME NEW h \in Nat, NEW m \in 1 .. 4, 4 * h + m <= L
      PROVE  E[4 * h + m] = B!Sextets(Three(S, h))[m]
  BY <1>2, <1>4, <1>6, Zenon
<1>7. \A k \in Nat \ {0} : \E h \in Nat, m \in 1 .. 4 : k = 4 * h + m
  <2>1. ASSUME NEW k \in Nat \ {0}
        PROVE  /\ (k - 1) \div 4 \in Nat /\ k - 4 * ((k - 1) \div 4) \in 1 .. 4
               /\ k = 4 * ((k - 1) \div 4) + (k - 4 * ((k - 1) \div 4))
    OBVIOUS
  <2>. QED
    BY <2>1, ZenonT(30)
<1>8. ASSUME NEW k \in 1 .. L
      PROVE  E[k] \in B!Digit
  <2>1. k \in Nat \ {0} /\ k <= L
    BY <1>3
  <2>2. PICK h \in Nat, m \in 1 .. 4 : k = 4 * h + m
    BY <1>7, <2>1, Zenon
  <2>3. E[k] = B!Sextets(Three(S, h))[m]
    BY <1>6, <2>1, <2>2, Zenon
  <2>4. B!Sextets(Three(S, h))[m] \in B!Digit
    BY ThreeSextets
  <2>. QED
    BY <2>3, <2>4, Zenon
<1>9. ASSUME NEW k \in L + 1 .. e
      PROVE  E[k] = B!Pad
  <2>1. k \in Nat \ {0} /\ k <= e /\ ~(k <= L)
    BY <1>1, <1>3, <1>l
  <2>2. PICK h \in Nat, m \in 1 .. 4 : k = 4 * h + m
    BY <1>7, <2>1, Zenon
  <2>. QED
    BY <1>2, <1>5, <2>1, <2>2, Zenon
<1>. QED
  BY <1>3, <1>6, <1>8, <1>9, Zenon DEF e, SextetAt

LEMMA EncodedBits ==
  ASSUME NEW g \in Nat, NEW r \in Nat, r <= 2, NEW S \in Seq(B!Octet),
         NEW E \in Seq(B!Char), EncodedAt(g, r, S, E), NEW L,
         L = Digits(g, r), NEW k \in 1 .. 6 * L
  PROVE  B!Bit(E, 6, k) = IF k <= 8 * Len(S) THEN B!Bit(S, 8, k) ELSE 0
<1>. DEFINE n == Len(S)
            h == (k - 1) \div 24
            b == k - 24 * h
            m == (b - 1) \div 6 + 1
            p == (b - 1) \div 8 + 1
            u == Three(S, h)
            t == B!Sextets(u)
<1>1. n \in Nat /\ n = 3 * g + r /\ L \in Nat
  BY SMTT(30) DEF EncodedAt, Digits
<1>2. /\ h \in Nat /\ b \in 1 .. 24 /\ k = 24 * h + b
      /\ m \in 1 .. 4 /\ p \in 1 .. 3
  <2>1. h \in Nat /\ b \in 1 .. 24 /\ k = 24 * h + b
    OBVIOUS
  <2>. HIDE DEF h, b
  <2>2. m \in 1 .. 4 /\ p \in 1 .. 3
    BY <2>1
  <2>. QED
    BY <2>1, <2>2
<1>3. 4 * h + m <= L
  <2>. DEFINE q == (b - 1) \div 6
  <2>1. q \in Nat /\ 6 * q <= b - 1 /\ m = q + 1
    <3>. HIDE DEF b
    <3>. QED
      BY <1>2
  <2>2. k \in Nat /\ k <= 6 * L
    BY <1>1
  <2>. HIDE DEF h, b, q, m
  <2>. QED
    BY <1>1, <1>2, <2>1, <2>2
<1>4. k <= 8 * n <=> 3 * h + p <= n
  <2>. DEFINE q == (b - 1) \div 8
  <2>1. q \in Nat /\ 8 * q <= b - 1 /\ b <= 8 * q + 8 /\ p = q + 1
    <3>. HIDE DEF b
    <3>. QED
      BY <1>2
  <2>. HIDE DEF h, b, q, p, n
  <2>. QED
    BY <1>1, <1>2, <2>1
<1>. HIDE DEF h, b, n
<1>5. E[4 * h + m] = t[m]
  <2>1. SextetAt(E, S, h, m)
    <3>. HIDE DEF m
    <3>. QED
      BY <1>2, <1>3, EncodedDigits
  <2>. QED
    BY <2>1, Zenon DEF SextetAt
<1>6. SameBit6(E, t, h, b)
  <2>1. /\ h \in Nat /\ b \in Nat /\ b <= 24
        /\ m \in Nat /\ 6 * m - 6 < b /\ b <= 6 * m
    BY <1>2
  <2>. HIDE DEF t, m
  <2>. QED
    BY <1>5, <2>1, BitIn6, Zenon
<1>7. B!Bit(t, 6, b) = B!Bit(u, 8, b)
  BY <1>2, ThreeSextets, Zenon
<1>8. u[p] = At(S, n, 3 * h + p)
  BY <1>2, ThreeOctets, Zenon DEF n
<1>9. k <= 8 * n => SameBit8(S, u, h, b)
  <2>1. k <= 8 * n => S[3 * h + p] = u[p]
    BY <1>4, <1>8, Zenon DEF At
  <2>2. h \in Nat /\ b \in Nat /\ b <= 24 /\ p \in Nat /\ 8 * p - 8 < b /\ b <= 8 * p
    BY <1>2
  <2>. HIDE DEF u, p
  <2>. QED
    BY <2>1, <2>2, BitIn8, Zenon
<1>10. ~(k <= 8 * n) => B!Bit(u, 8, b) = 0
  <2>1. ~(k <= 8 * n) => u[p] = 0
    BY <1>4, <1>8, Zenon DEF At
  <2>. HIDE DEF u
  <2>. QED
    BY <1>2, <2>1, ZeroBits, Zenon
<1>. QED
  BY <1>2, <1>6, <1>7, <1>9, <1>10, Zenon DEF n, SameBit6, SameBit8

(* The bits of what is decoded.                                             *)
LEMMA DecodedBits ==
  ASSUME NEW g \in Nat, NEW E \in Seq(B!Char), NEW J \in Nat,
         NEW D \in Seq(B!Octet), NEW T \in Seq(B!Octet), DecodedAt(g, E, J, D, T)
  PROVE  /\ Len(D) = (6 * J) \div 8
         /\ \A k \in 1 .. 8 * Len(D) : B!Bit(D, 8, k) = B!Bit(E, 6, k)
<1>. DEFINE r == Len(T)
            d == Len(D)
<1>1. /\ r \in Nat /\ r <= 3 /\ J = 4 * g + r /\ d = 3 * g + (IF r = 0 THEN 0 ELSE r - 1)
  BY DEF DecodedAt
<1>2. \A k \in 1 .. J : E[k] \in B!Digit
  BY DEF DecodedAt
<1>3. ASSUME NEW h \in 0 .. g, NEW m \in 1 .. 3, 3 * h + m <= d
      PROVE  D[3 * h + m] = B!Octets(Four(E, J, h))[m]
  BY <1>3, Zenon DEF DecodedAt
<1>. HIDE DEF r, d
<1>4. d \in Nat /\ d = (6 * J) \div 8
  BY <1>1
<1>5. ASSUME NEW k \in 1 .. 8 * d PROVE B!Bit(D, 8, k) = B!Bit(E, 6, k)
  <2>. DEFINE h == (k - 1) \div 24
              b == k - 24 * h
              m == (b - 1) \div 6 + 1
              p == (b - 1) \div 8 + 1
              u == Four(E, J, h)
              t == B!Octets(u)
  <2>1. /\ h \in Nat /\ b \in 1 .. 24 /\ k = 24 * h + b
        /\ m \in 1 .. 4 /\ p \in 1 .. 3
    <3>1. h \in Nat /\ b \in 1 .. 24 /\ k = 24 * h + b
      BY <1>4
    <3>. HIDE DEF h, b
    <3>2. m \in 1 .. 4 /\ p \in 1 .. 3
      BY <3>1
    <3>. QED
      BY <3>1, <3>2
  <2>2. h \in 0 .. g /\ 3 * h + p <= d /\ 4 * h + m <= J
    <3>. DEFINE q == (b - 1) \div 8
                s == (b - 1) \div 6
    <3>1. /\ q \in Nat /\ 8 * q <= b - 1 /\ p = q + 1
          /\ s \in Nat /\ 6 * s <= b - 1 /\ m = s + 1
      <4>. HIDE DEF b
      <4>. QED
        BY <2>1
    <3>. HIDE DEF h, b, q, s, m, p
    <3>2. k <= 8 * d
      BY <1>4
    <3>3. 3 * h + p <= d
      BY <1>4, <2>1, <3>1, <3>2
    <3>4. 4 * h + m <= J
      BY <1>1, <1>4, <2>1, <3>1, <3>2
    <3>5. h <= g
      BY <1>1, <2>1, <3>3
    <3>. QED
      BY <2>1, <3>3, <3>4, <3>5
  <2>. HIDE DEF h, b
  <2>3. D[3 * h + p] = t[p]
    BY <1>3, <2>1, <2>2, Zenon
  <2>4. SameBit8(D, t, h, b)
    <3>1. /\ h \in Nat /\ b \in Nat /\ b <= 24
          /\ p \in Nat /\ 8 * p - 8 < b /\ b <= 8 * p
      BY <2>1
    <3>. HIDE DEF t, p
    <3>. QED
      BY <2>3, <3>1, BitIn8, Zenon
  <2>5. B!Bit(t, 8, b) = B!Bit(u, 6, b)
    BY <1>2, <2>1, FourOctets, Zenon
  <2>6. E[4 * h + m] = u[m]
    <3>1. u[m] = At(E, J, 4 * h + m)
      BY <1>2, <2>1, FourDigits, Zenon
    <3>. QED
      BY <2>2, <3>1, Zenon DEF At
  <2>7. SameBit6(E, u, h, b)
    <3>1. /\ h \in Nat /\ b \in Nat /\ b <= 24
          /\ m \in Nat /\ 6 * m - 6 < b /\ b <= 6 * m
      BY <2>1
    <3>. HIDE DEF u, m
    <3>. QED
      BY <2>6, <3>1, BitIn6, Zenon
  <2>. QED
    BY <2>1, <2>4, <2>5, <2>7, Zenon DEF SameBit6, SameBit8
<1>. QED
  BY <1>4, <1>5, Zenon DEF d

LEMMA LeadingIs ==
  ASSUME str \in Seq(B!Char), NEW J \in Nat, J <= Len(str),
         \A k \in 1 .. J : str[k] \in B!Digit, J = Len(str) \/ str[J + 1] \notin B!Digit
  PROVE  B!Leading = J
<1>. DEFINE P(n) == /\ \A k \in 1 .. n : str[k] \in B!Digit
                    /\ n = Len(str) \/ str[n + 1] \notin B!Digit
<1>1. J \in 0 .. Len(str) /\ P(J)
  OBVIOUS
<1>2. ASSUME NEW n \in 0 .. Len(str), P(n) PROVE n = J
  <2>1. CASE n < J
    <3>1. n + 1 \in 1 .. J /\ n # Len(str)
      BY <2>1
    <3>. QED
      BY <1>2, <3>1
  <2>2. CASE J < n
    <3>1. J + 1 \in 1 .. n /\ J # Len(str)
      BY <2>2
    <3>. QED
      BY <1>2, <3>1
  <2>. QED
    BY <2>1, <2>2
<1>3. B!Leading = CHOOSE n \in 0 .. Len(str) : P(n)
  BY DEF B!Leading
<1>. HIDE DEF P
<1>. QED
  BY <1>1, <1>2, <1>3, Zenon

(* What has been encoded is decoded as it was.                              *)
LEMMA SameDigits ==
  ASSUME NEW g \in Nat, NEW r \in Nat, r <= 2, NEW S \in Seq(B!Octet),
         NEW E \in Seq(B!Char), EncodedAt(g, r, S, E), NEW f \in Nat, NEW J \in Nat,
         NEW D \in Seq(B!Octet), NEW T \in Seq(B!Octet), DecodedAt(f, E, J, D, T)
  PROVE  /\ J = Digits(g, r) /\ f = g
         /\ Len(D) = Len(S)
<1>. DEFINE L == Digits(g, r)
            q == Len(T)
            n == Len(S)
            d == Len(D)
<1>1. /\ q \in Nat /\ q <= 3 /\ J = 4 * f + q /\ J <= Len(E)
      /\ d = 3 * f + (IF q = 0 THEN 0 ELSE q - 1)
  BY DEF DecodedAt
<1>2. /\ \A k \in 1 .. J : E[k] \in B!Digit
      /\ J = Len(E) \/ E[J + 1] \notin B!Digit
  BY DEF DecodedAt
<1>3. L \in 0 .. Len(E)
  BY EncodedDigits
<1>4. \A k \in 1 .. L : E[k] \in B!Digit
  BY EncodedDigits
<1>5. \A k \in L + 1 .. Len(E) : E[k] \notin B!Digit
  <2>1. \A k \in L + 1 .. Len(E) : E[k] = B!Pad
    BY EncodedDigits
  <2>2. B!Pad \notin B!Digit
    BY DEF B!Pad, B!Digit
  <2>. QED
    BY <2>1, <2>2, Zenon
<1>6. L = 4 * g + (IF r = 0 THEN 0 ELSE r + 1) /\ n = 3 * g + r
  BY DEF Digits, EncodedAt
<1>. HIDE DEF L, q, n, d
<1>7. J = L
  <2>. DEFINE e == Len(E)
  <2>0. e \in Nat /\ L \in Nat /\ L <= e /\ J <= e
    BY <1>1, <1>3
  <2>1. CASE J < L
    <3>1. J + 1 \in 1 .. L /\ J # e
      <4>. HIDE DEF e
      <4>. QED
        BY <2>0, <2>1
    <3>. QED
      BY <1>2, <1>4, <3>1, Zenon
  <2>2. CASE L < J
    <3>1. J \in L + 1 .. e /\ J \in 1 .. J
      <4>. HIDE DEF e
      <4>. QED
        BY <2>0, <2>2
    <3>. QED
      BY <1>2, <1>5, <3>1, Zenon
  <2>. QED
    <3>. HIDE DEF e
    <3>. QED
      BY <2>0, <2>1, <2>2
<1>8. f = g /\ d = n
  BY <1>1, <1>6, <1>7
<1>. QED
  BY <1>7, <1>8 DEF L, d, n

LEMMA ReadBack ==
  ASSUME NEW g \in Nat, NEW r \in Nat, r <= 2, NEW S \in Seq(B!Octet),
         NEW E \in Seq(B!Char), EncodedAt(g, r, S, E), NEW f \in Nat, NEW J \in Nat,
         NEW D \in Seq(B!Octet), NEW T \in Seq(B!Octet), DecodedAt(f, E, J, D, T)
  PROVE  D = S
<1>. DEFINE n == Len(S)
            L == Digits(g, r)
<1>1. J = L /\ f = g /\ Len(D) = n
  BY SameDigits
<1>2. \A k \in 1 .. J : E[k] \in B!Digit
  BY DEF DecodedAt
<1>3. n \in Nat /\ n = 3 * g + r /\ L = 4 * g + (IF r = 0 THEN 0 ELSE r + 1)
  BY DEF Digits, EncodedAt
<1>4. ASSUME NEW h \in 0 .. g, NEW m \in 1 .. 3, 3 * h + m <= n
      PROVE  D[3 * h + m] = S[3 * h + m]
  <2>. DEFINE u == Three(S, h)
              t == B!Sextets(u)
              v == Four(E, J, h)
  <2>0. h \in Nat
    OBVIOUS
  <2>1. D[3 * h + m] = B!Octets(v)[m]
    BY <1>1, <1>4, Zenon DEF DecodedAt
  <2>2. /\ t[3] = (u[2] % 16) * 4 + u[3] \div 64 /\ t[4] = u[3] % 64
        /\ B!Octets(<<t[1], t[2], t[3], t[4]>>) = u
    BY <2>0, ThreeSextets, SMTT(30)
  <2>3. \A c \in 1 .. 3 : u[c] = At(S, n, 3 * h + c)
    BY <2>0, ThreeOctets, Zenon
  <2>4. \A c \in 1 .. 4 : 4 * h + c <= L => E[4 * h + c] = t[c]
    <3>1. \A c \in 1 .. 4 : 4 * h + c <= L => SextetAt(E, S, h, c)
      BY <2>0, EncodedDigits
    <3>. QED
      BY <3>1, Zenon DEF SextetAt
  <2>5. /\ v[1] = At(E, J, 4 * h + 1) /\ v[2] = At(E, J, 4 * h + 2)
        /\ v[3] = At(E, J, 4 * h + 3) /\ v[4] = At(E, J, 4 * h + 4)
    BY FourIs
  <2>6. v = <<v[1], v[2], v[3], v[4]>>
    BY <1>2, <2>0, FourDigits, Zenon
  <2>. HIDE DEF u, t, v, n, L
  <2>7. v[1] = t[1] /\ v[2] = t[2]
    <3>1. 4 * h + 1 <= L /\ 4 * h + 2 <= L
      BY <1>3, <1>4
    <3>2. E[4 * h + 1] = t[1] /\ E[4 * h + 2] = t[2]
      <4>1. 1 \in 1 .. 4 /\ 2 \in 1 .. 4
        OBVIOUS
      <4>. QED
        BY <2>4, <3>1, <4>1, Zenon
    <3>. QED
      BY <1>1, <2>5, <3>1, <3>2, Zenon DEF At
  <2>8. v[3] = t[3]
    <3>1. CASE 4 * h + 3 <= L
      <4>1. 3 \in 1 .. 4
        OBVIOUS
      <4>. QED
        BY <1>1, <2>4, <2>5, <3>1, <4>1, Zenon DEF At
    <3>2. CASE ~(4 * h + 3 <= L)
      <4>1. ~(3 * h + 2 <= n) /\ ~(3 * h + 3 <= n)
        BY <1>3, <1>4, <3>2
      <4>2. u[2] = 0 /\ u[3] = 0
        <5>1. 2 \in 1 .. 3 /\ 3 \in 1 .. 3
          OBVIOUS
        <5>. QED
          BY <2>3, <4>1, <5>1, Zenon DEF At
      <4>3. t[3] = 0
        BY <2>2, <4>2
      <4>. QED
        BY <1>1, <2>5, <3>2, <4>3, Zenon DEF At
    <3>. QED
      BY <3>1, <3>2
  <2>9. v[4] = t[4]
    <3>1. CASE 4 * h + 4 <= L
      <4>1. 4 \in 1 .. 4
        OBVIOUS
      <4>. QED
        BY <1>1, <2>4, <2>5, <3>1, <4>1, Zenon DEF At
    <3>2. CASE ~(4 * h + 4 <= L)
      <4>1. ~(3 * h + 3 <= n)
        BY <1>3, <1>4, <3>2
      <4>2. u[3] = 0
        <5>1. 3 \in 1 .. 3
          OBVIOUS
        <5>. QED
          BY <2>3, <4>1, <5>1, Zenon DEF At
      <4>3. t[4] = 0
        BY <2>2, <4>2
      <4>. QED
        BY <1>1, <2>5, <3>2, <4>3, Zenon DEF At
    <3>. QED
      BY <3>1, <3>2
  <2>10. B!Octets(v) = u
    BY <2>2, <2>6, <2>7, <2>8, <2>9, Zenon
  <2>11. u[m] = S[3 * h + m]
    BY <1>4, <2>3, Zenon DEF At
  <2>. QED
    BY <2>1, <2>10, <2>11, Zenon
<1>5. ASSUME NEW k \in 1 .. n PROVE D[k] = S[k]
  <2>. DEFINE h == (k - 1) \div 3
              m == k - 3 * h
  <2>1. /\ h \in Nat /\ m \in 1 .. 3 /\ k = 3 * h + m /\ k <= n
    OBVIOUS
  <2>. HIDE DEF h, m, n
  <2>2. h \in 0 .. g
    BY <1>3, <2>1
  <2>. QED
    BY <1>4, <2>1, <2>2, Zenon
<1>. QED
  BY <1>1, <1>5

-----------------------------------------------------------------------------
(* The steps of Base64 as a part of PasswordString.                         *)

CodecTypes ==
  /\ b64 \in {"idle", "none", "encode", "decode", "check", "done"}
  /\ source \in Seq(B!Octet) /\ str \in Seq(B!Char)
  /\ dec \in Seq(B!Octet) /\ tmp \in Seq(B!Octet) /\ j \in Nat

IsEncoding == \E g \in Nat : EncodingAt(g, source, j, str, tmp)

IsDecoding == \E g \in Nat : DecodingAt(g, str, j, dec, tmp)

IsEncoded == \E g, r \in Nat : r <= 2 /\ EncodedAt(g, r, source, str)

IsDecoded == \E g \in Nat : DecodedAt(g, str, j, dec, tmp)

CodecInv ==
  /\ CodecTypes
  /\ b64 = "idle" => str = << >> /\ dec = << >> /\ tmp = << >> /\ j = 0
  /\ b64 = "encode" => dec = << >> /\ IsEncoding
  /\ b64 = "decode" => IsDecoding
  /\ (b64 \in {"decode", "check", "done"} /\ source # << >>) => IsEncoded
  /\ b64 \in {"check", "done"} => IsDecoded
  /\ b64 = "done" => /\ loaded = "accepted" <=> Len(dec) = PASS_LENGTH
                     /\ loaded = "crashed" => Len(tmp) = 1 /\ dec = << >>

LEMMA EncodeByteStep == CodecInv /\ B!EncodeByte => CodecInv'
<1>. SUFFICES ASSUME CodecInv, B!EncodeByte PROVE CodecInv'
  OBVIOUS
<1>. DEFINE G == Append(tmp, source[j + 1])
<1>1. /\ b64 = "encode" /\ j < Len(source) /\ b64' = b64 /\ j' = j + 1
      /\ source' = source /\ dec' = dec
      /\ IF Len(G) = 3 THEN str' = str \o B!Sextets(G) /\ tmp' = << >>
         ELSE tmp' = G /\ str' = str
  BY DEF B!EncodeByte
<1>2. CodecTypes /\ dec = << >> /\ IsEncoding
  BY <1>1, Zenon DEF CodecInv
<1>3. PICK g \in Nat : EncodingAt(g, source, j, str, tmp)
  BY <1>2, Zenon DEF IsEncoding
<1>4. /\ G \in Seq(B!Octet)
      /\ Len(G) # 3 => EncodingAt(g, source, j + 1, str, G)
      /\ Len(G) = 3 => /\ str \o B!Sextets(G) \in Seq(B!Char)
                       /\ EncodingAt(g + 1, source, j + 1, str \o B!Sextets(G), << >>)
  <2>1. /\ source \in Seq(B!Octet) /\ str \in Seq(B!Char)
        /\ tmp \in Seq(B!Octet) /\ j \in Nat
    BY <1>2, Zenon DEF CodecTypes
  <2>. QED
    BY <1>1, <1>3, <2>1, EncodingGoesOn, Zenon
<1>. HIDE DEF G
<1>5. j + 1 \in Nat /\ g + 1 \in Nat /\ << >> \in Seq(B!Octet)
  BY <1>2 DEF CodecTypes
<1>6. CodecTypes'
  BY <1>1, <1>2, <1>4, <1>5, Zenon DEF CodecTypes
<1>7. IsEncoding'
  BY <1>1, <1>4, <1>5, Zenon DEF IsEncoding
<1>8. b64' = "encode" /\ dec' = << >>
  BY <1>1, <1>2, Zenon
<1>. QED
  BY <1>6, <1>7, <1>8 DEF CodecInv

LEMMA EncodeRemainderStep == CodecInv /\ B!EncodeRemainder => CodecInv'
<1>. SUFFICES ASSUME CodecInv, B!EncodeRemainder PROVE CodecInv'
  OBVIOUS
<1>. DEFINE E2 == IF Len(tmp) = 0 THEN str
                  ELSE str \o SubSeq(B!Sextets(B!Padded(tmp, 3)), 1, Len(tmp) + 1)
                           \o [k \in 1 .. 3 - Len(tmp) |-> B!Pad]
<1>1. /\ b64 = "encode" /\ j = Len(source) /\ b64' = "decode" /\ j' = 0
      /\ source' = source /\ dec' = dec /\ tmp' = << >> /\ str' = E2
  BY Zenon DEF B!EncodeRemainder
<1>2. CodecTypes /\ dec = << >> /\ IsEncoding
  BY <1>1, Zenon DEF CodecInv
<1>3. PICK g \in Nat : EncodingAt(g, source, j, str, tmp)
  BY <1>2, Zenon DEF IsEncoding
<1>4. E2 \in Seq(B!Char) /\ EncodedAt(g, Len(tmp), source, E2)
  <2>1. source \in Seq(B!Octet) /\ str \in Seq(B!Char) /\ tmp \in Seq(B!Octet)
    BY <1>2, Zenon DEF CodecTypes
  <2>2. EncodingAt(g, source, Len(source), str, tmp)
    BY <1>1, <1>3, Zenon
  <2>. QED
    BY <2>1, <2>2, EncodingEnds, Zenon
<1>5. Len(tmp) \in Nat /\ Len(tmp) <= 2
  <2>1. Len(tmp) \in Nat
    BY <1>2 DEF CodecTypes
  <2>. QED
    BY <1>3, <2>1, Zenon DEF EncodingAt
<1>. HIDE DEF E2
<1>6. 0 \in Nat /\ << >> \in Seq(B!Octet)
  OBVIOUS
<1>7. CodecTypes'
  BY <1>1, <1>2, <1>4, <1>6 DEF CodecTypes
<1>8. IsEncoded'
  BY <1>1, <1>4, <1>5, Zenon DEF IsEncoded
<1>9. IsDecoding'
  <2>1. DecodingAt(0, E2, 0, << >>, << >>)
    BY <1>4, DecodingStarts, Zenon
  <2>. QED
    BY <1>1, <1>2, <1>6, <2>1, Zenon DEF IsDecoding
<1>. QED
  BY <1>1, <1>7, <1>8, <1>9 DEF CodecInv

LEMMA DecodeCharStep == CodecInv /\ B!DecodeChar => CodecInv'
<1>. SUFFICES ASSUME CodecInv, B!DecodeChar PROVE CodecInv'
  OBVIOUS
<1>. DEFINE G == Append(tmp, str[j + 1])
<1>1. /\ b64 = "decode" /\ ~B!Stops /\ b64' = b64 /\ j' = j + 1
      /\ source' = source /\ str' = str
      /\ IF Len(G) = 4 THEN dec' = dec \o B!Octets(G) /\ tmp' = << >>
         ELSE tmp' = G /\ dec' = dec
  BY DEF B!DecodeChar
<1>2. CodecTypes /\ IsDecoding /\ (source # << >> => IsEncoded)
  BY <1>1 DEF CodecInv
<1>3. PICK g \in Nat : DecodingAt(g, str, j, dec, tmp)
  BY <1>2, Zenon DEF IsDecoding
<1>t. /\ str \in Seq(B!Char) /\ dec \in Seq(B!Octet)
      /\ tmp \in Seq(B!Octet) /\ j \in Nat
  BY <1>2, Zenon DEF CodecTypes
<1>s. j < Len(str) /\ str[j + 1] \in B!Digit
  <2>1. j # Len(str) /\ str[j + 1] \in B!Digit
    BY <1>1, Zenon DEF B!Stops
  <2>2. j <= Len(str)
    BY <1>3, Zenon DEF DecodingAt
  <2>. QED
    BY <1>t, <2>1, <2>2
<1>4. /\ G \in Seq(B!Octet)
      /\ Len(G) # 4 => DecodingAt(g, str, j + 1, dec, G)
      /\ Len(G) = 4 => /\ dec \o B!Octets(G) \in Seq(B!Octet)
                       /\ DecodingAt(g + 1, str, j + 1, dec \o B!Octets(G), << >>)
  BY <1>3, <1>s, <1>t, DecodingGoesOn, Zenon
<1>. HIDE DEF G
<1>5. j + 1 \in Nat /\ g + 1 \in Nat /\ << >> \in Seq(B!Octet)
  BY <1>t
<1>6. CodecTypes'
  BY <1>1, <1>2, <1>4, <1>5, Zenon DEF CodecTypes
<1>7. IsDecoding'
  BY <1>1, <1>4, <1>5, Zenon DEF IsDecoding
<1>8. source' # << >> => IsEncoded'
  BY <1>1, <1>2, Zenon DEF IsEncoded
<1>9. b64' = "decode"
  BY <1>1, Zenon
<1>. QED
  BY <1>6, <1>7, <1>8, <1>9 DEF CodecInv

LEMMA DecodeRemainderStep == CodecInv /\ B!DecodeRemainder => CodecInv'
<1>. SUFFICES ASSUME CodecInv, B!DecodeRemainder PROVE CodecInv'
  OBVIOUS
<1>. DEFINE D2 == IF Len(tmp) = 0 THEN dec
                  ELSE dec \o SubSeq(B!Octets(B!Padded(tmp, 4)), 1, Len(tmp) - 1)
<1>1. /\ b64 = "decode" /\ B!Stops /\ b64' = "check" /\ j' = j
      /\ source' = source /\ str' = str /\ tmp' = tmp /\ dec' = D2
  BY Zenon DEF B!DecodeRemainder
<1>2. CodecTypes /\ IsDecoding /\ (source # << >> => IsEncoded)
  BY <1>1 DEF CodecInv
<1>3. PICK g \in Nat : DecodingAt(g, str, j, dec, tmp)
  BY <1>2, Zenon DEF IsDecoding
<1>4. D2 \in Seq(B!Octet) /\ DecodedAt(g, str, j, D2, tmp)
  <2>1. /\ str \in Seq(B!Char) /\ dec \in Seq(B!Octet)
        /\ tmp \in Seq(B!Octet) /\ j \in Nat
    BY <1>2, Zenon DEF CodecTypes
  <2>2. j = Len(str) \/ str[j + 1] \notin B!Digit
    BY <1>1, Zenon DEF B!Stops
  <2>. QED
    BY <1>3, <2>1, <2>2, DecodingEnds, Zenon
<1>. HIDE DEF D2
<1>6. CodecTypes'
  BY <1>1, <1>2, <1>4 DEF CodecTypes
<1>7. IsDecoded'
  BY <1>1, <1>4, Zenon DEF IsDecoded
<1>8. source' # << >> => IsEncoded'
  BY <1>1, <1>2, Zenon DEF IsEncoded
<1>. QED
  BY <1>1, <1>6, <1>7, <1>8 DEF CodecInv

LEMMA GenPasswordStep == CodecInv /\ B!gen_password_by_string => CodecInv'
<1>. SUFFICES ASSUME CodecInv, B!gen_password_by_string PROVE CodecInv'
  OBVIOUS
<1>1. /\ b64 = "check" /\ b64' = "done" /\ j' = j
      /\ source' = source /\ str' = str /\ tmp' = tmp /\ dec' = dec
      /\ loaded' \in IF Len(tmp) = 1 /\ dec = <<>> THEN {"rejected", "crashed"}
                      ELSE IF Len(dec) = PASS_LENGTH THEN {"accepted"}
                      ELSE {"rejected"}
  BY Zenon DEF B!gen_password_by_string
<1>2. CodecTypes /\ IsDecoded /\ (source # << >> => IsEncoded)
  BY <1>1 DEF CodecInv
<1>3. CodecTypes'
  BY <1>1, <1>2 DEF CodecTypes
<1>4. IsDecoded' /\ (source' # << >> => IsEncoded')
  BY <1>1, <1>2, Zenon DEF IsDecoded, IsEncoded
<1>5. dec = << >> => Len(dec) # PASS_LENGTH
  BY PassLengthAssumption
<1>6. /\ loaded' = "accepted" <=> Len(dec) = PASS_LENGTH
      /\ loaded' = "crashed" => Len(tmp) = 1 /\ dec = << >>
  <2>1. CASE Len(tmp) = 1 /\ dec = << >>
    BY <1>1, <1>5, <2>1
  <2>2. CASE ~(Len(tmp) = 1 /\ dec = << >>)
    BY <1>1, <2>2
  <2>. QED
    BY <2>1, <2>2
<1>7. /\ loaded' = "accepted" <=> Len(dec)' = PASS_LENGTH
      /\ loaded' = "crashed" => Len(tmp)' = 1 /\ dec' = << >>
  BY <1>1, <1>6, Zenon
<1>. QED
  BY <1>1, <1>3, <1>4, <1>7 DEF CodecInv

LEMMA CodecStays == CodecInv /\ UNCHANGED base64 => CodecInv'
BY DEF CodecInv, CodecTypes, base64, IsEncoding, IsDecoding, IsEncoded, IsDecoded

(* What the invariant says of the bits and of the password.                 *)
LEMMA CodecEncodes == CodecInv => EncodesBits
<1>. SUFFICES ASSUME CodecInv, b64 = "decode", source # << >>
              PROVE  LET bits == 8 * Len(source) IN
                     /\ B!Leading = (bits + 5) \div 6
                     /\ Len(str) = 4 * ((Len(source) + 2) \div 3)
                     /\ \A k \in B!Leading + 1 .. Len(str) : str[k] = B!Pad
                     /\ \A k \in 1 .. 6 * B!Leading :
                          B!Bit(str, 6, k) = IF k <= bits THEN B!Bit(source, 8, k) ELSE 0
  BY DEF EncodesBits, B!EncodesBits
<1>1. source \in Seq(B!Octet) /\ str \in Seq(B!Char) /\ IsEncoded
  BY DEF CodecInv, CodecTypes
<1>2. PICK g \in Nat, r \in Nat : r <= 2 /\ EncodedAt(g, r, source, str)
  BY <1>1, Zenon DEF IsEncoded
<1>. DEFINE L == Digits(g, r)
<1>3. /\ L \in 0 .. Len(str)
      /\ \A k \in 1 .. L : str[k] \in B!Digit
      /\ \A k \in L + 1 .. Len(str) : str[k] = B!Pad
  BY <1>1, <1>2, EncodedDigits
<1>4. /\ Len(source) = 3 * g + r /\ L = 4 * g + (IF r = 0 THEN 0 ELSE r + 1)
      /\ Len(str) = IF r = 0 THEN 4 * g ELSE 4 * g + 4
  BY <1>2, Zenon DEF Digits, EncodedAt
<1>5. \A k \in 1 .. 6 * L :
        B!Bit(str, 6, k) = IF k <= 8 * Len(source) THEN B!Bit(source, 8, k) ELSE 0
  BY <1>1, <1>2, EncodedBits
<1>. DEFINE n == Len(source)
            e == Len(str)
<1>. HIDE DEF L
<1>6. L \in Nat /\ L <= e /\ (L = e \/ str[L + 1] \notin B!Digit)
  <2>1. e \in Nat
    BY <1>1
  <2>2. L \in Nat /\ L <= e
    <3>1. /\ L = 4 * g + (IF r = 0 THEN 0 ELSE r + 1)
          /\ e = IF r = 0 THEN 4 * g ELSE 4 * g + 4
      BY <1>4
    <3>. HIDE DEF e
    <3>. QED
      BY <1>2, <3>1
  <2>3. L # e => L + 1 \in L + 1 .. e
    <3>. HIDE DEF e
    <3>. QED
      BY <2>1, <2>2
  <2>4. B!Pad \notin B!Digit
    BY DEF B!Pad, B!Digit
  <2>. QED
    BY <1>3, <2>2, <2>3, <2>4, Zenon
<1>7. B!Leading = L
  BY <1>1, <1>3, <1>6, LeadingIs
<1>8. L = (8 * n + 5) \div 6 /\ e = 4 * ((n + 2) \div 3)
  <2>. HIDE DEF n, e
  <2>. QED
    BY <1>2, <1>4 DEF n, e
<1>. QED
  BY <1>3, <1>5, <1>7, <1>8, Zenon

LEMMA DecodedLeading ==
  ASSUME CodecInv, b64 \in {"check", "done"}
  PROVE  /\ B!Leading = j /\ Len(dec) = (6 * j) \div 8
         /\ \A k \in 1 .. 8 * Len(dec) : B!Bit(dec, 8, k) = B!Bit(str, 6, k)
         /\ (Len(tmp) = 1 /\ dec = << >>) => j = 1
<1>1. CodecTypes /\ IsDecoded
  BY DEF CodecInv
<1>2. /\ str \in Seq(B!Char) /\ dec \in Seq(B!Octet)
      /\ tmp \in Seq(B!Octet) /\ j \in Nat
  BY <1>1, Zenon DEF CodecTypes
<1>3. PICK g \in Nat : DecodedAt(g, str, j, dec, tmp)
  BY <1>1, Zenon DEF IsDecoded
<1>4. /\ j = 4 * g + Len(tmp) /\ j <= Len(str)
      /\ \A k \in 1 .. j : str[k] \in B!Digit
      /\ j = Len(str) \/ str[j + 1] \notin B!Digit
      /\ Len(dec) = 3 * g + (IF Len(tmp) = 0 THEN 0 ELSE Len(tmp) - 1)
  BY <1>3, Zenon DEF DecodedAt
<1>5. B!Leading = j
  BY <1>2, <1>4, LeadingIs
<1>6. /\ Len(dec) = (6 * j) \div 8
      /\ \A k \in 1 .. 8 * Len(dec) : B!Bit(dec, 8, k) = B!Bit(str, 6, k)
  BY <1>2, <1>3, DecodedBits
<1>7. (Len(tmp) = 1 /\ dec = << >>) => j = 1
  <2>1. SUFFICES ASSUME Len(tmp) = 1, dec = << >> PROVE j = 1
    OBVIOUS
  <2>2. Len(dec) = 0
    BY <2>1
  <2>3. g = 0
    BY <1>4, <2>1, <2>2
  <2>. QED
    BY <1>4, <2>1, <2>3
<1>. QED
  BY <1>5, <1>6, <1>7, Zenon

LEMMA CodecDecodes == CodecInv => DecodesBits
<1>. SUFFICES ASSUME CodecInv, b64 \in {"check", "done"}
              PROVE  /\ Len(dec) = (6 * B!Leading) \div 8
                     /\ \A k \in 1 .. 8 * Len(dec) : B!Bit(dec, 8, k) = B!Bit(str, 6, k)
  BY DEF DecodesBits, B!DecodesBits
<1>. QED
  BY DecodedLeading, Zenon

LEMMA CodecAccepts == CodecInv => AcceptedIfSizeFits
<1>. SUFFICES ASSUME CodecInv, b64 = "done"
              PROVE  /\ loaded = "accepted" <=> (6 * B!Leading) \div 8 = PASS_LENGTH
                     /\ loaded = "crashed" => B!Leading = 1
  BY DEF AcceptedIfSizeFits, B!AcceptedIfSizeFits
<1>1. /\ loaded = "accepted" <=> Len(dec) = PASS_LENGTH
      /\ loaded = "crashed" => Len(tmp) = 1 /\ dec = << >>
  BY DEF CodecInv
<1>. QED
  BY <1>1, DecodedLeading, Zenon

LEMMA CodecReadsBack ==
  ASSUME CodecInv, b64 = "done", source # << >>
  PROVE  dec = source
<1>1. CodecTypes /\ IsDecoded /\ IsEncoded
  BY DEF CodecInv
<1>2. PICK g \in Nat, r \in Nat : r <= 2 /\ EncodedAt(g, r, source, str)
  BY <1>1, Zenon DEF IsEncoded
<1>3. PICK f \in Nat : DecodedAt(f, str, j, dec, tmp)
  BY <1>1, Zenon DEF IsDecoded
<1>4. /\ source \in Seq(B!Octet) /\ str \in Seq(B!Char)
      /\ dec \in Seq(B!Octet) /\ tmp \in Seq(B!Octet) /\ j \in Nat
  BY <1>1, Zenon DEF CodecTypes
<1>. QED
  BY <1>2, <1>3, <1>4, ReadBack, SMT

-----------------------------------------------------------------------------
(* rand_password: the table stays a permutation.                            *)

ShuffleInv == TypeOK /\ AlwaysPermutation

LEMMA SwapPermutes ==
  ASSUME NEW t \in Table, IsPermutation(t), NEW a \in Byte, NEW b \in Byte
  PROVE  /\ swap(t, a, b) \in Table
         /\ IsPermutation(swap(t, a, b))
<1>1. swap(t, a, b) \in Table
  BY DEF swap, Table
<1>2. \A c \in Byte :
        swap(t, a, b)[c] = IF c = b THEN t[a] ELSE IF c = a THEN t[b] ELSE t[c]
  BY DEF swap, Table
<1>. QED
  BY <1>1, <1>2 DEF IsPermutation

LEMMA ShuffleInit == Init => ShuffleInv
BY PassLengthAssumption
   DEF Init, ShuffleInv, TypeOK, AlwaysPermutation, Table, Byte

LEMMA ShuffleStep == ShuffleInv /\ [Next]_vars => ShuffleInv'
<1>. SUFFICES ASSUME ShuffleInv, [Next]_vars PROVE ShuffleInv'
  OBVIOUS
<1>. USE DEF ShuffleInv
<1>0. PASS_LENGTH \in Nat \ {0}
  BY PassLengthAssumption
<1>1. CASE Fill
  <2>1. i + 1 = PASS_LENGTH => i' = 0
    BY <1>0, <1>1 DEF Fill
  <2>2. i + 1 # PASS_LENGTH => i' = i + 1
    BY <1>0, <1>1 DEF Fill, TypeOK, Byte
  <2>3. i' \in Byte
    BY <1>0, <2>1, <2>2, SMTT(30) DEF TypeOK, Byte
  <2>4. x' \in Table /\ \A c \in Byte : x'[c] = IF c = i THEN i ELSE x[c]
    BY <1>1 DEF Fill, TypeOK, Table
  <2>5. \A c \in Byte : c <= i => x'[c] = c
    BY <1>1, <2>4 DEF Fill, TypeOK, AlwaysPermutation, Byte
  <2>6. TypeOK'
    BY <1>1, <2>3, <2>4 DEF Fill, TypeOK
  <2>7. CASE i + 1 = PASS_LENGTH
    <3>1. \A c \in Byte : x'[c] = c
      BY <1>0, <2>5, <2>7 DEF Byte, TypeOK
    <3>2. pc' = "shuffle" /\ IsPermutation(x')
      BY <1>1, <2>7, <3>1 DEF Fill, IsPermutation
    <3>. QED
      BY <2>6, <3>2 DEF AlwaysPermutation, IsPermutation
  <2>8. CASE i + 1 # PASS_LENGTH
    <3>1. pc' = "fill"
      BY <1>1, <2>8 DEF Fill
    <3>2. \A c \in Byte : c < i' => x'[c] = c
      BY <2>2, <2>5, <2>8 DEF Byte, TypeOK
    <3>. QED
      BY <2>6, <3>1, <3>2 DEF AlwaysPermutation
  <2>. QED
    BY <2>7, <2>8
<1>2. CASE Swap
  <2>1. i' \in Byte
    <3>1. i + 1 = PASS_LENGTH => i' = 0
      BY <1>0, <1>2 DEF Swap
    <3>2. i + 1 # PASS_LENGTH => i' = i + 1
      BY <1>0, <1>2 DEF Swap, TypeOK, Byte
    <3>. QED
      BY <1>0, <3>1, <3>2 DEF TypeOK, Byte
  <2>2. pc = "shuffle" /\ pc' \in {"shuffle", "done"} /\ draws' = draws
    BY <1>2 DEF Swap
  <2>3. x' \in Table /\ IsPermutation(x')
    <3>1. i \in Byte /\ draws[i] \in Byte /\ x \in Table
      BY DEF TypeOK
    <3>2. IsPermutation(x)
      BY <2>2 DEF AlwaysPermutation
    <3>3. x' = swap(x, i, draws[i])
      BY <1>2 DEF Swap
    <3>4. /\ swap(x, i, draws[i]) \in Table
          /\ IsPermutation(swap(x, i, draws[i]))
      BY <3>1, <3>2, SwapPermutes
    <3>. QED
      BY <3>3, <3>4
  <2>. QED
    BY <2>1, <2>2, <2>3 DEF TypeOK, AlwaysPermutation, IsPermutation
<1>3. CASE UNCHANGED vars
  BY <1>3 DEF vars, TypeOK, AlwaysPermutation, IsPermutation
<1>. QED
  BY <1>1, <1>2, <1>3 DEF Next

-----------------------------------------------------------------------------
(* The whole way of a password.                                             *)

(* The password is a table of bytes: it can be given to b64_encode.         *)
Copy == [k \in 1 .. PASS_LENGTH |-> x[k - 1]]

Copied == (pc = "done" /\ b64 # "idle") => source = Copy

AsWritten == string # << >> => string \in Seq(1 .. 255) /\ text = json_serialize_string(string)

PasswordInv == ShuffleInv /\ CodecInv /\ Copied /\ AsWritten

LEMMA CopyIsSource ==
  ASSUME ShuffleInv
  PROVE  /\ Copy \in Seq(B!Octet) /\ Len(Copy) = PASS_LENGTH
         /\ \A b \in Byte : Copy[b + 1] = x[b]
<1>. DEFINE n == PASS_LENGTH
<1>1. n \in Nat /\ n # 0 /\ n <= 256
  BY PassLengthAssumption, PasswordStringAssumption
<1>2. x \in [Byte -> Byte] /\ Byte = 0 .. n - 1
  BY DEF ShuffleInv, TypeOK, Table, Byte
<1>. HIDE DEF n
<1>3. /\ Byte \subseteq B!Octet
      /\ \A k \in 1 .. n : k - 1 \in Byte
      /\ \A b \in Byte : b + 1 \in 1 .. n /\ (b + 1) - 1 = b
  BY <1>1, <1>2 DEF B!Octet
<1>4. \A k \in 1 .. n : x[k - 1] \in B!Octet
  <2>1. \A b \in Byte : x[b] \in B!Octet
    BY <1>2, <1>3, Zenon
  <2>. QED
    BY <1>3, <2>1, Zenon
<1>5. Copy = [k \in 1 .. n |-> x[k - 1]]
  BY DEF Copy, n
<1>6. Copy \in Seq(B!Octet) /\ Len(Copy) = n
  BY <1>1, <1>4, <1>5
<1>7. \A b \in Byte : Copy[b + 1] = x[b]
  BY <1>3, <1>5
<1>. QED
  BY <1>6, <1>7 DEF n

LEMMA CharOfASCII ==
  ASSUME NEW char \in B!Char
  PROVE  ASCII(char) \in 1 .. 255 /\ CharOf(ASCII(char)) = char
<1>1. \A c \in B!Char :
        /\ c \in 0 .. 25 => ASCII(c) = 65 + c
        /\ c \in 26 .. 51 => ASCII(c) = 71 + c
        /\ c \in 52 .. 61 => ASCII(c) = c - 4
        /\ c = 62 => ASCII(c) = 43
        /\ c = 63 => ASCII(c) = 47
        /\ c = 64 => ASCII(c) = 61
        /\ c = 65 => ASCII(c) = 32
  BY DEF ASCII, B!Pad
<1>2. \A c \in B!Char : c \in 0 .. 65
  BY DEF B!Char, B!Digit, B!Pad
<1>3. \A c \in B!Char : ASCII(c) \in 1 .. 255
  BY <1>1, <1>2
<1>4. \A c, d \in B!Char : ASCII(c) = ASCII(d) => c = d
  BY <1>1, <1>2
<1>. QED
  BY <1>3, <1>4 DEF CharOf

LEMMA PasswordStarts == PasswordInit => PasswordInv
<1>. SUFFICES ASSUME PasswordInit PROVE PasswordInv
  OBVIOUS
<1>. USE DEF Copied, AsWritten
<1>1. ASSUME NoPassword
      PROVE  ShuffleInv /\ pc = "fill"
  BY <1>1, PassLengthAssumption
     DEF NoPassword, ShuffleInv, TypeOK, AlwaysPermutation, Table, Byte
<1>2. ASSUME NEW state \in {"idle", "none"}, NoBase64(state)
      PROVE  CodecInv
  BY <1>2 DEF NoBase64, CodecInv, CodecTypes
<1>3. CASE Init /\ NoBase64("idle") /\ string = << >> /\ text = << >>
  BY <1>2, <1>3, ShuffleInit DEF PasswordInv, Init
<1>4. CASE NoPassword /\ B!Init /\ string = << >> /\ text = << >>
  <2>1. CASE b64 = "encode" /\ source \in Sources /\ str = << >>
    <3>1. /\ source \in Seq(B!Octet) /\ dec = << >> /\ tmp = << >> /\ j = 0
      BY <1>4, <2>1, PasswordStringAssumption DEF B!Init
    <3>2. EncodingAt(0, source, j, str, tmp)
      BY <2>1, <3>1, EncodingStarts, Zenon
    <3>3. IsEncoding
      BY <3>2 DEF IsEncoding
    <3>4. CodecTypes
      BY <2>1, <3>1 DEF CodecTypes
    <3>5. CodecInv
      BY <2>1, <3>1, <3>3, <3>4 DEF CodecInv
    <3>. QED
      BY <1>1, <1>4, <3>5 DEF PasswordInv
  <2>2. CASE b64 = "decode" /\ source = << >> /\ str \in Noise
    <3>1. /\ str \in Seq(B!Char) /\ dec = << >> /\ tmp = << >> /\ j = 0
      BY <1>4, <2>2, PasswordStringAssumption DEF B!Init
    <3>2. DecodingAt(0, str, j, dec, tmp)
      BY <3>1, DecodingStarts, Zenon
    <3>3. IsDecoding
      BY <3>2 DEF IsDecoding
    <3>4. CodecTypes
      BY <2>2, <3>1 DEF CodecTypes
    <3>5. CodecInv
      BY <2>2, <3>3, <3>4 DEF CodecInv
    <3>. QED
      BY <1>1, <1>4, <3>5 DEF PasswordInv
  <2>. QED
    BY <1>4, <2>1, <2>2 DEF B!Init
<1>5. CASE /\ NoPassword /\ NoBase64("none")
           /\ \/ string \in Strings /\ text = json_serialize_string(string)
              \/ string = << >> /\ text \in Texts
  BY <1>1, <1>2, <1>5, PasswordStringAssumption DEF PasswordInv
<1>. QED
  BY <1>3, <1>4, <1>5 DEF PasswordInit

LEMMA RandPasswordKeeps == PasswordInv /\ RandPassword => PasswordInv'
<1>. SUFFICES ASSUME PasswordInv, RandPassword PROVE PasswordInv'
  OBVIOUS
<1>1. /\ b64 = "idle" /\ Next /\ UNCHANGED base64 /\ UNCHANGED json
      /\ ShuffleInv /\ CodecInv /\ AsWritten
  BY DEF RandPassword, PasswordInv
<1>2. ShuffleInv' /\ CodecInv'
  BY <1>1, ShuffleStep, CodecStays, Zenon
<1>3. b64' = "idle" /\ string' = string /\ text' = text
  BY <1>1 DEF base64, json
<1>4. AsWritten'
  BY <1>1, <1>3 DEF AsWritten
<1>. QED
  BY <1>2, <1>3, <1>4 DEF PasswordInv, Copied

LEMMA PasswordStringKeeps == PasswordInv /\ password_string => PasswordInv'
<1>. SUFFICES ASSUME PasswordInv, password_string PROVE PasswordInv'
  OBVIOUS
<1>1. /\ pc = "done" /\ b64 = "idle" /\ b64' = "encode" /\ source' = Copy
      /\ str' = str /\ dec' = dec /\ tmp' = tmp /\ j' = j
      /\ pc' = pc /\ x' = x /\ draws' = draws /\ i' = i
      /\ string' = string /\ text' = text
      /\ ShuffleInv /\ CodecInv /\ AsWritten
  BY DEF password_string, PasswordInv, Copy, vars, json
<1>2. CodecTypes /\ str = << >> /\ dec = << >> /\ tmp = << >> /\ j = 0
  BY <1>1 DEF CodecInv
<1>3. Copy \in Seq(B!Octet)
  BY <1>1, CopyIsSource, Zenon
<1>4. CodecTypes'
  BY <1>1, <1>2, <1>3 DEF CodecTypes
<1>5. EncodingAt(0, Copy, 0, << >>, << >>)
  BY <1>3, EncodingStarts, Zenon
<1>6. 0 \in Nat
  OBVIOUS
<1>7. IsEncoding'
  BY <1>1, <1>2, <1>5, <1>6, Zenon DEF IsEncoding
<1>8. CodecInv'
  BY <1>1, <1>2, <1>4, <1>7 DEF CodecInv
<1>9. ShuffleInv'
  BY <1>1 DEF ShuffleInv, TypeOK, AlwaysPermutation, IsPermutation
<1>10. Copied'
  BY <1>1 DEF Copied, Copy
<1>11. AsWritten'
  BY <1>1 DEF AsWritten
<1>. QED
  BY <1>8, <1>9, <1>10, <1>11 DEF PasswordInv

LEMMA ConfiguredKeeps == PasswordInv /\ Configured => PasswordInv'
<1>. SUFFICES ASSUME PasswordInv, Configured PROVE PasswordInv'
  OBVIOUS
<1>. DEFINE chars == [k \in DOMAIN str |-> ASCII(str[k])]
            Back(s) == [k \in DOMAIN s |-> CharOf(s[k])]
<1>1. /\ ShuffleInv /\ CodecInv /\ Copied
      /\ string' = chars /\ text' = json_serialize_string(string')
      /\ source' = source /\ dec' = dec /\ tmp' = tmp /\ j' = j
      /\ UNCHANGED vars
  BY DEF Configured, PasswordInv
<1>2. str \in Seq(B!Char)
  BY <1>1 DEF CodecInv, CodecTypes
<1>3. chars \in Seq(1 .. 255) /\ Back(chars) = str
  <2>1. \A k \in DOMAIN str : str[k] \in B!Char
    BY <1>2
  <2>2. \A k \in DOMAIN str : chars[k] \in 1 .. 255 /\ CharOf(chars[k]) = str[k]
    BY <2>1, CharOfASCII
  <2>3. DOMAIN chars = DOMAIN str /\ DOMAIN str = 1 .. Len(str) /\ Len(str) \in Nat
    BY <1>2
  <2>4. chars \in Seq(1 .. 255)
    BY <2>2, <2>3
  <2>5. Back(chars) = [k \in DOMAIN str |-> str[k]]
    BY <2>2, <2>3
  <2>. QED
    BY <1>2, <2>4, <2>5
<1>4. get_quoted_string(text') = {string'}
  <2>1. get_quoted_string(json_serialize_string(chars)) = {chars}
    BY <1>3, QuotedReadBack
  <2>. QED
    BY <1>1, <2>1, Zenon
<1>. HIDE DEF chars, Back
<1>5. b64' = b64 /\ loaded' = loaded /\ str' = str
  <2>1. /\ \E s \in get_quoted_string(text') : str' = Back(s)
        /\ b64' = b64 /\ loaded' = loaded
    BY <1>4 DEF Configured, Back
  <2>. QED
    BY <1>1, <1>3, <1>4, <2>1
<1>6. CodecInv'
  BY <1>1, <1>5, CodecStays DEF base64
<1>7. ShuffleInv'
  BY <1>1 DEF ShuffleInv, TypeOK, AlwaysPermutation, IsPermutation, vars
<1>8. Copied'
  BY <1>1, <1>5 DEF Copied, Copy, vars
<1>9. AsWritten'
  BY <1>1, <1>3 DEF AsWritten
<1>. QED
  BY <1>6, <1>7, <1>8, <1>9 DEF PasswordInv

LEMMA CodesKeeps == PasswordInv /\ Codes => PasswordInv'
<1>. SUFFICES ASSUME PasswordInv, Codes PROVE PasswordInv'
  OBVIOUS
<1>1. /\ ShuffleInv /\ CodecInv /\ Copied /\ AsWritten
      /\ B!Next /\ UNCHANGED vars /\ UNCHANGED json
  BY DEF Codes, PasswordInv
<1>2. CodecInv' /\ source' = source /\ b64 # "idle"
  <2>1. CASE B!EncodeByte
    BY <1>1, <2>1, EncodeByteStep DEF B!EncodeByte
  <2>2. CASE B!EncodeRemainder
    BY <1>1, <2>2, EncodeRemainderStep DEF B!EncodeRemainder
  <2>3. CASE B!DecodeChar
    BY <1>1, <2>3, DecodeCharStep DEF B!DecodeChar
  <2>4. CASE B!DecodeRemainder
    BY <1>1, <2>4, DecodeRemainderStep DEF B!DecodeRemainder
  <2>5. CASE B!gen_password_by_string
    BY <1>1, <2>5, GenPasswordStep DEF B!gen_password_by_string
  <2>. QED
    BY <1>1, <2>1, <2>2, <2>3, <2>4, <2>5 DEF B!Next
<1>3. ShuffleInv'
  BY <1>1 DEF ShuffleInv, TypeOK, AlwaysPermutation, IsPermutation, vars
<1>4. Copied'
  BY <1>1, <1>2 DEF Copied, Copy, vars
<1>5. AsWritten'
  BY <1>1 DEF AsWritten, json
<1>. QED
  BY <1>2, <1>3, <1>4, <1>5 DEF PasswordInv

LEMMA PasswordStays ==
  PasswordInv /\ UNCHANGED <<vars, base64, json>> => PasswordInv'
<1>. SUFFICES ASSUME PasswordInv, UNCHANGED <<vars, base64, json>> PROVE PasswordInv'
  OBVIOUS
<1>1. ShuffleInv' /\ Copied' /\ AsWritten'
  BY DEF PasswordInv, ShuffleInv, TypeOK, AlwaysPermutation, IsPermutation, Copied, Copy,
         AsWritten, vars, base64, json
<1>2. CodecInv'
  BY CodecStays DEF PasswordInv
<1>. QED
  BY <1>1, <1>2 DEF PasswordInv

(* The invariant of every run: the theorems below follow from it.            *)
THEOREM PasswordSpecInv == PasswordSpec => []PasswordInv
<1>1. PasswordInv /\ [PasswordNext]_<<vars, base64, json>> => PasswordInv'
  BY RandPasswordKeeps, PasswordStringKeeps, ConfiguredKeeps, CodesKeeps, PasswordStays
     DEF PasswordNext
<1>. QED
  BY PasswordStarts, <1>1, PTL DEF PasswordSpec

LEMMA InvReadsBack == PasswordInv => PasswordReadBack
<1>. SUFFICES ASSUME PasswordInv, b64 = "done", Len(source) = PASS_LENGTH
              PROVE  /\ loaded = "accepted" /\ dec = source
                     /\ pc = "done" => \A b \in Byte : dec[b + 1] = x[b]
  BY DEF PasswordReadBack
<1>1. ShuffleInv /\ CodecInv /\ Copied
  BY DEF PasswordInv
<1>2. source # << >>
  BY PassLengthAssumption
<1>3. dec = source
  BY <1>1, <1>2, CodecReadsBack, SMT
<1>4. loaded = "accepted"
  BY <1>1, <1>3 DEF CodecInv
<1>5. pc = "done" => source = Copy
  BY <1>1 DEF Copied
<1>. QED
  BY <1>1, <1>3, <1>4, <1>5, CopyIsSource, Zenon

LEMMA InvStringReadBack == PasswordInv => StringReadBack
BY QuotedReadBack DEF PasswordInv, AsWritten, StringReadBack

-----------------------------------------------------------------------------
(* rand_password yields a permutation, for every PASS_LENGTH and whatever   *)
(* rand() returns, so every generated password can be decoded               *)
(* (password.c:52-61).                                                      *)
THEOREM RandPasswordIsPermutation == Spec => []AlwaysPermutation
<1>1. ShuffleInv => AlwaysPermutation
  BY DEF ShuffleInv
<1>. QED
  BY ShuffleInit, ShuffleStep, <1>1, PTL DEF Spec

(* b64_encode regroups the bits of any byte string by six                   *)
(* (base64.c:131-206).                                                      *)
THEOREM EncoderKeepsBits == PasswordSpec => []EncodesBits
<1>1. PasswordInv => EncodesBits
  BY CodecEncodes DEF PasswordInv
<1>. QED
  BY PasswordSpecInv, <1>1, PTL

(* b64_decode_ex regroups by eight the bits of the leading digits of any    *)
(* string, and forgets what does not fill a byte (base64.c:20-129).         *)
THEOREM DecoderKeepsBits == PasswordSpec => []DecodesBits
<1>1. PasswordInv => DecodesBits
  BY CodecDecodes DEF PasswordInv
<1>. QED
  BY PasswordSpecInv, <1>1, PTL

(* gen_password_by_string accepts a string exactly when its leading digits  *)
(* hold PASS_LENGTH bytes (password.c:29-31).                               *)
THEOREM AcceptsBySize == PasswordSpec => []AcceptedIfSizeFits
<1>1. PasswordInv => AcceptedIfSizeFits
  BY CodecAccepts DEF PasswordInv
<1>. QED
  BY PasswordSpecInv, <1>1, PTL

(* Whatever password is written in base64 and put into a configuration file *)
(* is read from there as it was and accepted (password_test.c:31-37).       *)
THEOREM PasswordIsReadBack == PasswordSpec => []PasswordReadBack
<1>1. PasswordInv => PasswordReadBack
  BY InvReadsBack
<1>. QED
  BY PasswordSpecInv, <1>1, PTL

(* Whatever string of bytes parson writes between quotes it reads as it was *)
(* (parson.c:493-627, 945-1003).                                            *)
THEOREM StringIsReadBack == PasswordSpec => []StringReadBack
<1>1. PasswordInv => StringReadBack
  BY InvStringReadBack
<1>. QED
  BY PasswordSpecInv, <1>1, PTL
=============================================================================
