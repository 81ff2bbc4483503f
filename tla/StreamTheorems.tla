--------------------------- MODULE StreamTheorems ---------------------------
(***************************************************************************)
(* Facts about bytes that hold for every PASS_LENGTH and every table: about *)
(* the cipher, about prefixes, and about one direction of a relay: what has *)
(* been heard, the output buffer, the input buffer and the wire, for any   *)
(* table x that is applied between the input and the output.               *)
(***************************************************************************)
EXTENDS Password, SequencesExt, SequenceTheorems, TLAPS

(* encode_data changes no length and applies the table to each byte, on the *)
(* spot (password.c:66-70).                                                 *)
LEMMA EncodeData ==
  ASSUME NEW x \in Table, NEW s \in Seq(Byte)
  PROVE  /\ encode_data(s, x) \in Seq(Byte)
         /\ Len(encode_data(s, x)) = Len(s)
         /\ \A i \in 1 .. Len(s) : encode_data(s, x)[i] = x[s[i]]
<1>1. /\ Len(s) \in Nat /\ DOMAIN s = 1 .. Len(s)
      /\ \A i \in 1 .. Len(s) : s[i] \in Byte
  BY LenProperties, ElementOfSeq
<1>2. \A i \in 1 .. Len(s) : x[s[i]] \in Byte
  BY <1>1 DEF Table
<1>. QED
  BY <1>1, <1>2 DEF encode_data

(* Encoding piece by piece is encoding the whole.                           *)
LEMMA EncodeConcat ==
  ASSUME NEW x \in Table, NEW s \in Seq(Byte), NEW t \in Seq(Byte)
  PROVE  encode_data(s \o t, x) = encode_data(s, x) \o encode_data(t, x)
<1>. DEFINE st == s \o t
            es == encode_data(s, x)
            et == encode_data(t, x)
            l == encode_data(st, x)
            r == es \o et
<1>1. /\ st \in Seq(Byte) /\ Len(st) = Len(s) + Len(t)
      /\ Len(s) \in Nat /\ Len(t) \in Nat
      /\ \A i \in 1 .. Len(s) + Len(t) :
           st[i] = IF i <= Len(s) THEN s[i] ELSE t[i - Len(s)]
  BY ConcatProperties, LenProperties
<1>2. /\ es \in Seq(Byte) /\ Len(es) = Len(s)
      /\ \A i \in 1 .. Len(s) : es[i] = x[s[i]]
  BY EncodeData
<1>3. /\ et \in Seq(Byte) /\ Len(et) = Len(t)
      /\ \A i \in 1 .. Len(t) : et[i] = x[t[i]]
  BY EncodeData
<1>. HIDE DEF st, es, et
<1>4. /\ l \in Seq(Byte) /\ Len(l) = Len(st)
      /\ \A i \in 1 .. Len(st) : l[i] = x[st[i]]
  BY <1>1, EncodeData
<1>5. /\ r \in Seq(Byte) /\ Len(r) = Len(es) + Len(et)
      /\ \A i \in 1 .. Len(es) + Len(et) :
           r[i] = IF i <= Len(es) THEN es[i] ELSE et[i - Len(es)]
  <2>1. es \in Seq(Byte) /\ et \in Seq(Byte)
    BY <1>2, <1>3
  <2>. QED
    BY <2>1, ConcatProperties, ZenonT(30)
<1>. HIDE DEF l, r
<1>6. \A i \in 1 .. Len(l) : l[i] = r[i]
  <2>. SUFFICES ASSUME NEW i \in 1 .. Len(s) + Len(t) PROVE l[i] = r[i]
    BY <1>1, <1>4
  <2>1. l[i] = x[st[i]]
    BY <1>1, <1>4
  <2>2. r[i] = IF i <= Len(s) THEN es[i] ELSE et[i - Len(s)]
    BY <1>2, <1>3, <1>5
  <2>3. CASE i <= Len(s)
    <3>1. i \in 1 .. Len(s)
      BY <2>3, <1>1
    <3>2. es[i] = x[s[i]]
      BY <3>1, <1>2
    <3>3. st[i] = s[i]
      BY <2>3, <1>1
    <3>. QED
      BY <2>1, <2>2, <2>3, <3>2, <3>3
  <2>4. CASE ~(i <= Len(s))
    <3>1. i - Len(s) \in 1 .. Len(t)
      BY <2>4, <1>1
    <3>2. et[i - Len(s)] = x[t[i - Len(s)]]
      BY <3>1, <1>3
    <3>3. st[i] = t[i - Len(s)]
      BY <2>4, <1>1
    <3>. QED
      BY <2>1, <2>2, <2>4, <3>2, <3>3
  <2>. QED
    BY <2>3, <2>4
<1>7. l = r
  BY <1>1, <1>2, <1>3, <1>4, <1>5, <1>6, SeqEqual
<1>. QED
  BY <1>7 DEF l, r, st, es, et

LEMMA EncodeEmpty ==
  ASSUME NEW x
  PROVE  encode_data(<<>>, x) = <<>>
BY DEF encode_data

LEMMA DecodeTableType ==
  ASSUME NEW x
  PROVE  DecodeTable(x) \in Table
<1>. DEFINE last(b) ==
              {i \in Byte : x[i] = b /\ \A j \in Byte : x[j] = b => j <= i}
            entry(b) == IF last(b) = {} THEN 0 ELSE CHOOSE i \in last(b) : TRUE
<1>1. ASSUME NEW b \in Byte PROVE entry(b) \in Byte
  <2>1. 0 \in Byte
    BY PassLengthAssumption DEF Byte
  <2>2. last(b) # {} => (CHOOSE i \in last(b) : TRUE) \in last(b)
    BY ZenonT(30)
  <2>3. last(b) \subseteq Byte
    OBVIOUS
  <2>. QED
    BY <2>1, <2>2, <2>3
<1>2. DecodeTable(x) = [b \in Byte |-> entry(b)]
  BY DEF DecodeTable
<1>. QED
  BY <1>1, <1>2 DEF Table

(* The entry decode_data computes for the code of a byte is that byte,      *)
(* exactly when the byte is the last one with this code.                    *)
LEMMA DecodeTableInverts ==
  ASSUME NEW x \in Table, NEW b \in Byte,
         \A j \in Byte : x[j] = x[b] => j <= b
  PROVE  DecodeTable(x)[x[b]] = b
<1>. DEFINE last == {i \in Byte : x[i] = x[b]
                                   /\ \A j \in Byte : x[j] = x[b] => j <= i}
<1>1. x[b] \in Byte
  BY DEF Table
<1>2. last = {b}
  <2>1. b \in last
    OBVIOUS
  <2>2. \A i \in last : i = b
    BY <2>1 DEF Byte
  <2>. QED
    BY <2>1, <2>2
<1>. HIDE DEF last
<1>3. DecodeTable(x)[x[b]] = IF last = {} THEN 0 ELSE CHOOSE i \in last : TRUE
  BY <1>1 DEF DecodeTable, last
<1>. QED
  BY <1>2, <1>3

(* With a permutation for a password, decode_data undoes encode_data.       *)
THEOREM DecodeEncode ==
  ASSUME NEW x \in Table, IsPermutation(x), NEW s \in Seq(Byte)
  PROVE  decode_data(encode_data(s, x), x) = s
<1>. DEFINE d == DecodeTable(x)
            e == encode_data(s, x)
            r == encode_data(e, d)
<1>0. d \in Table
  BY DecodeTableType
<1>1. /\ e \in Seq(Byte) /\ Len(e) = Len(s)
      /\ \A i \in 1 .. Len(s) : e[i] = x[s[i]]
  BY EncodeData
<1>. HIDE DEF d, e
<1>2. /\ r \in Seq(Byte) /\ Len(r) = Len(e)
      /\ \A i \in 1 .. Len(e) : r[i] = d[e[i]]
  BY <1>0, <1>1, EncodeData
<1>. HIDE DEF r
<1>3. \A b \in Byte : d[x[b]] = b
  <2>. SUFFICES ASSUME NEW b \in Byte PROVE d[x[b]] = b
    OBVIOUS
  <2>1. \A j \in Byte : x[j] = x[b] => j <= b
    BY DEF IsPermutation, Byte
  <2>. QED
    BY <2>1, DecodeTableInverts DEF d
<1>4. \A i \in 1 .. Len(s) : s[i] \in Byte
  BY ElementOfSeq
<1>5. \A i \in 1 .. Len(r) : r[i] = s[i]
  BY <1>1, <1>2, <1>3, <1>4
<1>6. r = s
  BY <1>1, <1>2, <1>5, SeqEqual
<1>. QED
  BY <1>6 DEF decode_data, r, d, e
-----------------------------------------------------------------------------
LEMMA Assoc ==
  ASSUME NEW a \in Seq(Byte), NEW b \in Seq(Byte), NEW c \in Seq(Byte)
  PROVE  (a \o b) \o c = a \o (b \o c)
BY ConcatAssociative

LEMMA Joined ==
  ASSUME NEW a \in Seq(Byte), NEW b \in Seq(Byte)
  PROVE  a \o b \in Seq(Byte)
BY ConcatProperties

LEMMA JoinedNotEmpty ==
  ASSUME NEW a \in Seq(Byte), NEW b \in Seq(Byte), b # <<>>
  PROVE  a \o b # <<>>
BY ConcatEqualIffEmpty, EmptySeq

LEMMA EncodeNotEmpty ==
  ASSUME NEW x \in Table, NEW s \in Seq(Byte), s # <<>>
  PROVE  encode_data(s, x) # <<>>
<1>. DEFINE e == encode_data(s, x)
<1>1. e \in Seq(Byte) /\ Len(e) = Len(s)
  BY EncodeData
<1>. HIDE DEF e
<1>2. Len(s) # 0 /\ Len(<<>>) = 0
  BY EmptySeq
<1>. QED
  BY <1>1, <1>2 DEF e

(* A prefix is what some rest completes to the whole.                       *)
LEMMA PrefixIntro ==
  ASSUME NEW s \in Seq(Byte), NEW t \in Seq(Byte)
  PROVE  IsPrefix(s, s \o t)
<1>. DEFINE u == s \o t
<1>1. /\ u \in Seq(Byte) /\ Len(u) = Len(s) + Len(t)
      /\ Len(s) \in Nat /\ Len(t) \in Nat
      /\ \A i \in 1 .. Len(s) : u[i] = s[i]
  BY ConcatProperties, LenProperties
<1>2. SubSeq(s, 1, Len(s)) = s
  BY SubSeqFull
<1>. HIDE DEF u
<1>3. SubSeq(u, 1, Len(s)) = s
  <2>. DEFINE v == SubSeq(u, 1, Len(s))
  <2>1. \A i \in 1 .. Len(s) : u[i] \in Byte
    BY <1>1, ElementOfSeq
  <2>2. /\ v \in Seq(Byte) /\ Len(v) = Len(s)
        /\ \A i \in 1 .. Len(s) : v[i] = u[i]
    BY <1>1, <2>1, SubSeqProperties
  <2>. HIDE DEF v
  <2>3. v = s
    BY <1>1, <2>2, SeqEqual, SMTT(30)
  <2>. QED
    BY <2>3 DEF v
<1>4. IsPrefix(s, u)
  BY <1>1, <1>2, <1>3 DEF IsPrefix
<1>. QED
  BY <1>4 DEF u

LEMMA Split ==
  ASSUME NEW s \in Seq(Byte), NEW k \in 0 .. Len(s)
  PROVE  /\ SubSeq(s, 1, k) \in Seq(Byte)
         /\ SubSeq(s, k + 1, Len(s)) \in Seq(Byte)
         /\ s = SubSeq(s, 1, k) \o SubSeq(s, k + 1, Len(s))
         /\ Len(SubSeq(s, 1, k)) = k
<1>1. /\ Len(s) \in Nat /\ k \in Nat /\ k <= Len(s)
      /\ \A i \in 1 .. Len(s) : s[i] \in Byte
  BY LenProperties, ElementOfSeq
<1>2. SubSeq(s, 1, k) \in Seq(Byte) /\ Len(SubSeq(s, 1, k)) = k
  BY <1>1, SubSeqProperties
<1>3. SubSeq(s, k + 1, Len(s)) \in Seq(Byte)
  BY <1>1, SubSeqProperties
<1>4. /\ 1 \in 1 .. Len(s) + 1 /\ k \in 1 - 1 .. Len(s)
      /\ Len(s) \in k .. Len(s)
  BY <1>1
<1>5. SubSeq(s, 1, k) \o SubSeq(s, k + 1, Len(s)) = SubSeq(s, 1, Len(s))
  BY <1>4, ConcatAdjacentSubSeq
<1>6. SubSeq(s, 1, Len(s)) = s
  BY SubSeqFull
<1>. QED
  BY <1>2, <1>3, <1>5, <1>6

LEMMA PrefixElim ==
  ASSUME NEW s \in Seq(Byte), NEW t \in Seq(Byte), IsPrefix(s, t)
  PROVE  \E u \in Seq(Byte) : t = s \o u
<1>1. /\ Len(s) \in 0 .. Len(t)
      /\ SubSeq(s, 1, Len(s)) = SubSeq(t, 1, Len(s))
  BY LenProperties DEF IsPrefix
<1>2. SubSeq(s, 1, Len(s)) = s
  BY SubSeqFull
<1>3. /\ SubSeq(t, Len(s) + 1, Len(t)) \in Seq(Byte)
      /\ t = SubSeq(t, 1, Len(s)) \o SubSeq(t, Len(s) + 1, Len(t))
  BY <1>1, Split
<1>. QED
  BY <1>1, <1>2, <1>3

LEMMA PrefixTrans ==
  ASSUME NEW s \in Seq(Byte), NEW t \in Seq(Byte), NEW v \in Seq(Byte),
         IsPrefix(s \o t, v)
  PROVE  IsPrefix(s, v)
<1>1. s \o t \in Seq(Byte)
  BY ConcatProperties
<1>2. PICK u \in Seq(Byte) : v = (s \o t) \o u
  BY <1>1, PrefixElim
<1>3. v = s \o (t \o u)
  <2>1. (s \o t) \o u = s \o (t \o u)
    BY Assoc
  <2>. QED
    BY <1>2, <2>1
<1>4. t \o u \in Seq(Byte)
  BY <1>2, ConcatProperties
<1>. QED
  BY <1>3, <1>4, PrefixIntro

LEMMA PrefixGrows ==
  ASSUME NEW s \in Seq(Byte), NEW t \in Seq(Byte), NEW v \in Seq(Byte),
         IsPrefix(s, v)
  PROVE  IsPrefix(s, v \o t)
<1>1. PICK u \in Seq(Byte) : v = s \o u
  BY PrefixElim
<1>2. v \o t = s \o (u \o t)
  BY <1>1, Assoc
<1>3. u \o t \in Seq(Byte)
  BY <1>1, ConcatProperties
<1>. QED
  BY <1>2, <1>3, PrefixIntro

LEMMA EncodePart ==
  ASSUME NEW x \in Table, NEW s \in Seq(Byte), NEW k \in 0 .. Len(s)
  PROVE  encode_data(SubSeq(s, 1, k), x) = SubSeq(encode_data(s, x), 1, k)
<1>. DEFINE p == SubSeq(s, 1, k)
            e == encode_data(s, x)
            l == encode_data(p, x)
            r == SubSeq(e, 1, k)
<1>1. /\ Len(s) \in Nat /\ k \in Nat /\ k <= Len(s)
      /\ \A i \in 1 .. Len(s) : s[i] \in Byte
  BY LenProperties, ElementOfSeq
<1>2. /\ p \in Seq(Byte) /\ Len(p) = k
      /\ \A i \in 1 .. k : p[i] = s[i]
  BY <1>1, SubSeqProperties
<1>3. /\ e \in Seq(Byte) /\ Len(e) = Len(s)
      /\ \A i \in 1 .. Len(s) : e[i] = x[s[i]]
  BY EncodeData
<1>. HIDE DEF p, e
<1>4. /\ l \in Seq(Byte) /\ Len(l) = k
      /\ \A i \in 1 .. k : l[i] = x[p[i]]
  BY <1>2, EncodeData
<1>5. /\ r \in Seq(Byte) /\ Len(r) = k
      /\ \A i \in 1 .. k : r[i] = e[i]
  <2>1. \A i \in 1 .. k : e[i] \in Byte
    BY <1>1, <1>3, ElementOfSeq
  <2>. QED
    BY <1>1, <2>1, SubSeqProperties
<1>6. \A i \in 1 .. k : l[i] = r[i]
  BY <1>1, <1>2, <1>3, <1>4, <1>5
<1>. HIDE DEF l, r
<1>7. l = r
  BY <1>4, <1>5, <1>6, SeqEqual
<1>. QED
  BY <1>7 DEF l, r, p, e
-----------------------------------------------------------------------------
(* Concatenation under another name: the provers apply the facts below and  *)
(* nothing else they know of sequences.                                     *)
Cat(a, b) == a \o b

LEMMA CatSeq ==
  ASSUME NEW a \in Seq(Byte), NEW b \in Seq(Byte)
  PROVE  Cat(a, b) \in Seq(Byte)
BY Joined DEF Cat

LEMMA CatAssoc ==
  ASSUME NEW a \in Seq(Byte), NEW b \in Seq(Byte), NEW c \in Seq(Byte)
  PROVE  Cat(Cat(a, b), c) = Cat(a, Cat(b, c))
BY Assoc DEF Cat

LEMMA CatEncode ==
  ASSUME NEW x \in Table, NEW a \in Seq(Byte), NEW b \in Seq(Byte)
  PROVE  encode_data(Cat(a, b), x)
           = Cat(encode_data(a, x), encode_data(b, x))
BY EncodeConcat DEF Cat

LEMMA EncodeSeq ==
  ASSUME NEW x \in Table, NEW s \in Seq(Byte)
  PROVE  encode_data(s, x) \in Seq(Byte)
BY EncodeData

(* Moving a part from the head of w to the tail of i.                       *)
LEMMA Moved ==
  ASSUME NEW i \in Seq(Byte), NEW w \in Seq(Byte), NEW k \in 0 .. Len(w)
  PROVE  Cat(i \o SubSeq(w, 1, k), SubSeq(w, k + 1, Len(w))) = Cat(i, w)
<1>. DEFINE p == SubSeq(w, 1, k)
            q == SubSeq(w, k + 1, Len(w))
<1>1. p \in Seq(Byte) /\ q \in Seq(Byte)
  BY Split
<1>2. w = Cat(p, q)
  BY Split DEF Cat
<1>3. i \o p = Cat(i, p)
  BY DEF Cat
<1>. HIDE DEF p, q
<1>4. Cat(Cat(i, p), q) = Cat(i, Cat(p, q))
  BY <1>1, CatAssoc
<1>5. Cat(i \o p, q) = Cat(i, w)
  BY <1>2, <1>3, <1>4
<1>. QED
  BY <1>5 DEF p, q

(* Everything the hearer has heard or may still hear, oldest first.         *)
Pipe(x, heard, output, input, wire) ==
  heard \o (output \o encode_data(input, x) \o encode_data(wire, x))

LEMMA PipeIs ==
  ASSUME NEW x \in Table, NEW h \in Seq(Byte), NEW o \in Seq(Byte),
         NEW i \in Seq(Byte), NEW w \in Seq(Byte)
  PROVE  Pipe(x, h, o, i, w) = Cat(Cat(h, o), encode_data(Cat(i, w), x))
<1>. DEFINE ei == encode_data(i, x)
            ew == encode_data(w, x)
<1>1. ei \in Seq(Byte) /\ ew \in Seq(Byte)
  BY EncodeSeq
<1>2. encode_data(Cat(i, w), x) = Cat(ei, ew)
  BY CatEncode
<1>3. Pipe(x, h, o, i, w) = Cat(h, Cat(Cat(o, ei), ew))
  BY DEF Pipe, Cat
<1>. HIDE DEF ei, ew
<1>4. Cat(Cat(o, ei), ew) = Cat(o, Cat(ei, ew))
  BY <1>1, CatAssoc
<1>5. Cat(ei, ew) \in Seq(Byte)
  BY <1>1, CatSeq
<1>6. Cat(h, Cat(o, Cat(ei, ew))) = Cat(Cat(h, o), Cat(ei, ew))
  BY <1>5, CatAssoc
<1>. QED
  BY <1>2, <1>3, <1>4, <1>6

LEMMA PipeSeq ==
  ASSUME NEW x \in Table, NEW h \in Seq(Byte), NEW o \in Seq(Byte),
         NEW i \in Seq(Byte), NEW w \in Seq(Byte)
  PROVE  Pipe(x, h, o, i, w) \in Seq(Byte)
<1>1. Cat(h, o) \in Seq(Byte) /\ Cat(i, w) \in Seq(Byte)
  BY CatSeq
<1>2. encode_data(Cat(i, w), x) \in Seq(Byte)
  BY <1>1, EncodeSeq
<1>3. Cat(Cat(h, o), encode_data(Cat(i, w), x)) \in Seq(Byte)
  BY <1>1, <1>2, CatSeq
<1>. QED
  BY <1>3, PipeIs

(* Reading from the socket, copying from one bufferevent to the other and   *)
(* writing to the socket move bytes along the pipe and leave it as it is.   *)
LEMMA PipeRead ==
  ASSUME NEW x \in Table, NEW h \in Seq(Byte), NEW o \in Seq(Byte),
         NEW i \in Seq(Byte), NEW w \in Seq(Byte), NEW k \in 0 .. Len(w)
  PROVE  Pipe(x, h, o, i \o SubSeq(w, 1, k), SubSeq(w, k + 1, Len(w)))
           = Pipe(x, h, o, i, w)
<1>. DEFINE ip == i \o SubSeq(w, 1, k)
            q == SubSeq(w, k + 1, Len(w))
<1>1. ip \in Seq(Byte) /\ q \in Seq(Byte)
  BY Split, Joined
<1>2. Cat(ip, q) = Cat(i, w)
  BY Moved
<1>. HIDE DEF ip, q
<1>3. Pipe(x, h, o, ip, q) = Cat(Cat(h, o), encode_data(Cat(ip, q), x))
  BY <1>1, PipeIs
<1>4. Pipe(x, h, o, i, w) = Cat(Cat(h, o), encode_data(Cat(i, w), x))
  BY PipeIs
<1>5. Pipe(x, h, o, ip, q) = Pipe(x, h, o, i, w)
  BY <1>2, <1>3, <1>4
<1>. QED
  BY <1>5 DEF ip, q

LEMMA PipeWrite ==
  ASSUME NEW x \in Table, NEW h \in Seq(Byte), NEW o \in Seq(Byte),
         NEW i \in Seq(Byte), NEW w \in Seq(Byte), NEW k \in 0 .. Len(o)
  PROVE  Pipe(x, h \o SubSeq(o, 1, k), SubSeq(o, k + 1, Len(o)), i, w)
           = Pipe(x, h, o, i, w)
<1>. DEFINE hp == h \o SubSeq(o, 1, k)
            q == SubSeq(o, k + 1, Len(o))
<1>1. hp \in Seq(Byte) /\ q \in Seq(Byte)
  BY Split, Joined
<1>2. Cat(hp, q) = Cat(h, o)
  BY Moved
<1>. HIDE DEF hp, q
<1>3. Pipe(x, hp, q, i, w) = Cat(Cat(hp, q), encode_data(Cat(i, w), x))
  BY <1>1, PipeIs
<1>4. Pipe(x, h, o, i, w) = Cat(Cat(h, o), encode_data(Cat(i, w), x))
  BY PipeIs
<1>5. Pipe(x, hp, q, i, w) = Pipe(x, h, o, i, w)
  BY <1>2, <1>3, <1>4
<1>. QED
  BY <1>5 DEF hp, q

LEMMA PipeCopy ==
  ASSUME NEW x \in Table, NEW h \in Seq(Byte), NEW o \in Seq(Byte),
         NEW i \in Seq(Byte), NEW w \in Seq(Byte)
  PROVE  Pipe(x, h, o \o encode_data(i, x), <<>>, w) = Pipe(x, h, o, i, w)
<1>. DEFINE ei == encode_data(i, x)
            oe == o \o ei
<1>1. ei \in Seq(Byte) /\ encode_data(<<>>, x) = <<>>
  BY EncodeSeq, EncodeEmpty
<1>. HIDE DEF ei
<1>2. oe \in Seq(Byte)
  BY <1>1, Joined
<1>. HIDE DEF oe
<1>3. oe \o <<>> = oe
  BY <1>2, ConcatEmptySeq
<1>4. Pipe(x, h, oe, <<>>, w) = h \o (oe \o <<>> \o encode_data(w, x))
  BY <1>1 DEF Pipe
<1>5. Pipe(x, h, o, i, w) = h \o (oe \o encode_data(w, x))
  BY DEF Pipe, oe, ei
<1>6. Pipe(x, h, oe, <<>>, w) = Pipe(x, h, o, i, w)
  BY <1>3, <1>4, <1>5
<1>. QED
  BY <1>6 DEF oe, ei

(* What is said next comes last in the pipe.                                *)
LEMMA PipeSay ==
  ASSUME NEW x \in Table, NEW h \in Seq(Byte), NEW o \in Seq(Byte),
         NEW i \in Seq(Byte), NEW w \in Seq(Byte), NEW v \in Seq(Byte)
  PROVE  Pipe(x, h, o, i, Cat(w, v))
           = Cat(Pipe(x, h, o, i, w), encode_data(v, x))
<1>. DEFINE front == Cat(h, o)
            iw == Cat(i, w)
            ev == encode_data(v, x)
            eiw == encode_data(iw, x)
<1>1. front \in Seq(Byte) /\ iw \in Seq(Byte)
  BY CatSeq
<1>2. ev \in Seq(Byte)
  BY EncodeSeq
<1>3. Cat(i, Cat(w, v)) = Cat(iw, v)
  BY CatAssoc
<1>4. Cat(w, v) \in Seq(Byte)
  BY CatSeq
<1>5. Pipe(x, h, o, i, Cat(w, v)) = Cat(front, encode_data(Cat(iw, v), x))
  BY <1>3, <1>4, PipeIs
<1>6. Pipe(x, h, o, i, w) = Cat(front, eiw)
  BY PipeIs
<1>. HIDE DEF front, iw
<1>7. encode_data(Cat(iw, v), x) = Cat(eiw, ev)
  BY <1>1, CatEncode
<1>8. eiw \in Seq(Byte)
  BY <1>1, EncodeSeq
<1>. HIDE DEF eiw
<1>9. Cat(front, Cat(eiw, ev)) = Cat(Cat(front, eiw), ev)
  BY <1>1, <1>2, <1>8, CatAssoc
<1>. QED
  BY <1>5, <1>6, <1>7, <1>9

(* Bytes that a reset takes from the wire are missing at the end only.      *)
LEMMA PipeCutPrefix ==
  ASSUME NEW x \in Table, NEW h \in Seq(Byte), NEW o \in Seq(Byte),
         NEW i \in Seq(Byte), NEW w \in Seq(Byte), NEW k \in 0 .. Len(w),
         NEW v \in Seq(Byte), IsPrefix(Pipe(x, h, o, i, w), v)
  PROVE  IsPrefix(Pipe(x, h, o, i, SubSeq(w, 1, k)), v)
<1>. DEFINE p == SubSeq(w, 1, k)
            q == SubSeq(w, k + 1, Len(w))
            eq == encode_data(q, x)
            cut == Pipe(x, h, o, i, p)
<1>1. p \in Seq(Byte) /\ q \in Seq(Byte)
  BY Split
<1>2. w = Cat(p, q)
  BY Split DEF Cat
<1>. HIDE DEF p, q
<1>3. Pipe(x, h, o, i, Cat(p, q)) = Cat(cut, eq)
  BY <1>1, PipeSay
<1>4. eq \in Seq(Byte) /\ cut \in Seq(Byte)
  BY <1>1, EncodeSeq, PipeSeq
<1>. HIDE DEF eq, cut
<1>5. IsPrefix(cut \o eq, v)
  BY <1>2, <1>3 DEF Cat
<1>6. IsPrefix(cut, v)
  BY <1>4, <1>5, PrefixTrans
<1>. QED
  BY <1>6 DEF cut, p
=============================================================================
