---------------------------- MODULE ServerProofs ----------------------------
(***************************************************************************)
(* What Server guarantees for any number of connections, any streams, any  *)
(* password, any SOCKS_BUF and any number of descriptors; ServerNoOrphan,  *)
(* at the end, for one connection and one exchange.                        *)
(***************************************************************************)
EXTENDS Server, LibEventTheorems

D == DecodeTable(password)

LEMMA DTable == D \in Table /\ password \in Table
BY DecodeTableType, ServerAssumption DEF D

LEMMA SaidIs ==
  ASSUME NEW c \in Conn
  PROVE  Said(c) = encode_data(peer[c]["local"].sent, D)
BY DEF Said, decode_data, D

LEMMA CatEmpty ==
  ASSUME NEW a \in Seq(Byte)
  PROVE  Cat(a, <<>>) = a /\ Cat(<<>>, a) = a
BY ConcatEmptySeq DEF Cat

LEMMA CatAppend ==
  ASSUME NEW a \in Seq(Byte), NEW x \in Byte
  PROVE  Append(a, x) = Cat(a, <<x>>) /\ <<x>> \in Seq(Byte)
<1>1. <<x>> \in Seq(Byte)
  OBVIOUS
<1>2. Append(a, x) = a \o <<x>>
  BY AppendIsConcat
<1>. QED
  BY <1>1, <1>2 DEF Cat

LEMMA CutIs ==
  ASSUME NEW s \in Seq(Byte), NEW k \in 0 .. Len(s)
  PROVE  /\ SubSeq(s, 1, k) \in Seq(Byte) /\ Drop(s, k) \in Seq(Byte)
         /\ s = Cat(SubSeq(s, 1, k), Drop(s, k))
BY Split DEF Drop, Cat
-----------------------------------------------------------------------------
(* s is a piece of t.                                                       *)
Piece(s, t) == \E u, v \in Seq(Byte) : t = Cat(u, Cat(s, v))

LEMMA PieceEmpty ==
  ASSUME NEW t \in Seq(Byte)
  PROVE  Piece(<<>>, t)
<1>1. t = Cat(<<>>, Cat(<<>>, t)) /\ <<>> \in Seq(Byte)
  BY CatEmpty, EmptySeq
<1>. QED
  BY <1>1 DEF Piece

LEMMA PieceGrows ==
  ASSUME NEW s \in Seq(Byte), NEW t \in Seq(Byte), NEW e \in Seq(Byte),
         Piece(s, t)
  PROVE  Piece(s, Cat(t, e))
<1>1. PICK u, v \in Seq(Byte) : t = Cat(u, Cat(s, v))
  BY DEF Piece
<1>2. Cat(t, e) = Cat(u, Cat(s, Cat(v, e)))
  <2>1. Cat(s, v) \in Seq(Byte)
    BY <1>1, CatSeq
  <2>2. Cat(t, e) = Cat(u, Cat(Cat(s, v), e))
    BY <1>1, <2>1, CatAssoc
  <2>3. Cat(Cat(s, v), e) = Cat(s, Cat(v, e))
    BY <1>1, CatAssoc
  <2>. QED
    BY <2>2, <2>3
<1>3. Cat(v, e) \in Seq(Byte)
  BY <1>1, CatSeq
<1>. QED
  BY <1>1, <1>2, <1>3 DEF Piece

LEMMA PieceHead ==
  ASSUME NEW s \in Seq(Byte), NEW r \in Seq(Byte), NEW t, Piece(Cat(s, r), t)
  PROVE  Piece(s, t)
<1>1. PICK u, v \in Seq(Byte) : t = Cat(u, Cat(Cat(s, r), v))
  BY DEF Piece
<1>2. Cat(Cat(s, r), v) = Cat(s, Cat(r, v)) /\ Cat(r, v) \in Seq(Byte)
  BY <1>1, CatAssoc, CatSeq
<1>. QED
  BY <1>1, <1>2 DEF Piece

(* A piece of what is said, decoded, is a piece of what is decoded.         *)
LEMMA PieceDecoded ==
  ASSUME NEW x \in Table, NEW u \in Seq(Byte), NEW s \in Seq(Byte),
         NEW v \in Seq(Byte)
  PROVE  Piece(encode_data(s, x), encode_data(Cat(u, Cat(s, v)), x))
<1>1. Cat(s, v) \in Seq(Byte)
  BY CatSeq
<1>2. encode_data(Cat(u, Cat(s, v)), x)
        = Cat(encode_data(u, x), Cat(encode_data(s, x), encode_data(v, x)))
  BY <1>1, CatEncode
<1>3. encode_data(u, x) \in Seq(Byte) /\ encode_data(v, x) \in Seq(Byte)
  BY EncodeSeq
<1>. QED
  BY <1>2, <1>3 DEF Piece

LEMMA PieceIsSubSeq ==
  ASSUME NEW s \in Seq(Byte), NEW t, Piece(s, t)
  PROVE  \E k \in 0 .. Len(t) - Len(s) : s = SubSeq(t, k + 1, k + Len(s))
<1>1. PICK u, v \in Seq(Byte) : t = Cat(u, Cat(s, v))
  BY DEF Piece
<1>. DEFINE sv == Cat(s, v)
            k == Len(u)
            n == Len(s)
            r == SubSeq(t, k + 1, k + n)
<1>2. /\ sv \in Seq(Byte) /\ Len(sv) = n + Len(v)
      /\ \A i \in 1 .. n : sv[i] = s[i]
      /\ n \in Nat /\ k \in Nat /\ Len(v) \in Nat
  BY <1>1, ConcatProperties, LenProperties DEF Cat
<1>. HIDE DEF sv
<1>3. /\ t \in Seq(Byte) /\ Len(t) = k + Len(sv)
      /\ \A i \in 1 .. Len(sv) : t[k + i] = sv[i]
  BY <1>1, <1>2, ConcatProperties DEF Cat, sv
<1>. HIDE DEF k, n
<1>4. /\ r \in Seq(Byte) /\ Len(r) = n
      /\ \A i \in 1 .. n : r[i] = t[k + i]
  <2>1. k + 1 \in 1 .. Len(t) + 1 /\ k + n \in k .. Len(t)
    BY <1>2, <1>3
  <2>2. /\ Len(r) = IF k + 1 <= k + n THEN k + n - (k + 1) + 1 ELSE 0
        /\ \A i \in 1 .. n : r[i] = t[k + 1 + i - 1]
    BY <1>2, <1>3, <2>1, SubSeqProperties
  <2>3. \A i \in 1 .. n : t[k + 1 + i - 1] = t[k + i]
    BY <1>2
  <2>4. r \in Seq(Byte)
    BY <1>2, <1>3, <2>1, SubSeqProperties
  <2>. QED
    BY <1>2, <2>2, <2>3, <2>4
<1>5. \A i \in 1 .. n : r[i] = s[i]
  <2>1. \A i \in 1 .. n : i \in 1 .. Len(sv)
    BY <1>2
  <2>. QED
    BY <1>2, <1>3, <1>4, <2>1
<1>. HIDE DEF r
<1>6. r = s
  BY <1>4, <1>5, SeqEqual DEF n
<1>7. k \in 0 .. Len(t) - n
  BY <1>2, <1>3
<1>. QED
  BY <1>6, <1>7 DEF r, n
-----------------------------------------------------------------------------
(* Where the bytes are.  What a live local side has said is what has been   *)
(* parsed or relayed, what the server holds or has still to read, and what  *)
(* a reset lost; nothing has been parsed before the first dial.             *)
Held(l, p) == Cat(l.input, p.wire)

In(l, p, rb) ==
  l.st = "live" =>
    \E u, v \in Seq(Byte) :
      /\ p.sent = Cat(u, Cat(Held(l, p), v))
      /\ p.st # "reset" => v = <<>>
      /\ rb = "null" => u = <<>>

(* Everything on the way to a destination, decoded by the server, is a      *)
(* piece of what the client has said.                                       *)
Out(b, p, sent) ==
  LET said == encode_data(sent, D) IN
  /\ Piece(p.got, said)
  /\ p.st # "closed" => Piece(Cat(p.got, b.output), said)

LEMMA HeldSeq ==
  ASSUME NEW l \in Bev, NEW p \in Peer
  PROVE  Held(l, p) \in Seq(Byte)
BY Fields, CatSeq DEF Held

LEMMA InNew ==
  ASSUME NEW l, l.input = <<>>, NEW rb
  PROVE  In(l, NewPeer, rb)
<1>1. <<>> \in Seq(Byte) /\ Cat(<<>>, <<>>) = <<>>
  BY EmptySeq, CatEmpty
<1>2. NewPeer.sent = <<>> /\ NewPeer.wire = <<>>
  BY DEF NewPeer
<1>3. NewPeer.sent = Cat(<<>>, Cat(Held(l, NewPeer), <<>>))
  BY <1>1, <1>2 DEF Held
<1>. QED
  BY <1>1, <1>3 DEF In

LEMMA InAnyway ==
  ASSUME NEW l, NEW p, NEW rb, In(l, p, rb)
  PROVE  In(l, p, "remote")
BY DEF In

(* The same bytes, or fewer at the front that have been taken.              *)
LEMMA InTaken ==
  ASSUME NEW l \in Bev, NEW p \in Peer, NEW a \in Seq(Byte),
         NEW i \in Seq(Byte), l.input = Cat(a, i), l.st = "live",
         In(l, p, "remote"), NEW l2 \in Bev, l2.input = i
  PROVE  In(l2, p, "remote")
<1>1. PICK u, v \in Seq(Byte) :
        /\ p.sent = Cat(u, Cat(Held(l, p), v))
        /\ p.st # "reset" => v = <<>>
  BY DEF In
<1>. DEFINE w == p.wire
            iw == Cat(i, w)
<1>2. w \in Seq(Byte) /\ iw \in Seq(Byte)
  BY Fields, CatSeq
<1>3. Held(l, p) = Cat(a, iw)
  BY <1>2, CatAssoc DEF Held
<1>4. Held(l2, p) = iw
  BY DEF Held
<1>. HIDE DEF w, iw
<1>5. p.sent = Cat(Cat(u, a), Cat(iw, v))
  <2>1. Cat(Held(l, p), v) = Cat(a, Cat(iw, v)) /\ Cat(iw, v) \in Seq(Byte)
    BY <1>1, <1>2, <1>3, CatAssoc, CatSeq
  <2>. QED
    BY <1>1, <2>1, CatAssoc
<1>6. Cat(u, a) \in Seq(Byte)
  BY <1>1, CatSeq
<1>. QED
  BY <1>1, <1>4, <1>5, <1>6 DEF In

LEMMA InNetwork ==
  ASSUME NEW l \in Bev, NEW p \in Peer, NEW rb, In(l, p, rb),
         NEW nl \in Bev, NEW np \in Peer, Effect(l, p, nl, np)
  PROVE  In(nl, np, rb)
<1>. SUFFICES ASSUME nl.st = "live" PROVE In(nl, np, rb)
  BY DEF In
<1>0. PICK u, v \in Seq(Byte) :
        /\ p.sent = Cat(u, Cat(Held(l, p), v))
        /\ p.st # "reset" => v = <<>>
        /\ rb = "null" => u = <<>>
  BY DEF In, Effect
<1>1. /\ p.sent \in Seq(Byte) /\ p.wire \in Seq(Byte) /\ l.input \in Seq(Byte)
      /\ Held(l, p) \in Seq(Byte)
  BY Fields, HeldSeq
<1>2. CASE Says(l, p, nl, np)
  <2>1. PICK x \in Byte :
          np.sent = Append(p.sent, x) /\ np.wire = Append(p.wire, x)
    BY <1>2 DEF Says
  <2>2. v = <<>> /\ nl.input = l.input
    BY <1>0, <1>2 DEF Says
  <2>. DEFINE e == <<x>>
              h == Held(l, p)
  <2>3. e \in Seq(Byte) /\ np.sent = Cat(p.sent, e) /\ np.wire = Cat(p.wire, e)
    BY <1>1, <2>1, CatAppend
  <2>. HIDE DEF e
  <2>4. Held(nl, np) = Cat(h, e)
    BY <1>1, <2>2, <2>3, CatAssoc DEF Held
  <2>5. p.sent = Cat(u, h)
    BY <1>0, <1>1, <2>2, CatEmpty
  <2>. HIDE DEF h
  <2>6. np.sent = Cat(u, Cat(h, e)) /\ Cat(h, e) \in Seq(Byte)
    BY <1>0, <1>1, <2>3, <2>5, CatAssoc, CatSeq DEF h
  <2>7. np.sent = Cat(u, Cat(Held(nl, np), <<>>)) /\ <<>> \in Seq(Byte)
    BY <2>4, <2>6, CatEmpty, EmptySeq
  <2>. QED
    BY <1>0, <2>7 DEF In
<1>3. CASE Loses(l, p, nl, np)
  <2>1. PICK k \in 0 .. Len(p.wire) : np.wire = SubSeq(p.wire, 1, k)
    BY <1>3 DEF Loses
  <2>. DEFINE rest == Drop(p.wire, k)
              h == Held(nl, np)
  <2>2. /\ np.wire \in Seq(Byte) /\ rest \in Seq(Byte)
        /\ p.wire = Cat(np.wire, rest)
    BY <1>1, <2>1, CutIs
  <2>3. nl.input = l.input /\ np.sent = p.sent /\ np.st = "reset"
    BY <1>3 DEF Loses
  <2>. HIDE DEF rest
  <2>4. Held(l, p) = Cat(h, rest) /\ h \in Seq(Byte)
    <3>1. Cat(Cat(l.input, np.wire), rest) = Cat(l.input, Cat(np.wire, rest))
      BY <1>1, <2>2, CatAssoc
    <3>2. h = Cat(l.input, np.wire) /\ Held(l, p) = Cat(l.input, p.wire)
      BY <2>3 DEF Held
    <3>3. h \in Seq(Byte)
      BY <1>1, <2>2, <3>2, CatSeq
    <3>. QED
      BY <2>2, <3>1, <3>2, <3>3
  <2>. HIDE DEF h
  <2>5. Cat(Held(l, p), v) = Cat(h, Cat(rest, v)) /\ Cat(rest, v) \in Seq(Byte)
    BY <1>0, <2>2, <2>4, CatAssoc, CatSeq
  <2>. QED
    BY <1>0, <2>3, <2>5 DEF In, h
<1>4. CASE Reads(l, p, nl, np)
  <2>1. PICK k \in 0 .. Len(p.wire) :
          /\ nl.input = l.input \o SubSeq(p.wire, 1, k)
          /\ np.wire = Drop(p.wire, k)
    BY <1>4 DEF Reads
  <2>2. Held(nl, np) = Held(l, p)
    <3>1. Cat(l.input \o SubSeq(p.wire, 1, k), Drop(p.wire, k))
            = Cat(l.input, p.wire)
      BY <1>1, <2>1, Moved DEF Drop
    <3>. QED
      BY <2>1, <3>1 DEF Held
  <2>3. np.st = p.st /\ np.sent = p.sent
    BY <1>4 DEF Reads
  <2>. QED
    BY <1>0, <2>2, <2>3 DEF In
<1>5. CASE Writes(l, p, nl, np) \/ Quiet(l, p, nl, np)
  <2>1. /\ nl.input = l.input /\ np.sent = p.sent /\ np.wire = p.wire
        /\ np.st # "reset" => p.st # "reset"
    BY <1>5 DEF Writes, Quiet
  <2>2. Held(nl, np) = Held(l, p)
    BY <2>1 DEF Held
  <2>. QED
    BY <1>0, <2>1, <2>2 DEF In
<1>. QED
  BY <1>2, <1>3, <1>4, <1>5 DEF Effect

(* Fewer bytes wait, more have been heard, none is lost unless the peer has *)
(* closed its socket.                                                       *)
LEMMA WriteMoves ==
  ASSUME NEW b \in Bev, NEW p \in Peer, NEW nb \in Bev, NEW np \in Peer,
         Writes(b, p, nb, np), p.st # "closed"
  PROVE  Cat(np.got, nb.output) = Cat(p.got, b.output)
<1>1. PICK k \in 1 .. Len(b.output) :
        /\ nb.output = Drop(b.output, k)
        /\ np.got = p.got \o SubSeq(b.output, 1, k)
  BY DEF Writes
<1>2. p.got \in Seq(Byte) /\ b.output \in Seq(Byte)
  BY Fields
<1>3. k \in 0 .. Len(b.output)
  BY <1>1
<1>4. Cat(p.got \o SubSeq(b.output, 1, k), Drop(b.output, k))
        = Cat(p.got, b.output)
  BY <1>2, <1>3, Moved DEF Drop
<1>. QED
  BY <1>1, <1>4

LEMMA OutNew ==
  ASSUME NEW b, b.output = <<>>, NEW sent \in Seq(Byte)
  PROVE  Out(b, NewPeer, sent)
<1>1. encode_data(sent, D) \in Seq(Byte)
  BY DTable, EncodeSeq
<1>2. Piece(<<>>, encode_data(sent, D))
  BY <1>1, PieceEmpty
<1>3. Cat(<<>>, <<>>) = <<>> /\ NewPeer.got = <<>>
  BY CatEmpty, EmptySeq DEF NewPeer
<1>. QED
  BY <1>2, <1>3 DEF Out

LEMMA OutSaid ==
  ASSUME NEW b \in Bev, NEW p \in Peer, NEW sent \in Seq(Byte), NEW x \in Byte,
         Out(b, p, sent)
  PROVE  Out(b, p, Append(sent, x))
<1>. DEFINE v == <<x>>
            said == encode_data(sent, D)
            e == encode_data(v, D)
            out == Cat(p.got, b.output)
<1>1. v \in Seq(Byte) /\ Append(sent, x) = Cat(sent, v)
  BY CatAppend
<1>. HIDE DEF v
<1>2. /\ encode_data(Append(sent, x), D) = Cat(said, e)
      /\ said \in Seq(Byte) /\ e \in Seq(Byte)
  <2>1. D \in Table
    BY DTable
  <2>2. encode_data(Cat(sent, v), D) = Cat(said, e)
    BY <1>1, <2>1, CatEncode
  <2>3. said \in Seq(Byte) /\ e \in Seq(Byte)
    BY <1>1, <2>1, EncodeSeq
  <2>. QED
    BY <1>1, <2>2, <2>3
<1>3. p.got \in Seq(Byte) /\ out \in Seq(Byte)
  BY Fields, CatSeq
<1>4. Piece(p.got, said) /\ (p.st # "closed" => Piece(out, said))
  BY DEF Out
<1>. HIDE DEF said, e, out
<1>5. Piece(p.got, Cat(said, e)) /\ (p.st # "closed" => Piece(out, Cat(said, e)))
  BY <1>2, <1>3, <1>4, PieceGrows
<1>. QED
  BY <1>2, <1>5 DEF Out, out

(* Nothing new waits for the destination.                                   *)
LEMMA OutKept ==
  ASSUME NEW b, NEW p \in Peer, NEW sent, NEW b2,
         Out(b, p, sent), b2.output \in {b.output, <<>>}
  PROVE  Out(b2, p, sent)
<1>1. Cat(p.got, <<>>) = p.got
  BY Fields, CatEmpty DEF Peer
<1>2. CASE b2.output = b.output
  BY <1>2 DEF Out
<1>3. CASE b2.output = <<>>
  BY <1>1, <1>3 DEF Out
<1>. QED
  BY <1>2, <1>3

LEMMA OutNetwork ==
  ASSUME NEW b \in Bev, NEW p \in Peer, NEW sent, Out(b, p, sent),
         NEW nb \in Bev, NEW np \in Peer, Effect(b, p, nb, np)
  PROVE  Out(nb, np, sent)
<1>1. CASE Writes(b, p, nb, np) /\ p.st # "closed"
  <2>1. /\ Cat(np.got, nb.output) = Cat(p.got, b.output)
        /\ np.got \in Seq(Byte) /\ nb.output \in Seq(Byte)
    BY <1>1, WriteMoves, Fields
  <2>2. Piece(Cat(np.got, nb.output), encode_data(sent, D))
    BY <1>1, <2>1 DEF Out
  <2>3. Piece(np.got, encode_data(sent, D))
    BY <2>1, <2>2, PieceHead
  <2>. QED
    BY <2>2, <2>3 DEF Out
<1>2. CASE Writes(b, p, nb, np) /\ p.st = "closed"
  <2>1. np.got = p.got /\ np.st = "closed"
    BY <1>2 DEF Writes
  <2>. QED
    BY <2>1 DEF Out
<1>3. CASE \/ Says(b, p, nb, np) \/ Loses(b, p, nb, np)
           \/ Reads(b, p, nb, np) \/ Quiet(b, p, nb, np)
  <2>1. /\ np.got = p.got /\ nb.output = b.output
        /\ np.st # "closed" => p.st # "closed"
    BY <1>3 DEF Says, Loses, Reads, Quiet
  <2>. QED
    BY <2>1 DEF Out
<1>. QED
  BY <1>1, <1>2, <1>3 DEF Effect

(* What a dial relays is what the local side still held.                    *)
LEMMA OutDialled ==
  ASSUME NEW l \in Bev, NEW p \in Peer, In(l, p, "remote"),
         l.st = "live", NEW b, b.output = encode_data(l.input, D)
  PROVE  Out(b, NewPeer, p.sent)
<1>1. PICK u, v \in Seq(Byte) : p.sent = Cat(u, Cat(Held(l, p), v))
  BY DEF In
<1>. DEFINE w == Cat(p.wire, v)
<1>2. l.input \in Seq(Byte) /\ p.wire \in Seq(Byte) /\ w \in Seq(Byte)
  BY <1>1, Fields, CatSeq
<1>3. p.sent = Cat(u, Cat(l.input, w)) /\ p.sent \in Seq(Byte)
  BY <1>1, <1>2, CatAssoc, Fields DEF Held
<1>. HIDE DEF w
<1>4. Piece(b.output, encode_data(p.sent, D))
  BY <1>1, <1>2, <1>3, DTable, PieceDecoded
<1>5. b.output \in Seq(Byte) /\ encode_data(p.sent, D) \in Seq(Byte)
  BY <1>2, <1>3, DTable, EncodeSeq
<1>6. Cat(<<>>, b.output) = b.output /\ NewPeer.got = <<>>
  BY <1>5, CatEmpty DEF NewPeer
<1>7. Piece(<<>>, encode_data(p.sent, D))
  BY <1>5, PieceEmpty
<1>. QED
  BY <1>4, <1>6, <1>7 DEF Out
-----------------------------------------------------------------------------
(* What the client hears: the two answers, then what the destination says.  *)
answers == <<5, 0>> \o socks5_reply

Answered(q) == [q EXCEPT !.sent = Cat(answers, @)]

Echo(q) == encode_data(Cat(answers, q.sent), password)

(* Neither bufferevent has been destroyed.                                  *)
Both(l, r) ==
  IF {l.st, r.st} \subseteq {"live", "held"} THEN "live" ELSE "over"

Answers(rb, l, p, r, q) ==
  /\ rb = "null" => p.got = <<>> /\ l.output = <<>>
  /\ rb = "remote" =>
       /\ Ordered(password, Both(l, r), r, Answered(q), l, p)
       /\ p.st # "closed" => IsPrefix(Cat(p.got, l.output), Echo(q))

LEMMA AnswersSeq ==
  /\ <<5, 0>> \in Seq(Byte) /\ socks5_reply \in Seq(Byte)
  /\ answers \in Seq(Byte)
  /\ encode_data(answers, password)
       = encode_data(<<5, 0>>, password) \o encode_data(socks5_reply, password)
<1>1. 0 \in Byte /\ 1 \in Byte /\ 5 \in Byte
  BY PassLengthAssumption, ServerAssumption DEF Byte
<1>. DEFINE a == <<5, 0>>
            b == socks5_reply
<1>2. a \in Seq(Byte) /\ b \in Seq(Byte)
  BY <1>1 DEF socks5_reply
<1>. HIDE DEF a, b
<1>3. /\ a \o b \in Seq(Byte)
      /\ encode_data(a \o b, password)
           = encode_data(a, password) \o encode_data(b, password)
  BY <1>2, DTable, Joined, EncodeConcat
<1>. QED
  BY <1>2, <1>3 DEF answers, a, b

LEMMA AnsweredPeer ==
  ASSUME NEW q \in Peer
  PROVE  /\ Answered(q) \in Peer /\ Answered(q).sent = Cat(answers, q.sent)
         /\ Answered(q).st = q.st /\ Answered(q).wire = q.wire
         /\ Answered(q).got = q.got
         /\ Echo(q) = encode_data(Answered(q).sent, password)
         /\ Echo(q) \in Seq(Byte)
<1>. DEFINE sent == Cat(answers, q.sent)
<1>1. sent \in Seq(Byte)
  <2>1. q.sent \in Seq(Byte)
    BY DEF Peer
  <2>. QED
    BY <2>1, AnswersSeq, CatSeq
<1>2. encode_data(sent, password) \in Seq(Byte)
  BY <1>1, DTable, EncodeSeq
<1>3. Answered(q) = [q EXCEPT !.sent = sent]
  BY DEF Answered
<1>. HIDE DEF sent
<1>4. Answered(q) \in Peer /\ Answered(q).sent = sent
  BY <1>1, <1>3 DEF Peer
<1>5. /\ Answered(q).st = q.st /\ Answered(q).wire = q.wire
      /\ Answered(q).got = q.got
  BY <1>3 DEF Peer
<1>. QED
  BY <1>2, <1>4, <1>5 DEF Echo, sent

LEMMA AnsweredEffect ==
  ASSUME NEW r \in Bev, NEW q \in Peer, NEW nr \in Bev, NEW nq \in Peer,
         Effect(r, q, nr, nq)
  PROVE  Effect(r, Answered(q), nr, Answered(nq))
<1>1. /\ Answered(q).sent = Cat(answers, q.sent) /\ Answered(q).st = q.st
      /\ Answered(q).wire = q.wire /\ Answered(q).got = q.got
      /\ Answered(nq).sent = Cat(answers, nq.sent) /\ Answered(nq).st = nq.st
      /\ Answered(nq).wire = nq.wire /\ Answered(nq).got = nq.got
  BY AnsweredPeer
<1>2. ASSUME NEW x \in Byte, nq.sent = Append(q.sent, x)
      PROVE  Cat(answers, nq.sent) = Append(Cat(answers, q.sent), x)
  <2>1. /\ q.sent \in Seq(Byte) /\ answers \in Seq(Byte)
        /\ Cat(answers, q.sent) \in Seq(Byte)
    BY Fields, AnswersSeq, CatSeq
  <2>. DEFINE v == <<x>>
              a == Cat(answers, q.sent)
  <2>2. v \in Seq(Byte) /\ nq.sent = Cat(q.sent, v) /\ Append(a, x) = Cat(a, v)
    BY <1>2, <2>1, CatAppend
  <2>. HIDE DEF v
  <2>3. Cat(answers, nq.sent) = Cat(a, v)
    BY <2>1, <2>2, CatAssoc
  <2>. QED
    BY <2>2, <2>3
<1>3. Says(r, q, nr, nq) => Says(r, Answered(q), nr, Answered(nq))
  BY <1>1, <1>2 DEF Says
<1>4. /\ Loses(r, q, nr, nq) => Loses(r, Answered(q), nr, Answered(nq))
      /\ Reads(r, q, nr, nq) => Reads(r, Answered(q), nr, Answered(nq))
      /\ Writes(r, q, nr, nq) => Writes(r, Answered(q), nr, Answered(nq))
      /\ Quiet(r, q, nr, nq) => Quiet(r, Answered(q), nr, Answered(nq))
  BY <1>1 DEF Loses, Reads, Writes, Quiet
<1>. QED
  BY <1>3, <1>4 DEF Effect

(* What the destination says only extends what the client may hear.         *)
LEMMA EchoGrows ==
  ASSUME NEW r \in Bev, NEW q \in Peer, NEW nr, NEW nq \in Peer,
         Effect(r, q, nr, nq), NEW s \in Seq(Byte), IsPrefix(s, Echo(q))
  PROVE  IsPrefix(s, Echo(nq))
<1>1. CASE \E x \in Byte : nq.sent = Append(q.sent, x)
  <2>1. PICK x \in Byte : nq.sent = Append(q.sent, x)
    BY <1>1
  <2>. DEFINE v == <<x>>
              a == Cat(answers, q.sent)
              ev == encode_data(v, password)
              ea == encode_data(a, password)
  <2>7. q.sent \in Seq(Byte) /\ answers \in Seq(Byte)
    BY Fields, AnswersSeq
  <2>2. v \in Seq(Byte) /\ nq.sent = Cat(q.sent, v) /\ a \in Seq(Byte)
    BY <2>1, <2>7, CatAppend, CatSeq
  <2>. HIDE DEF v
  <2>3. Cat(answers, nq.sent) = Cat(a, v)
    BY <2>7, <2>2, CatAssoc
  <2>. HIDE DEF a
  <2>4. /\ encode_data(Cat(a, v), password) = Cat(ea, ev)
        /\ ea \in Seq(Byte) /\ ev \in Seq(Byte)
    BY <2>2, DTable, CatEncode, EncodeSeq
  <2>5. Echo(q) = ea /\ Echo(nq) = Cat(ea, ev)
    BY <2>3, <2>4 DEF Echo, a
  <2>. HIDE DEF ea, ev
  <2>6. IsPrefix(s, Cat(ea, ev))
    BY <2>4, <2>5, PrefixGrows DEF Cat
  <2>. QED
    BY <2>5, <2>6
<1>2. CASE nq.sent = q.sent
  BY <1>2 DEF Echo
<1>. QED
  BY <1>1, <1>2 DEF Effect, Says, Loses, Reads, Writes, Quiet

(* What waits for a client and what it has heard.                           *)
LEMMA HeardNetwork ==
  ASSUME NEW l \in Bev, NEW p \in Peer, NEW nl \in Bev, NEW np \in Peer,
         Effect(l, p, nl, np), NEW e \in Seq(Byte), IsPrefix(p.got, e),
         p.st # "closed" => IsPrefix(Cat(p.got, l.output), e)
  PROVE  /\ IsPrefix(np.got, e)
         /\ np.st # "closed" => IsPrefix(Cat(np.got, nl.output), e)
<1>1. CASE Writes(l, p, nl, np) /\ p.st # "closed"
  <2>1. /\ Cat(np.got, nl.output) = Cat(p.got, l.output)
        /\ np.got \in Seq(Byte) /\ nl.output \in Seq(Byte)
    BY <1>1, WriteMoves, Fields
  <2>2. IsPrefix(Cat(np.got, nl.output), e)
    BY <1>1, <2>1
  <2>3. IsPrefix(np.got, e)
    BY <2>1, <2>2, PrefixTrans DEF Cat
  <2>. QED
    BY <2>2, <2>3
<1>2. CASE Writes(l, p, nl, np) /\ p.st = "closed"
  <2>1. np.got = p.got /\ np.st = "closed"
    BY <1>2 DEF Writes
  <2>. QED
    BY <2>1
<1>3. CASE \/ Says(l, p, nl, np) \/ Loses(l, p, nl, np)
           \/ Reads(l, p, nl, np) \/ Quiet(l, p, nl, np)
  <2>1. /\ np.got = p.got /\ nl.output = l.output
        /\ np.st # "closed" => p.st # "closed"
    BY <1>3 DEF Says, Loses, Reads, Quiet
  <2>. QED
    BY <2>1
<1>. QED
  BY <1>1, <1>2, <1>3 DEF Effect

LEMMA OrderedWaits ==
  ASSUME NEW x \in Table, NEW b \in Bev, NEW p \in Peer, NEW ob \in Bev,
         NEW op \in Peer, Ordered(x, "live", b, p, ob, op), op.st # "closed"
  PROVE  IsPrefix(Cat(op.got, ob.output), encode_data(p.sent, x))
<1>. DEFINE h == Cat(op.got, ob.output)
            iw == Cat(b.input, p.wire)
            e == encode_data(iw, x)
            said == encode_data(p.sent, x)
<1>1. /\ p.sent \in Seq(Byte) /\ p.wire \in Seq(Byte) /\ op.got \in Seq(Byte)
      /\ ob.output \in Seq(Byte) /\ b.input \in Seq(Byte)
  BY Fields
<1>2. Pipe(x, op.got, ob.output, b.input, p.wire) = Cat(h, e)
  BY <1>1, PipeIs
<1>3. h \in Seq(Byte) /\ iw \in Seq(Byte) /\ said \in Seq(Byte)
  BY <1>1, CatSeq, EncodeSeq
<1>4. e \in Seq(Byte)
  BY <1>3, EncodeSeq
<1>5. IsPrefix(Pipe(x, op.got, ob.output, b.input, p.wire), said)
  BY DEF Ordered
<1>. HIDE DEF h, e, said
<1>6. IsPrefix(h, said)
  BY <1>2, <1>3, <1>4, <1>5, PrefixTrans DEF Cat
<1>. QED
  BY <1>6 DEF h, said

LEMMA AnswersLocal ==
  ASSUME NEW rb, NEW l \in Bev, NEW p \in Peer, NEW r \in Bev, NEW q \in Peer,
         Answers(rb, l, p, r, q),
         NEW nl \in Bev, NEW np \in Peer, Effect(l, p, nl, np)
  PROVE  Answers(rb, nl, np, r, q)
<1>1. Both(nl, r) = Both(l, r)
  BY DEF Both, Effect
<1>2. ASSUME rb = "null" PROVE np.got = <<>> /\ nl.output = <<>>
  <2>1. p.got = <<>> /\ l.output = <<>>
    BY <1>2 DEF Answers
  <2>2. ~Writes(l, p, nl, np)
    BY <2>1, EmptySeq DEF Writes
  <2>. QED
    BY <2>1, <2>2 DEF Effect, Says, Loses, Reads, Quiet
<1>3. ASSUME rb = "remote"
      PROVE  /\ Ordered(password, Both(l, r), r, Answered(q), nl, np)
             /\ np.st # "closed" =>
                  IsPrefix(Cat(np.got, nl.output), Echo(q))
  <2>1. /\ Ordered(password, Both(l, r), r, Answered(q), l, p)
        /\ p.st # "closed" => IsPrefix(Cat(p.got, l.output), Echo(q))
    BY <1>1, <1>3 DEF Answers
  <2>2. /\ Answered(q) \in Peer /\ Echo(q) \in Seq(Byte)
        /\ Echo(q) = encode_data(Answered(q).sent, password)
    BY AnsweredPeer
  <2>3. IsPrefix(p.got, Echo(q))
    BY <2>1, <2>2 DEF Ordered
  <2>4. /\ IsPrefix(np.got, Echo(q))
        /\ np.st # "closed" => IsPrefix(Cat(np.got, nl.output), Echo(q))
    BY <2>1, <2>2, <2>3, HeardNetwork
  <2>5. Ordered(password, Both(l, r), r, Answered(q), nl, np)
    <3>1. CASE Both(l, r) = "live"
      BY <2>1, <2>2, <3>1, DTable, OrderedHearer
    <3>2. CASE Both(l, r) # "live"
      BY <2>2, <2>4, <3>2 DEF Ordered
    <3>. QED
      BY <3>1, <3>2
  <2>. QED
    BY <2>4, <2>5
<1>. QED
  BY <1>1, <1>2, <1>3 DEF Answers

LEMMA AnswersRemote ==
  ASSUME NEW rb, NEW l \in Bev, NEW p \in Peer, NEW r \in Bev, NEW q \in Peer,
         Answers(rb, l, p, r, q),
         NEW nr \in Bev, NEW nq \in Peer, Effect(r, q, nr, nq)
  PROVE  Answers(rb, l, p, nr, nq)
<1>1. Both(l, nr) = Both(l, r)
  BY DEF Both, Effect
<1>2. ASSUME rb = "remote"
      PROVE  /\ Ordered(password, Both(l, r), nr, Answered(nq), l, p)
             /\ p.st # "closed" =>
                  IsPrefix(Cat(p.got, l.output), Echo(nq))
  <2>1. /\ Ordered(password, Both(l, r), r, Answered(q), l, p)
        /\ p.st # "closed" => IsPrefix(Cat(p.got, l.output), Echo(q))
    BY <1>2 DEF Answers
  <2>2. /\ Answered(q) \in Peer /\ Answered(nq) \in Peer
        /\ Echo(q) = encode_data(Answered(q).sent, password)
        /\ Echo(nq) = encode_data(Answered(nq).sent, password)
    BY AnsweredPeer
  <2>3. IsPrefix(p.got, Echo(q))
    BY <2>1, <2>2 DEF Ordered
  <2>4. p.got \in Seq(Byte) /\ Cat(p.got, l.output) \in Seq(Byte)
    BY Fields, CatSeq
  <2>5. /\ IsPrefix(p.got, Echo(nq))
        /\ IsPrefix(Cat(p.got, l.output), Echo(q)) =>
             IsPrefix(Cat(p.got, l.output), Echo(nq))
    BY <2>3, <2>4, EchoGrows
  <2>6. Ordered(password, Both(l, r), nr, Answered(nq), l, p)
    <3>1. CASE Both(l, r) = "live"
      BY <2>1, <2>2, <3>1, DTable, OrderedSpeaker, AnsweredEffect
    <3>2. CASE Both(l, r) # "live"
      BY <2>2, <2>5, <3>2 DEF Ordered
    <3>. QED
      BY <3>1, <3>2
  <2>. QED
    BY <2>1, <2>5, <2>6
<1>. QED
  BY <1>1, <1>2 DEF Answers

(* A bufferevent that has been freed: what its run may still serve, or      *)
(* nothing.                                                                 *)
Gone(b, b2) ==
  /\ b.st # "none" /\ b2.st \in {"held", "freed"}
  /\ \/ b2 = Destroyed
     \/ b.st \in {"live", "held"} /\ b2.input = b.input /\ b2.output = b.output

LEMMA AnswersReleased ==
  ASSUME NEW rb, NEW l \in Bev, NEW p \in Peer, NEW r, NEW q,
         Answers(rb, l, p, r, q),
         NEW l2, l2 = l \/ Gone(l, l2), NEW r2, r2 = r \/ Gone(r, r2)
  PROVE  Answers(rb, l2, p, r2, q)
<1>0. Destroyed.st = "freed" /\ Destroyed.output = <<>>
  BY DestroyedType
<1>1. Both(l2, r2) = "live" =>
        /\ Both(l, r) = "live" /\ l2.output = l.output /\ r2.input = r.input
  BY <1>0 DEF Both, Gone
<1>2. Ordered(password, Both(l, r), r, Answered(q), l, p)
        => Ordered(password, Both(l2, r2), r2, Answered(q), l2, p)
  BY <1>1, OrderedKept
<1>3. l2.output \in {l.output, <<>>}
  BY <1>0 DEF Gone
<1>4. ASSUME IsPrefix(p.got, Echo(q)), NEW o \in {l.output, <<>>},
             p.st # "closed" => IsPrefix(Cat(p.got, l.output), Echo(q))
      PROVE  p.st # "closed" => IsPrefix(Cat(p.got, o), Echo(q))
  <2>1. p.got \in Seq(Byte)
    BY Fields
  <2>2. Cat(p.got, <<>>) = p.got
    BY <2>1, CatEmpty
  <2>. QED
    BY <1>4, <2>2
<1>5. rb = "remote" => IsPrefix(p.got, Echo(q))
  BY DEF Answers, Ordered, Answered, Echo
<1>. QED
  BY <1>2, <1>3, <1>4, <1>5 DEF Answers

(* encode_copy from the destination to the client.                          *)
LEMMA AnswersCopied ==
  ASSUME NEW rb, NEW l \in Bev, NEW p \in Peer, NEW r \in Bev, NEW q \in Peer,
         Answers(rb, l, p, r, q), rb # "null",
         l.st \in {"live", "held"}, r.st = "live",
         NEW l2 \in Bev, NEW r2 \in Bev, l2.st = l.st, r2.st = "live",
         r2.input = <<>>,
         l2.output = l.output \o encode_data(r.input, password)
  PROVE  Answers(rb, l2, p, r2, q)
<1>1. Both(l, r) = "live" /\ Both(l2, r2) = "live"
  BY DEF Both
<1>2. ASSUME rb = "remote"
      PROVE  /\ Ordered(password, "live", r2, Answered(q), l2, p)
             /\ p.st # "closed" => IsPrefix(Cat(p.got, l2.output), Echo(q))
  <2>1. Answered(q) \in Peer /\ Echo(q) = encode_data(Answered(q).sent, password)
    BY AnsweredPeer
  <2>2. Ordered(password, "live", r, Answered(q), l, p)
    BY <1>1, <1>2 DEF Answers
  <2>3. Ordered(password, "live", r2, Answered(q), l2, p)
    BY <2>1, <2>2, DTable, OrderedCopy
  <2>. QED
    BY <2>1, <2>3, DTable, OrderedWaits
<1>. QED
  BY <1>1, <1>2 DEF Answers

(* The dial: the two answers wait for the client, nothing has been heard.   *)
LEMMA AnswersDialled ==
  ASSUME NEW l, NEW p \in Peer, NEW r, p.got = <<>>,
         \/ /\ l \in Bev /\ r \in Bev /\ r.input = <<>>
            /\ l.output = encode_data(answers, password)
         \/ l = Destroyed
  PROVE  Answers("remote", l, p, r, NewPeer)
<1>0. NewPeer \in Peer /\ NewPeer.sent = <<>> /\ NewPeer.wire = <<>>
  BY EmptySeq DEF NewPeer, Peer
<1>. DEFINE q == Answered(NewPeer)
            e == encode_data(answers, password)
<1>1. /\ q.sent = answers /\ q.wire = <<>>
      /\ Echo(NewPeer) = encode_data(q.sent, password)
  BY <1>0, AnsweredPeer, AnswersSeq, CatEmpty
<1>. HIDE DEF q
<1>2. e \in Seq(Byte) /\ encode_data(<<>>, password) = <<>>
  BY AnswersSeq, DTable, EncodeSeq, EncodeEmpty
<1>3. Echo(NewPeer) = e /\ encode_data(q.sent, password) = e
  BY <1>1
<1>. HIDE DEF e
<1>4. e \o <<>> = e /\ <<>> \o e = e /\ <<>> \in Seq(Byte)
  BY <1>2, ConcatEmptySeq, EmptySeq
<1>5. IsPrefix(<<>>, e) /\ IsPrefix(e, e)
  BY <1>2, <1>4, PrefixIntro
<1>6. CASE l = Destroyed
  <2>1. l.st = "freed" /\ Cat(p.got, l.output) = <<>>
    BY <1>4, <1>6, DestroyedType, CatEmpty
  <2>. QED
    BY <1>3, <1>5, <2>1 DEF Answers, Ordered, Both, q
<1>7. CASE l.output = e /\ r.input = <<>>
  <2>1. Pipe(password, p.got, l.output, r.input, q.wire) = e
    BY <1>1, <1>2, <1>4, <1>7 DEF Pipe
  <2>2. Ordered(password, Both(l, r), r, q, l, p)
    BY <1>3, <1>5, <2>1 DEF Ordered
  <2>3. IsPrefix(Cat(p.got, l.output), Echo(NewPeer))
    BY <1>3, <1>4, <1>5, <1>7 DEF Cat
  <2>. QED
    BY <2>2, <2>3 DEF Answers, q
<1>. QED
  BY <1>6, <1>7 DEF e
-----------------------------------------------------------------------------
(* The address a connection that relays has dialled.                        *)
Asked(t) ==
  SubSeq(t, SOCKS_BUF + 5, SOCKS_BUF + 8)
    \o SubSeq(t, 2 * SOCKS_BUF - 1, 2 * SOCKS_BUF)

Addr(sv, rb, addr, sent) ==
  LET said == encode_data(sent, D) IN
  sv = "live" /\ rb = "remote" =>
    Len(said) >= 2 * SOCKS_BUF /\ addr = Asked(said)

LEMMA AskedGrows ==
  ASSUME NEW t \in Seq(Byte), NEW e \in Seq(Byte), Len(t) >= 2 * SOCKS_BUF
  PROVE  Len(Cat(t, e)) >= 2 * SOCKS_BUF /\ Asked(Cat(t, e)) = Asked(t)
<1>1. /\ Len(t) \in Nat /\ Len(e) \in Nat
      /\ SOCKS_BUF \in Nat /\ SOCKS_BUF >= 8
  BY LenProperties, ServerAssumption
<1>2. Len(t \o e) = Len(t) + Len(e)
  BY ConcatProperties
<1>3. SubSeq(t \o e, SOCKS_BUF + 5, SOCKS_BUF + 8)
        = SubSeq(t, SOCKS_BUF + 5, SOCKS_BUF + 8)
  <2>1. SOCKS_BUF + 5 \in 1 .. Len(t) /\ SOCKS_BUF + 8 \in 1 .. Len(t)
    BY <1>1
  <2>. QED
    BY <2>1, SubSeqOfConcat1
<1>4. SubSeq(t \o e, 2 * SOCKS_BUF - 1, 2 * SOCKS_BUF)
        = SubSeq(t, 2 * SOCKS_BUF - 1, 2 * SOCKS_BUF)
  <2>1. 2 * SOCKS_BUF - 1 \in 1 .. Len(t) /\ 2 * SOCKS_BUF \in 1 .. Len(t)
    BY <1>1
  <2>. QED
    BY <2>1, SubSeqOfConcat1
<1>. QED
  BY <1>1, <1>2, <1>3, <1>4 DEF Asked, Cat

LEMMA AddrSaid ==
  ASSUME NEW sv, NEW rb, NEW addr, NEW sent \in Seq(Byte), NEW x \in Byte,
         Addr(sv, rb, addr, sent)
  PROVE  Addr(sv, rb, addr, Append(sent, x))
<1>. DEFINE v == <<x>>
            t == encode_data(sent, D)
            e == encode_data(v, D)
<1>1. v \in Seq(Byte) /\ Append(sent, x) = Cat(sent, v)
  BY CatAppend
<1>. HIDE DEF v
<1>2. /\ encode_data(Append(sent, x), D) = Cat(t, e)
      /\ t \in Seq(Byte) /\ e \in Seq(Byte)
  BY <1>1, DTable, CatEncode, EncodeSeq
<1>3. sv = "live" /\ rb = "remote" =>
        Len(t) >= 2 * SOCKS_BUF /\ addr = Asked(t)
  BY DEF Addr
<1>. HIDE DEF t, e
<1>. QED
  BY <1>2, <1>3, AskedGrows DEF Addr

(* Asked, byte by byte.                                                     *)
LEMMA AskedIs ==
  ASSUME NEW t \in Seq(Byte), Len(t) >= 2 * SOCKS_BUF
  PROVE  LET n == SOCKS_BUF IN
         Asked(t) = <<t[n + 5], t[n + 6], t[n + 7], t[n + 8]>>
                      \o <<t[2 * n - 1], t[2 * n]>>
<1>. DEFINE n == SOCKS_BUF
            a == SubSeq(t, n + 5, n + 8)
            p == SubSeq(t, 2 * n - 1, 2 * n)
            a2 == <<t[n + 5], t[n + 6], t[n + 7], t[n + 8]>>
            p2 == <<t[2 * n - 1], t[2 * n]>>
<1>1. n \in Nat /\ n >= 8 /\ Len(t) \in Nat /\ Len(t) >= 2 * n
  BY LenProperties, ServerAssumption
<1>2. \A k \in 1 .. 2 * n : t[k] \in Byte
  BY <1>1, ElementOfSeq
<1>. HIDE DEF n
<1>3. a = a2
  <2>1. /\ n + 5 \in Int /\ n + 8 \in Int
        /\ \A i \in n + 5 .. n + 8 : t[i] \in Byte
    BY <1>1, <1>2
  <2>2. /\ a \in Seq(Byte) /\ Len(a) = n + 8 - (n + 5) + 1
        /\ \A i \in 1 .. n + 8 - (n + 5) + 1 : a[i] = t[n + 5 + i - 1]
    BY <1>1, <2>1, SubSeqProperties
  <2>. HIDE DEF a
  <2>3. /\ Len(a) = 4 /\ a[1] = t[n + 5] /\ a[2] = t[n + 6]
        /\ a[3] = t[n + 7] /\ a[4] = t[n + 8]
    BY <1>1, <2>2
  <2>4. a2 \in Seq(Byte) /\ Len(a2) = 4
    <3>1. /\ t[n + 5] \in Byte /\ t[n + 6] \in Byte
          /\ t[n + 7] \in Byte /\ t[n + 8] \in Byte
      BY <1>1, <1>2
    <3>. QED
      BY <3>1
  <2>5. \A i \in 1 .. 4 : a[i] = a2[i]
    BY <2>3
  <2>. QED
    BY <2>2, <2>3, <2>4, <2>5, SeqEqual
<1>4. p = p2
  <2>1. /\ 2 * n - 1 \in Int /\ 2 * n \in Int
        /\ \A i \in 2 * n - 1 .. 2 * n : t[i] \in Byte
    BY <1>1, <1>2
  <2>2. /\ p \in Seq(Byte) /\ Len(p) = 2 * n - (2 * n - 1) + 1
        /\ \A i \in 1 .. 2 * n - (2 * n - 1) + 1 : p[i] = t[2 * n - 1 + i - 1]
    BY <1>1, <2>1, SubSeqProperties
  <2>. HIDE DEF p
  <2>3. Len(p) = 2 /\ p[1] = t[2 * n - 1] /\ p[2] = t[2 * n]
    BY <1>1, <2>2
  <2>4. p2 \in Seq(Byte) /\ Len(p2) = 2
    <3>1. t[2 * n - 1] \in Byte /\ t[2 * n] \in Byte
      BY <1>1, <1>2
    <3>. QED
      BY <3>1
  <2>5. \A i \in 1 .. 2 : p[i] = p2[i]
    BY <2>3
  <2>. QED
    BY <2>2, <2>3, <2>4, <2>5, SeqEqual
<1>. QED
  BY <1>3, <1>4 DEF Asked, n
-----------------------------------------------------------------------------
(* parse_socks5.  A read that leaves something behind was a full one.       *)
Buf == [0 .. SOCKS_BUF - 1 -> Byte]

ReadFull(b, r) ==
  /\ Len(b.input) > SOCKS_BUF
  /\ r.n = SOCKS_BUF
  /\ \A k \in 0 .. SOCKS_BUF - 1 : r.buf[k] = D[b.input[k + 1]]

DecodeReads(b, r) ==
  /\ r.n \in 0 .. SOCKS_BUF /\ r.buf \in Buf /\ r.bev \in Bev
  /\ \E n \in 0 .. Len(b.input) :
       r.n = n /\ r.bev = [b EXCEPT !.input = Drop(b.input, n)]
  /\ r.bev.input # <<>> => ReadFull(b, r)

LEMMA DecodeRead ==
  ASSUME NEW b \in Bev, NEW buf \in Buf
  PROVE  DecodeReads(b, decode_read(b, buf))
<1>. DEFINE m == Len(b.input)
            n == IF m < SOCKS_BUF THEN m ELSE SOCKS_BUF
            part == SubSeq(b.input, 1, n)
            bytes == encode_data(part, D)
            buf2 == [k \in 0 .. SOCKS_BUF - 1 |->
                       IF k < n THEN bytes[k + 1] ELSE buf[k]]
            rest == Drop(b.input, n)
            b2 == [b EXCEPT !.input = rest]
            r == decode_read(b, buf)
<1>1. r = [n |-> n, buf |-> buf2, bev |-> b2]
  BY DEF decode_read, decode_data, D
<1>2. /\ b.input \in Seq(Byte) /\ m \in Nat /\ SOCKS_BUF \in Nat
      /\ n \in 0 .. m /\ n \in 0 .. SOCKS_BUF
  BY LenProperties, ServerAssumption DEF Bev
<1>3. part \in Seq(Byte) /\ Len(part) = n /\ rest \in Seq(Byte)
  BY <1>2, Split DEF Drop
<1>4. \A k \in 1 .. n : part[k] = b.input[k]
  <2>1. \A k \in 1 .. n : b.input[k] \in Byte
    BY <1>2, ElementOfSeq
  <2>2. \A k \in 1 .. n - 1 + 1 : part[k] = b.input[1 + k - 1]
    BY <1>2, <2>1, SubSeqProperties
  <2>. QED
    BY <1>2, <2>2
<1>. HIDE DEF part
<1>5. /\ bytes \in Seq(Byte) /\ Len(bytes) = n
      /\ \A k \in 1 .. n : bytes[k] = D[part[k]]
  BY <1>3, DTable, EncodeData
<1>. HIDE DEF bytes
<1>6. \A k \in 1 .. n : bytes[k] \in Byte /\ bytes[k] = D[b.input[k]]
  BY <1>4, <1>5, ElementOfSeq
<1>. HIDE DEF n, m
<1>7. \A k \in 0 .. SOCKS_BUF - 1 :
        /\ buf2[k] \in Byte
        /\ k < n => buf2[k] = D[b.input[k + 1]]
  <2>1. ASSUME NEW k \in 0 .. SOCKS_BUF - 1, k < n
        PROVE  buf2[k] \in Byte /\ buf2[k] = D[b.input[k + 1]]
    <3>1. k + 1 \in 1 .. n
      BY <1>2, <2>1
    <3>. QED
      BY <1>6, <2>1, <3>1
  <2>2. ASSUME NEW k \in 0 .. SOCKS_BUF - 1, ~(k < n)
        PROVE  buf2[k] \in Byte
    BY <2>2 DEF Buf
  <2>. QED
    BY <2>1, <2>2
<1>8. buf2 \in Buf
  BY <1>7 DEF Buf
<1>9. b2 \in Bev /\ b2.input = rest
  BY <1>3 DEF Bev
<1>10. rest # <<>> => n = SOCKS_BUF /\ m > SOCKS_BUF
  <2>1. CASE m < SOCKS_BUF
    <3>1. rest = <<>>
      BY <1>2, <2>1, SubSeqEmpty DEF n, m, Drop
    <3>. QED
      BY <3>1
  <2>2. CASE m = SOCKS_BUF
    <3>1. rest = <<>>
      BY <1>2, <2>2, SubSeqEmpty DEF n, m, Drop
    <3>. QED
      BY <3>1
  <2>3. CASE m > SOCKS_BUF
    BY <1>2, <2>3 DEF n
  <2>. QED
    BY <1>2, <2>1, <2>2, <2>3
<1>. HIDE DEF buf2, rest
<1>11. r.n = n /\ r.buf = buf2 /\ r.bev = b2
  BY <1>1
<1>12. rest # <<>> => ReadFull(b, r)
  BY <1>2, <1>7, <1>10, <1>11 DEF ReadFull, m
<1>13. \E k \in 0 .. m : r.n = k /\ r.bev = [b EXCEPT !.input = Drop(b.input, k)]
  BY <1>2, <1>11 DEF rest
<1>. HIDE DEF b2, r
<1>14. DecodeReads(b, r)
  BY <1>2, <1>8, <1>9, <1>11, <1>12, <1>13 DEF DecodeReads, m
<1>. QED
  BY <1>14 DEF r

LEMMA AddOutputIs ==
  ASSUME NEW b \in Bev, NEW data \in Seq(Byte)
  PROVE  LET r == AddOutput(b, data) IN
         /\ r \in Bev /\ r.output = b.output \o data
         /\ r.input = b.input /\ r.st = b.st
<1>. DEFINE out == b.output \o data
            wr == IF b.wr = "idle" THEN "armed" ELSE b.wr
<1>1. b.output \in Seq(Byte) /\ b.wr \in {"off", "idle", "armed"}
  BY DEF Bev
<1>2. out \in Seq(Byte) /\ wr \in {"off", "idle", "armed"}
  BY <1>1, Joined
<1>3. AddOutput(b, data) = [b EXCEPT !.output = out, !.wr = wr]
  BY DEF AddOutput
<1>. HIDE DEF out, wr
<1>4. /\ AddOutput(b, data) \in Bev /\ AddOutput(b, data).output = out
      /\ AddOutput(b, data).input = b.input /\ AddOutput(b, data).st = b.st
  BY <1>2, <1>3 DEF Bev
<1>. QED
  BY <1>4 DEF out

(* A success takes some of the input, answers the greeting and, when        *)
(* anything is left, has read the address and the port where Asked says.    *)
Parsed(b, r) ==
  /\ r.bev \in Bev /\ r.addr \in Seq(Byte) /\ r.bev.st = b.st
  /\ \E a \in Seq(Byte) : b.input = Cat(a, r.bev.input)
  /\ r.bev.output = b.output \o encode_data(<<5, 0>>, password)
  /\ r.bev.input # <<>> =>
       /\ Len(b.input) > 2 * SOCKS_BUF
       /\ r.addr = Asked(encode_data(b.input, D))

LEMMA ReadTakes ==
  ASSUME NEW b \in Bev, NEW r, DecodeReads(b, r)
  PROVE  /\ r.bev \in Bev /\ r.bev.st = b.st /\ r.bev.output = b.output
         /\ \E a \in Seq(Byte) : b.input = Cat(a, r.bev.input)
<1>1. PICK n \in 0 .. Len(b.input) :
        r.n = n /\ r.bev = [b EXCEPT !.input = Drop(b.input, n)]
  BY DEF DecodeReads
<1>2. b.input \in Seq(Byte)
  BY DEF Bev
<1>. DEFINE a == SubSeq(b.input, 1, n)
            rest == Drop(b.input, n)
<1>3. a \in Seq(Byte) /\ b.input = Cat(a, rest)
  BY <1>1, <1>2, CutIs
<1>4. r.bev = [b EXCEPT !.input = rest]
  BY <1>1
<1>. HIDE DEF a, rest
<1>5. r.bev.input = rest /\ r.bev.st = b.st /\ r.bev.output = b.output
  BY <1>4 DEF Bev
<1>. QED
  BY <1>3, <1>5 DEF DecodeReads

LEMMA ParseSocks5 ==
  ASSUME NEW b \in Bev, parse_socks5(b).ret # -1
  PROVE  Parsed(b, parse_socks5(b))
<1>. DEFINE zeros == [k \in 0 .. SOCKS_BUF - 1 |-> 0]
            e == encode_data(<<5, 0>>, password)
            greeting == decode_read(b, zeros)
            reply == AddOutput(greeting.bev, e)
            request == decode_read(reply, greeting.buf)
            buf == request.buf
            addr == <<buf[4], buf[5], buf[6], buf[7]>> \o sin_port(request.n, buf)
<1>1. SOCKS_BUF \in Nat /\ SOCKS_BUF >= 8 /\ 0 \in Byte
  BY ServerAssumption, PassLengthAssumption DEF Byte
<1>2. zeros \in Buf
  BY <1>1 DEF Buf
<1>3. e \in Seq(Byte)
  BY AnswersSeq, DTable, EncodeSeq
<1>4. parse_socks5(b) = [ret |-> 0, bev |-> request.bev, addr |-> addr]
  BY DEF parse_socks5
<1>. HIDE DEF zeros, e
<1>5. DecodeReads(b, greeting)
  BY <1>2, DecodeRead
<1>. HIDE DEF greeting
<1>6. greeting.bev \in Bev /\ greeting.buf \in Buf
  BY <1>5 DEF DecodeReads
<1>7. /\ reply \in Bev /\ reply.output = greeting.bev.output \o e
      /\ reply.input = greeting.bev.input /\ reply.st = greeting.bev.st
  BY <1>3, <1>6, AddOutputIs
<1>. HIDE DEF reply
<1>8. DecodeReads(reply, request)
  BY <1>6, <1>7, DecodeRead
<1>. HIDE DEF request
<1>9. request.bev \in Bev /\ request.buf \in Buf /\ request.n \in 0 .. SOCKS_BUF
  BY <1>8 DEF DecodeReads
<1>10. addr \in Seq(Byte)
  <2>. DEFINE n == request.n
              a1 == IF n - 2 < 0 THEN 0 ELSE buf[n - 2]
              a2 == IF n - 1 < 0 THEN 0 ELSE buf[n - 1]
  <2>1. \A k \in 0 .. SOCKS_BUF - 1 : buf[k] \in Byte
    BY <1>9 DEF Buf
  <2>2. a1 \in Byte /\ a2 \in Byte
    BY <1>1, <1>9, <2>1
  <2>3. sin_port(n, buf) = <<a1, a2>>
    BY DEF sin_port
  <2>. HIDE DEF a1, a2
  <2>4. <<a1, a2>> \in Seq(Byte)
    BY <2>2
  <2>5. <<buf[4], buf[5], buf[6], buf[7]>> \in Seq(Byte)
    <3>1. buf[4] \in Byte /\ buf[5] \in Byte /\ buf[6] \in Byte /\ buf[7] \in Byte
      BY <1>1, <2>1
    <3>. QED
      BY <3>1
  <2>. QED
    BY <2>3, <2>4, <2>5, Joined
<1>11. /\ request.bev.st = b.st /\ request.bev.output = b.output \o e
       /\ \E a \in Seq(Byte) : b.input = Cat(a, request.bev.input)
  <2>1. /\ greeting.bev.st = b.st /\ greeting.bev.output = b.output
        /\ \E a \in Seq(Byte) : b.input = Cat(a, greeting.bev.input)
    BY <1>5, ReadTakes
  <2>2. /\ request.bev.st = reply.st /\ request.bev.output = reply.output
        /\ \E a \in Seq(Byte) : reply.input = Cat(a, request.bev.input)
    BY <1>7, <1>8, ReadTakes
  <2>3. PICK a1 \in Seq(Byte), a2 \in Seq(Byte) :
          /\ b.input = Cat(a1, greeting.bev.input)
          /\ greeting.bev.input = Cat(a2, request.bev.input)
    BY <1>7, <2>1, <2>2
  <2>4. request.bev.input \in Seq(Byte)
    BY <1>9 DEF Bev
  <2>5. b.input = Cat(Cat(a1, a2), request.bev.input)
    BY <2>3, <2>4, CatAssoc
  <2>6. Cat(a1, a2) \in Seq(Byte)
    BY <2>3, CatSeq
  <2>. QED
    BY <1>7, <2>1, <2>2, <2>5, <2>6
<1>12. ASSUME request.bev.input # <<>>
       PROVE  /\ Len(b.input) > 2 * SOCKS_BUF
              /\ addr = Asked(encode_data(b.input, D))
  <2>1. ReadFull(reply, request)
    BY <1>8, <1>12 DEF DecodeReads
  <2>2. Len(greeting.bev.input) > SOCKS_BUF /\ greeting.bev.input # <<>>
    BY <1>1, <1>7, <2>1, EmptySeq DEF ReadFull
  <2>3. ReadFull(b, greeting)
    BY <1>5, <2>2 DEF DecodeReads
  <2>. DEFINE i == b.input
              n == SOCKS_BUF
              t == encode_data(i, D)
              rest == greeting.bev.input
  <2>4. i \in Seq(Byte) /\ Len(i) \in Nat /\ rest = Drop(i, n)
    <3>1. PICK m \in 0 .. Len(i) :
            greeting.n = m /\ greeting.bev = [b EXCEPT !.input = Drop(i, m)]
      BY <1>5 DEF DecodeReads
    <3>2. i \in Seq(Byte) /\ Len(i) \in Nat
      BY LenProperties DEF Bev
    <3>. DEFINE d == Drop(i, m)
    <3>3. greeting.bev = [b EXCEPT !.input = d]
      BY <3>1
    <3>. HIDE DEF d
    <3>4. greeting.bev.input = d
      BY <3>3 DEF Bev
    <3>. QED
      BY <2>3, <3>1, <3>2, <3>4 DEF ReadFull, d
  <2>5. /\ Len(rest) = Len(i) - n
        /\ \A k \in 1 .. Len(i) - n : rest[k] = i[n + k]
    <3>1. /\ n + 1 \in Int /\ Len(i) > n
          /\ \A k \in n + 1 .. Len(i) : i[k] \in Byte
      BY <1>1, <2>3, <2>4, ElementOfSeq DEF ReadFull
    <3>2. /\ Len(rest) = Len(i) - (n + 1) + 1
          /\ \A k \in 1 .. Len(i) - (n + 1) + 1 : rest[k] = i[n + 1 + k - 1]
      BY <1>1, <2>4, <3>1, SubSeqProperties DEF Drop
    <3>3. \A k \in 1 .. Len(i) - n : n + 1 + k - 1 = n + k
      BY <1>1
    <3>4. Len(i) - (n + 1) + 1 = Len(i) - n
      BY <1>1, <2>4
    <3>. QED
      BY <3>2, <3>3, <3>4
  <2>. HIDE DEF rest, i
  <2>6. Len(i) > 2 * n
    BY <1>1, <2>2, <2>4, <2>5 DEF rest
  <2>7. \A k \in 0 .. n - 1 : buf[k] = D[i[n + k + 1]]
    <3>1. \A k \in 0 .. n - 1 : buf[k] = D[rest[k + 1]]
      BY <1>7, <2>1 DEF ReadFull, rest
    <3>2. \A k \in 0 .. n - 1 : rest[k + 1] = i[n + (k + 1)]
      BY <1>1, <2>4, <2>5, <2>6
    <3>3. \A k \in 0 .. n - 1 : n + (k + 1) = n + k + 1
      BY <1>1
    <3>. QED
      BY <3>1, <3>2, <3>3
  <2>8. /\ t \in Seq(Byte) /\ Len(t) = Len(i)
        /\ \A k \in 1 .. Len(i) : t[k] = D[i[k]]
    BY <2>4, DTable, EncodeData
  <2>. HIDE DEF t
  <2>9. \A k \in 0 .. n - 1 : buf[k] = t[n + k + 1]
    BY <1>1, <2>4, <2>6, <2>7, <2>8
  <2>10. /\ buf[4] = t[n + 5] /\ buf[5] = t[n + 6] /\ buf[6] = t[n + 7]
         /\ buf[7] = t[n + 8]
         /\ buf[n - 2] = t[2 * n - 1] /\ buf[n - 1] = t[2 * n]
    <3>1. /\ 4 \in 0 .. n - 1 /\ 5 \in 0 .. n - 1 /\ 6 \in 0 .. n - 1
          /\ 7 \in 0 .. n - 1 /\ n - 2 \in 0 .. n - 1 /\ n - 1 \in 0 .. n - 1
      BY <1>1
    <3>2. /\ n + 4 + 1 = n + 5 /\ n + 5 + 1 = n + 6 /\ n + 6 + 1 = n + 7
          /\ n + 7 + 1 = n + 8 /\ n + (n - 2) + 1 = 2 * n - 1
          /\ n + (n - 1) + 1 = 2 * n
      BY <1>1
    <3>. QED
      BY <2>9, <3>1, <3>2
  <2>11. sin_port(request.n, buf) = <<t[2 * n - 1], t[2 * n]>>
    <3>1. request.n = n /\ ~(n - 2 < 0) /\ ~(n - 1 < 0)
      BY <1>1, <2>1 DEF ReadFull
    <3>2. sin_port(n, buf) = <<buf[n - 2], buf[n - 1]>>
      BY <3>1 DEF sin_port
    <3>3. buf[n - 2] = t[2 * n - 1] /\ buf[n - 1] = t[2 * n]
      BY <2>10
    <3>4. sin_port(request.n, buf) = sin_port(n, buf)
      BY <3>1
    <3>. QED
      BY <3>2, <3>3, <3>4, Zenon
  <2>12. Asked(t) = <<t[n + 5], t[n + 6], t[n + 7], t[n + 8]>>
                      \o <<t[2 * n - 1], t[2 * n]>>
    <3>1. t \in Seq(Byte) /\ Len(t) >= 2 * SOCKS_BUF
      BY <1>1, <2>4, <2>6, <2>8
    <3>. QED
      BY <3>1, AskedIs, Zenon
  <2>13. addr = Asked(t)
    BY <2>10, <2>11, <2>12
  <2>. QED
    BY <2>6, <2>13 DEF t, i
<1>. HIDE DEF addr, buf
<1>. QED
  BY <1>4, <1>9, <1>10, <1>11, <1>12 DEF Parsed, e
-----------------------------------------------------------------------------
(* One connection: sv, rb and ra are its LsServer, remote_bev and addresses, *)
(* B and P its bufferevents and peers.  What lives and what has been dialled *)
(* can be told from the bufferevents.                                       *)
Shape(sv, rb, B, P) ==
  /\ sv = "none" <=> B["local"].st = "none"
  /\ B["local"].st = "live" => sv = "live"
  /\ rb = "null" <=> B["remote"].st = "none"
  /\ rb = "again" <=> B["again"].st # "none"
  /\ sv = "none" => rb = "null"
  /\ \A s \in Side : B[s].st = "none" => B[s] = NoBev /\ P[s] = NewPeer

Good(sv, rb, ra, B, P) ==
  /\ Shape(sv, rb, B, P)
  /\ In(B["local"], P["local"], rb)
  /\ Answers(rb, B["local"], P["local"], B["remote"], P["remote"])
  /\ Addr(sv, rb, ra["remote"], P["local"].sent)
  /\ \A s \in Dialled : Out(B[s], P[s], P["local"].sent)

LEMMA Sides ==
  /\ "local" \in Side /\ "remote" \in Side /\ "again" \in Side
  /\ Dialled = {"remote", "again"}
BY ServerAssumption DEF Dialled

LEMMA NetworkGood ==
  ASSUME NEW sv, NEW rb, NEW ra, NEW B \in [Side -> Bev],
         NEW P \in [Side -> Peer], Good(sv, rb, ra, B, P),
         NEW s \in Side, NEW nb \in Bev, NEW np \in Peer,
         Effect(B[s], P[s], nb, np), NEW B2, NEW P2,
         B2[s] = nb, P2[s] = np,
         \A t \in Side : t # s => B2[t] = B[t] /\ P2[t] = P[t]
  PROVE  Good(sv, rb, ra, B2, P2)
<1>1. B[s].st \in {"live", "held"} /\ nb.st = B[s].st
  BY DEF Effect
<1>2. Shape(sv, rb, B2, P2)
  <2>1. \A t \in Side : B2[t].st = B[t].st
    BY <1>1
  <2>. QED
    BY <1>1, <2>1, Sides DEF Good, Shape
<1>. DEFINE l == B["local"]
            p == P["local"]
            r == B["remote"]
            q == P["remote"]
<1>3. /\ l \in Bev /\ p \in Peer /\ r \in Bev /\ q \in Peer
      /\ p.sent \in Seq(Byte)
  BY Sides, Fields
<1>4. /\ In(l, p, rb) /\ Answers(rb, l, p, r, q)
      /\ Addr(sv, rb, ra["remote"], p.sent)
      /\ \A t \in Dialled : Out(B[t], P[t], p.sent)
  BY DEF Good
<1>5. CASE s = "local"
  <2>1. B2["local"] = nb /\ P2["local"] = np
    BY <1>5
  <2>2. /\ B2["remote"] = r /\ P2["remote"] = q
        /\ \A t \in Dialled : B2[t] = B[t] /\ P2[t] = P[t]
    BY <1>5, Sides
  <2>3. Effect(l, p, nb, np)
    BY <1>5
  <2>. HIDE DEF l, p, r, q
  <2>4. In(nb, np, rb)
    BY <1>3, <1>4, <2>3, InNetwork
  <2>5. Answers(rb, nb, np, r, q)
    <3>1. Answers(rb, l, p, r, q)
      BY <1>4, SMTT(30)
    <3>. QED
      BY <1>3, <2>3, <3>1, AnswersLocal, SMTT(30)
  <2>6. np.sent = p.sent \/ \E x \in Byte : np.sent = Append(p.sent, x)
    BY <2>3 DEF Effect, Says, Loses, Reads, Writes, Quiet
  <2>7. Addr(sv, rb, ra["remote"], np.sent)
    <3>. DEFINE addr == ra["remote"]
    <3>1. Addr(sv, rb, addr, p.sent)
      BY <1>4
    <3>. HIDE DEF addr
    <3>2. \A x \in Byte : Addr(sv, rb, addr, Append(p.sent, x))
      BY <1>3, <3>1, AddrSaid
    <3>3. Addr(sv, rb, addr, np.sent)
      BY <2>6, <3>1, <3>2
    <3>. QED
      BY <3>3 DEF addr
  <2>8. ASSUME NEW t \in Dialled
        PROVE  Out(B2[t], P2[t], np.sent)
    <3>1. B[t] \in Bev /\ P[t] \in Peer /\ Out(B[t], P[t], p.sent)
      BY <1>4 DEF Dialled
    <3>. QED
      BY <1>3, <2>2, <2>6, <3>1, OutSaid
  <2>. QED
    BY <1>2, <2>1, <2>2, <2>4, <2>5, <2>7, <2>8 DEF Good
<1>6. CASE s # "local"
  <2>1. B2["local"] = l /\ P2["local"] = p
    BY <1>6, Sides
  <2>2. Answers(rb, l, p, B2["remote"], P2["remote"])
    <3>1. CASE s = "remote"
      BY <1>3, <1>4, <3>1, AnswersRemote
    <3>2. CASE s # "remote"
      BY <1>4, <3>2, Sides
    <3>. QED
      BY <3>1, <3>2
  <2>3. ASSUME NEW t \in Dialled
        PROVE  Out(B2[t], P2[t], p.sent)
    <3>1. Out(B[t], P[t], p.sent) /\ t \in Side
      BY <1>4 DEF Dialled
    <3>2. CASE t = s
      BY <3>1, <3>2, OutNetwork
    <3>3. CASE t # s
      BY <3>1, <3>3
    <3>. QED
      BY <3>2, <3>3
  <2>. QED
    BY <1>2, <1>4, <2>1, <2>2, <2>3 DEF Good
<1>. QED
  BY <1>5, <1>6

(* Some of the bufferevents of the connection are freed; the LsServer is    *)
(* freed or forgotten only with the local one.                              *)
LEMMA ReleaseGood ==
  ASSUME NEW sv, NEW rb, NEW ra, NEW B \in [Side -> Bev],
         NEW P \in [Side -> Peer],
         Good(sv, rb, ra, B, P), NEW B2, NEW sv2,
         \A t \in Side : B2[t] = B[t] \/ Gone(B[t], B2[t]),
         \/ sv2 = sv
         \/ Gone(B["local"], B2["local"]) /\ sv2 \in {"freed", "leaked"}
  PROVE  Good(sv2, rb, ra, B2, P)
<1>1. Shape(sv2, rb, B2, P)
  <2>1. \A t \in Side : /\ B2[t].st = "none" <=> B[t].st = "none"
                        /\ B2[t].st \in {"none", "live"} => B2[t] = B[t]
    BY DEF Gone
  <2>2. /\ sv2 = "none" <=> B2["local"].st = "none"
        /\ B2["local"].st = "live" => sv2 = "live"
        /\ sv2 = "none" => rb = "null"
    BY <2>1, Sides DEF Good, Shape, Gone
  <2>. QED
    BY <2>1, <2>2, Sides DEF Good, Shape
<1>2. In(B2["local"], P["local"], rb)
  <2>1. B2["local"].st = "live" => B2["local"] = B["local"]
    BY Sides DEF Gone
  <2>. QED
    BY <2>1 DEF Good, In
<1>3. Answers(rb, B2["local"], P["local"], B2["remote"], P["remote"])
  <2>1. /\ B2["local"] = B["local"] \/ Gone(B["local"], B2["local"])
        /\ B2["remote"] = B["remote"] \/ Gone(B["remote"], B2["remote"])
        /\ B["local"] \in Bev /\ P["local"] \in Peer
    BY Sides
  <2>2. Answers(rb, B["local"], P["local"], B["remote"], P["remote"])
    BY DEF Good
  <2>. QED
    BY <2>1, <2>2, AnswersReleased
<1>4. Addr(sv2, rb, ra["remote"], P["local"].sent)
  BY DEF Good, Addr
<1>5. ASSUME NEW t \in Dialled PROVE Out(B2[t], P[t], P["local"].sent)
  <2>1. t \in Side /\ Out(B[t], P[t], P["local"].sent) /\ P[t] \in Peer
    BY DEF Good, Dialled
  <2>2. B2[t].output \in {B[t].output, <<>>}
    BY <2>1, DestroyedType DEF Gone
  <2>. QED
    BY <2>1, <2>2, OutKept
<1>. QED
  BY <1>1, <1>2, <1>3, <1>4, <1>5 DEF Good

LEMMA AcceptGood ==
  ASSUME NEW rb, NEW ra, NEW B, NEW P \in [Side -> Peer],
         Good("none", rb, ra, B, P), NEW B2, NEW l, B2["local"] = l,
         l.st = "live", l.input = <<>>, l.output = <<>>,
         \A t \in Side : t # "local" => B2[t] = B[t]
  PROVE  Good("live", rb, ra, B2, P)
<1>1. B["local"].st = "none" /\ P["local"] = NewPeer /\ rb = "null"
  BY Sides DEF Good, Shape
<1>2. B2["remote"] = B["remote"] /\ \A t \in Dialled : B2[t] = B[t]
  BY Sides
<1>3. Shape("live", rb, B2, P)
  <2>1. \A t \in Side : B2[t].st = "none" => B2[t] = B[t]
    BY <1>2
  <2>. QED
    BY <1>1, <1>2, <2>1, Sides DEF Good, Shape
<1>4. In(l, P["local"], rb)
  BY <1>1, InNew
<1>5. Answers(rb, l, P["local"], B2["remote"], P["remote"])
  BY <1>1 DEF Answers, NewPeer
<1>6. Addr("live", rb, ra["remote"], P["local"].sent)
  BY <1>1 DEF Addr
<1>. QED
  BY <1>2, <1>3, <1>4, <1>5, <1>6 DEF Good

(* remote_readcb: what the destination has said waits for the client.       *)
Copies(B, s, l2, r2, B2) ==
  /\ B["local"].st \in {"live", "held"} /\ B[s].st = "live"
  /\ B2["local"] = l2 /\ B2[s] = r2
  /\ \A t \in Side : t \notin {"local", s} => B2[t] = B[t]
  /\ l2.st = B["local"].st /\ l2.input = B["local"].input
  /\ l2.output = B["local"].output \o encode_data(B[s].input, password)
  /\ r2.st = "live" /\ r2.input = <<>> /\ r2.output = B[s].output

LEMMA CopyGood ==
  ASSUME NEW sv, NEW rb, NEW ra, NEW B \in [Side -> Bev],
         NEW P \in [Side -> Peer], Good(sv, rb, ra, B, P),
         NEW s \in Dialled, NEW l2 \in Bev, NEW r2 \in Bev, NEW B2,
         Copies(B, s, l2, r2, B2)
  PROVE  Good(sv, rb, ra, B2, P)
<1>. USE DEF Copies
<1>. DEFINE l == B["local"]
            p == P["local"]
            r == B["remote"]
            q == P["remote"]
<1>1. /\ l \in Bev /\ p \in Peer /\ r \in Bev /\ q \in Peer /\ s \in Side
  BY Sides
<1>2. Shape(sv, rb, B, P) /\ In(l, p, rb) /\ Answers(rb, l, p, r, q)
  BY DEF Good
<1>3. Shape(sv, rb, B2, P)
  <2>1. \A t \in Side : B2[t].st = B[t].st
    BY Sides
  <2>2. \A t \in Side : B2[t].st = "none" => B2[t] = B[t]
    BY Sides
  <2>. QED
    BY <1>2, <2>1, <2>2, Sides DEF Shape
<1>4. In(l2, p, rb)
  <2>1. Held(l2, p) = Held(l, p)
    BY DEF Held
  <2>. QED
    BY <1>2, <2>1 DEF In
<1>5. Answers(rb, l2, p, B2["remote"], q)
  <2>1. rb # "null"
    BY <1>2, Sides DEF Shape
  <2>2. CASE s = "remote"
    <3>1. B2["remote"] = r2 /\ r.st = "live"
      BY <2>2
    <3>2. l2.output = l.output \o encode_data(r.input, password)
      BY <2>2
    <3>. HIDE DEF l, p, r, q
    <3>3. l.st \in {"live", "held"} /\ l2.st = l.st
      BY DEF l
    <3>4. Answers(rb, l, p, r, q)
      BY <1>2, <2>2 DEF r, q
    <3>5. Answers(rb, l2, p, r2, q)
      BY <1>1, <2>1, <3>1, <3>2, <3>3, <3>4, AnswersCopied, ZenonT(30)
    <3>. QED
      BY <3>1, <3>5
  <2>3. CASE s = "again"
    BY <1>2, <2>1, <2>3 DEF Answers, Shape
  <2>. QED
    BY <2>2, <2>3, Sides
<1>6. ASSUME NEW t \in Dialled PROVE Out(B2[t], P[t], p.sent)
  <2>1. t \in Side /\ Out(B[t], P[t], p.sent) /\ t # "local"
    BY DEF Good, Dialled
  <2>2. B2[t].output = B[t].output
    BY <2>1
  <2>. QED
    BY <2>1, <2>2, OutKept
<1>. QED
  BY <1>3, <1>4, <1>5, <1>6 DEF Good

(* What a dial leaves: the answers wait for the client and the rest of what *)
(* it has said for the destination, or both bufferevents are gone again.    *)
DialLeaves(parsed, sv2, l2, r2) ==
  \/ /\ l2.st = "live" /\ r2.st = "live" /\ sv2 = "live"
     /\ parsed.bev.input # <<>> /\ l2.input = <<>> /\ r2.input = <<>>
     /\ l2.output = parsed.bev.output \o encode_data(socks5_reply, password)
     /\ r2.output = encode_data(parsed.bev.input, D)
  \/ /\ l2 = Destroyed /\ r2 = Destroyed /\ sv2 \in {"freed", "leaked"}

LEMMA DialGood ==
  ASSUME NEW sv, NEW rb, NEW ra, NEW B \in [Side -> Bev],
         NEW P \in [Side -> Peer], Good(sv, rb, ra, B, P),
         B["local"].st = "live", NEW parsed, Parsed(B["local"], parsed),
         NEW s \in Dialled, s = "again" <=> B["remote"].st # "none",
         B[s].st = "none",
         NEW l2 \in Bev, NEW r2 \in Bev, NEW B2, NEW sv2, NEW ra2,
         B2["local"] = l2, B2[s] = r2,
         \A t \in Side : t \notin {"local", s} => B2[t] = B[t],
         ra2[s] = parsed.addr,
         DialLeaves(parsed, sv2, l2, r2)
  PROVE  Good(sv2, s, ra2, B2, P)
<1>. DEFINE l == B["local"]
            p == P["local"]
            i == parsed.bev.input
<1>. USE DEF DialLeaves
<1>1. /\ l \in Bev /\ p \in Peer /\ s \in Side /\ l.st = "live"
      /\ parsed.bev \in Bev /\ i \in Seq(Byte) /\ p.sent \in Seq(Byte)
      /\ l.input \in Seq(Byte) /\ parsed.bev.st = "live"
  <2>1. l \in Bev /\ p \in Peer /\ s \in Side /\ l.st = "live"
    BY Sides
  <2>2. parsed.bev \in Bev /\ parsed.bev.st = "live"
    BY DEF Parsed
  <2>. QED
    BY <2>1, <2>2, Fields
<1>2. Shape(sv, rb, B, P) /\ In(l, p, rb) /\ In(l, p, "remote")
  BY InAnyway DEF Good
<1>3. P[s] = NewPeer
  BY <1>1, <1>2 DEF Shape
<1>4. s \in {"remote", "again"} /\ (s = "remote" => rb = "null")
  BY <1>2, Sides DEF Shape
<1>5. l2.st # "none" /\ r2.st # "none"
  BY DestroyedType
<1>6. Shape(sv2, s, B2, P)
  <2>1. /\ sv2 # "none" /\ l2.st # "none"
        /\ l2.st = "live" => sv2 = "live"
    BY DestroyedType
  <2>2. /\ B2["remote"].st # "none"
        /\ s = "again" <=> B2["again"].st # "none"
    <3>1. CASE s = "remote"
      <4>1. B2["again"] = B["again"] /\ B["again"].st = "none"
        BY <1>2, <1>4, <3>1, Sides DEF Shape
      <4>. QED
        BY <1>5, <3>1, <4>1
    <3>2. CASE s = "again"
      BY <1>5, <3>2, Sides
    <3>. QED
      BY <1>4, <3>1, <3>2
  <2>3. \A t \in Side : B2[t].st = "none" => B2[t] = B[t]
    BY <1>5
  <2>. QED
    BY <1>2, <1>4, <2>1, <2>2, <2>3 DEF Shape
<1>7. In(l2, p, s)
  <2>1. CASE l2.st # "live"
    BY <2>1 DEF In
  <2>2. CASE l2.st = "live"
    <3>1. l2.input = <<>> /\ l.input = Cat(l.input, <<>>) /\ <<>> \in Seq(Byte)
      BY <1>1, <2>2, DestroyedType, CatEmpty, EmptySeq
    <3>. DEFINE a == l.input
                e == <<>>
    <3>. HIDE DEF l, p, e
    <3>2. a \in Seq(Byte) /\ e \in Seq(Byte) /\ l.input = Cat(a, e) /\ l2.input = e
      BY <1>1, <3>1 DEF e
    <3>. HIDE DEF a
    <3>3. In(l2, p, "remote")
      BY <1>1, <1>2, <3>2, InTaken
    <3>. QED
      BY <1>4, <3>3 DEF In
  <2>. QED
    BY <2>1, <2>2
<1>8. ASSUME s = "remote"
      PROVE  Answers("remote", l2, p, r2, NewPeer)
  <2>1. p.got = <<>> /\ l.output = <<>>
    BY <1>4, <1>8 DEF Good, Answers
  <2>2. l2.st = "live" =>
          r2.input = <<>> /\ l2.output = encode_data(answers, password)
    <3>. HAVE l2.st = "live"
    <3>. DEFINE e == encode_data(<<5, 0>>, password)
                f == encode_data(socks5_reply, password)
    <3>1. r2.input = <<>> /\ l2.output = parsed.bev.output \o f
      BY DestroyedType
    <3>2. parsed.bev.output = l.output \o e
      BY DEF Parsed
    <3>3. e \in Seq(Byte) /\ encode_data(answers, password) = e \o f
      BY AnswersSeq, DTable, EncodeSeq
    <3>. HIDE DEF e, f
    <3>4. <<>> \o e = e
      BY <3>3, ConcatEmptySeq
    <3>. QED
      BY <2>1, <3>1, <3>2, <3>3, <3>4
  <2>. QED
    BY <1>1, <2>1, <2>2, AnswersDialled
<1>9. Answers(s, l2, p, B2["remote"], P["remote"])
  BY <1>3, <1>4, <1>8 DEF Answers
<1>10. Addr(sv2, s, ra2["remote"], p.sent)
  <2>. SUFFICES ASSUME sv2 = "live", s = "remote"
                PROVE  LET said == encode_data(p.sent, D) IN
                       /\ Len(said) >= 2 * SOCKS_BUF
                       /\ parsed.addr = Asked(said)
    BY DEF Addr
  <2>1. i # <<>>
    OBVIOUS
  <2>. DEFINE input == l.input
              t == encode_data(input, D)
  <2>2. Len(input) > 2 * SOCKS_BUF /\ parsed.addr = Asked(t)
    BY <2>1 DEF Parsed
  <2>3. PICK v \in Seq(Byte) : p.sent = Cat(<<>>, Cat(Held(l, p), v))
    BY <1>1, <1>2, <1>4 DEF In
  <2>. DEFINE w == p.wire
              rest == Cat(w, v)
              e == encode_data(rest, D)
  <2>4. w \in Seq(Byte) /\ rest \in Seq(Byte) /\ Held(l, p) \in Seq(Byte)
    BY <1>1, <2>3, CatSeq, HeldSeq, Fields
  <2>5. p.sent = Cat(input, rest)
    <3>1. Cat(Held(l, p), v) \in Seq(Byte)
      BY <2>3, <2>4, CatSeq
    <3>2. p.sent = Cat(Held(l, p), v)
      BY <2>3, <3>1, CatEmpty
    <3>3. Held(l, p) = Cat(input, w)
      BY DEF Held
    <3>. HIDE DEF input, w
    <3>4. Cat(Cat(input, w), v) = Cat(input, Cat(w, v))
      BY <1>1, <2>3, <2>4, CatAssoc DEF input
    <3>. QED
      BY <3>2, <3>3, <3>4
  <2>6. input \in Seq(Byte)
    BY <1>1
  <2>. HIDE DEF input, rest
  <2>7. /\ encode_data(Cat(input, rest), D) = Cat(t, e)
        /\ t \in Seq(Byte) /\ e \in Seq(Byte) /\ Len(t) = Len(input)
    BY <2>4, <2>6, DTable, CatEncode, EncodeData
  <2>. HIDE DEF t, e
  <2>8. Len(t) >= 2 * SOCKS_BUF
    <3>1. SOCKS_BUF \in Nat /\ Len(t) \in Nat
      BY <2>7, ServerAssumption, LenProperties
    <3>. QED
      BY <2>2, <2>7, <3>1
  <2>9. Len(Cat(t, e)) >= 2 * SOCKS_BUF /\ Asked(Cat(t, e)) = Asked(t)
    BY <2>7, <2>8, AskedGrows
  <2>. QED
    BY <2>2, <2>5, <2>7, <2>9
<1>11. Out(r2, NewPeer, p.sent)
  <2>1. CASE r2 = Destroyed
    BY <1>1, <2>1, DestroyedType, OutNew
  <2>2. CASE r2 # Destroyed
    <3>1. PICK a \in Seq(Byte) : l.input = Cat(a, i)
      BY DEF Parsed
    <3>2. r2.output = encode_data(i, D)
      BY <2>2
    <3>. DEFINE b == parsed.bev
    <3>3. b.input = i /\ b \in Bev /\ b.st = "live"
      BY <1>1
    <3>. HIDE DEF l, p, b, i
    <3>4. In(b, p, "remote")
      BY <1>1, <1>2, <3>1, <3>3, InTaken
    <3>. QED
      BY <1>1, <3>2, <3>3, <3>4, OutDialled
  <2>. QED
    BY <2>1, <2>2
<1>12. ASSUME NEW t \in Dialled PROVE Out(B2[t], P[t], p.sent)
  <2>1. t \in Side /\ t # "local" /\ Out(B[t], P[t], p.sent)
    BY DEF Good, Dialled
  <2>. QED
    BY <1>3, <1>11, <2>1
<1>. QED
  BY <1>6, <1>7, <1>9, <1>10, <1>12 DEF Good
-----------------------------------------------------------------------------
(* The invariant.                                                           *)
GoodConn(c) ==
  Good(server[c], remote_bev[c], remote_addr[c], bev[c], peer[c])

IInv ==
  /\ TypeOK
  /\ CrashesUndialledOrOnData
  /\ \A c \in Conn : GoodConn(c)

LEMMA Known ==
  ASSUME IInv, NEW c \in Conn
  PROVE  /\ LibEventTypeOK /\ GoodConn(c)
         /\ bev[c] \in [Side -> Bev] /\ peer[c] \in [Side -> Peer]
         /\ server[c] \in ServerState
         /\ remote_bev[c] \in Dialled \cup {"null"}
         /\ Shape(server[c], remote_bev[c], bev[c], peer[c])
BY DEF IInv, TypeOK, LibEventTypeOK, GoodConn, Good

LEMMA SameSides ==
  ASSUME NEW S, NEW f \in [Side -> S], NEW g \in [Side -> S],
         \A t \in Side : f[t] = g[t]
  PROVE  f = g
OBVIOUS

(* Side s of c becomes x and another, of the same connection or not, y.     *)
SetTwo(c, s, d, t, x, y) ==
  bev' = [bev EXCEPT ![c][s] = x, ![d][t] = y]

LEMMA TwoMoves ==
  ASSUME LibEventTypeOK, NEW c \in Conn, NEW s \in Side,
         NEW d \in Conn, NEW t \in Side, d # c \/ t # s,
         NEW x \in Bev, NEW y \in Bev, SetTwo(c, s, d, t, x, y),
         peer' = peer, proc' \in ProcState
  PROVE  /\ LibEventTypeOK'
         /\ bev'[c][s] = x /\ bev'[d][t] = y
         /\ \A e \in Conn, u \in Side :
              (e # c \/ u # s) /\ (e # d \/ u # t) => bev'[e][u] = bev[e][u]
<1>0. bev \in [Conn -> [Side -> Bev]] /\ peer \in [Conn -> [Side -> Peer]]
  BY DEF LibEventTypeOK
<1>. DEFINE h == [bev EXCEPT ![c][s] = x]
            g == bev'
<1>2. /\ h \in [Conn -> [Side -> Bev]] /\ h[c][s] = x
      /\ \A e \in Conn, u \in Side : e # c \/ u # s => h[e][u] = bev[e][u]
  BY <1>0, ReplaceOne
<1>3. g = [h EXCEPT ![d][t] = y]
  BY <1>0 DEF SetTwo
<1>. HIDE DEF h, g
<1>4. /\ g \in [Conn -> [Side -> Bev]] /\ g[d][t] = y
      /\ \A e \in Conn, u \in Side : e # d \/ u # t => g[e][u] = h[e][u]
  BY <1>2, <1>3, ReplaceOne
<1>5. /\ g \in [Conn -> [Side -> Bev]]
      /\ g[c][s] = x /\ g[d][t] = y
      /\ \A e \in Conn, u \in Side :
           (e # c \/ u # s) /\ (e # d \/ u # t) => g[e][u] = bev[e][u]
  BY <1>2, <1>4
<1>. QED
  BY <1>0, <1>5 DEF LibEventTypeOK, g

(* A callback's own bufferevent is only destroyed when its run has ended.   *)
LEMMA FreeBothIs ==
  ASSUME LibEventTypeOK, NEW c \in Conn, NEW s \in Side,
         NEW d \in Conn, NEW t \in Side, d # c \/ t # s,
         bev[c][s].pend # {}, FreeBoth(c, s, d, t)
  PROVE  /\ proc' = proc
         /\ SetTwo(c, s, d, t, Destroyed, bufferevent_clear_free(bev[d][t]))
<1>1. bev[c][s] \in Bev /\ bev \in [Conn -> [Side -> Bev]]
  BY DEF LibEventTypeOK
<1>2. /\ bufferevent_clear_free(bev[c][s]).st # "freed"
      /\ EndRun(bufferevent_clear_free(bev[c][s])) = Destroyed
  BY <1>1, ReleasedInRun
<1>3. /\ bev' = [bev EXCEPT ![c][s] = EndRun(bufferevent_clear_free(bev[c][s])),
                            ![d][t] = bufferevent_clear_free(@)]
      /\ proc' = proc
  BY <1>2 DEF FreeBoth
<1>4. [bev EXCEPT ![c][s] = Destroyed][d][t] = bev[d][t]
  BY <1>1
<1>. QED
  BY <1>1, <1>2, <1>3, <1>4 DEF SetTwo

LEMMA FreedIsGone ==
  ASSUME NEW b \in Bev, b.st = "live"
  PROVE  /\ bufferevent_clear_free(b) \in Bev
         /\ Gone(b, bufferevent_clear_free(b)) /\ Gone(b, Destroyed)
<1>. DEFINE nb == bufferevent_clear_free(b)
<1>1. /\ nb \in Bev
      /\ \/ nb = Destroyed
         \/ nb.st = "held" /\ nb.input = b.input /\ nb.output = b.output
  BY ReleasedIs
<1>2. Destroyed.st = "freed"
  BY DestroyedType
<1>. HIDE DEF nb
<1>3. Gone(b, nb) /\ Gone(b, Destroyed)
  BY <1>1, <1>2 DEF Gone
<1>. QED
  BY <1>1, <1>3 DEF nb

(* The connections a step does not touch.                                   *)
LEMMA Untouched ==
  ASSUME IInv, LibEventTypeOK', NEW d \in Conn,
         \A t \in Side : bev'[d][t] = bev[d][t] /\ peer'[d][t] = peer[d][t],
         server'[d] = server[d], remote_bev'[d] = remote_bev[d],
         remote_addr'[d] = remote_addr[d]
  PROVE  GoodConn(d)'
<1>1. /\ bev[d] \in [Side -> Bev] /\ peer[d] \in [Side -> Peer]
      /\ bev'[d] \in [Side -> Bev] /\ peer'[d] \in [Side -> Peer]
      /\ GoodConn(d)
  BY Known DEF LibEventTypeOK
<1>2. bev'[d] = bev[d] /\ peer'[d] = peer[d]
  BY <1>1, SameSides
<1>. QED
  BY <1>1, <1>2 DEF GoodConn

(* Nothing happens to the connections.                                      *)
LEMMA QuietGood ==
  ASSUME IInv, bev' = bev, peer' = peer, UNCHANGED serverVars,
         proc' \in ProcState, CrashesUndialledOrOnData'
  PROVE  IInv'
BY DEF IInv, TypeOK, LibEventTypeOK, GoodConn, serverVars

LEMMA ReleaseStep ==
  ASSUME IInv, LibEventTypeOK', peer' = peer, proc' # "crashed",
         UNCHANGED <<remote_bev, remote_addr>>,
         server' \in [Conn -> ServerState],
         \A e \in Conn : \A t \in Side :
           bev'[e][t] = bev[e][t] \/ Gone(bev[e][t], bev'[e][t]),
         \A e \in Conn :
           \/ server'[e] = server[e]
           \/ /\ Gone(bev[e]["local"], bev'[e]["local"])
              /\ server'[e] \in {"freed", "leaked"}
  PROVE  IInv'
<1>1. TypeOK' /\ CrashesUndialledOrOnData'
  BY DEF IInv, TypeOK, CrashesUndialledOrOnData
<1>2. ASSUME NEW e \in Conn PROVE GoodConn(e)'
  <2>. DEFINE sv == server[e]
              rb == remote_bev[e]
              ra == remote_addr[e]
              B == bev[e]
              P == peer[e]
              B2 == bev'[e]
              sv2 == server'[e]
  <2>1. /\ B \in [Side -> Bev] /\ P \in [Side -> Peer]
        /\ Good(sv, rb, ra, B, P)
    BY Known DEF GoodConn
  <2>2. /\ \A t \in Side : B2[t] = B[t] \/ Gone(B[t], B2[t])
        /\ \/ sv2 = sv
           \/ Gone(B["local"], B2["local"]) /\ sv2 \in {"freed", "leaked"}
    OBVIOUS
  <2>3. (GoodConn(e)') = Good(sv2, rb, ra, B2, P)
    BY DEF GoodConn
  <2>. HIDE DEF sv, rb, ra, B, P, B2, sv2
  <2>4. Good(sv2, rb, ra, B2, P)
    BY <2>1, <2>2, ReleaseGood
  <2>. QED
    BY <2>3, <2>4
<1>. QED
  BY <1>1, <1>2 DEF IInv
-----------------------------------------------------------------------------
(* The actions.                                                             *)
LEMMA NetworkStepGood ==
  ASSUME IInv, NEW c \in Conn, NEW s \in Side, NetworkStep(c, s)
  PROVE  IInv'
<1>1. Network(c, s) /\ UNCHANGED serverVars
  BY DEF NetworkStep, Network
<1>2. LibEventTypeOK
  BY Known
<1>3. PICK nb \in Bev, np \in Peer :
        Moves(c, s, nb, np) /\ Effect(bev[c][s], peer[c][s], nb, np)
  BY <1>1, <1>2, NetworkEffect
<1>4. proc' # "crashed"
  BY <1>1, NetworkProc DEF Running
<1>5. TypeOK' /\ CrashesUndialledOrOnData'
  BY <1>1, <1>3, <1>4
     DEF IInv, TypeOK, CrashesUndialledOrOnData, serverVars, Moves
<1>6. GoodConn(c)'
  <2>. DEFINE sv == server[c]
              rb == remote_bev[c]
              ra == remote_addr[c]
              B == bev[c]
              P == peer[c]
              B2 == bev'[c]
              P2 == peer'[c]
  <2>1. /\ B \in [Side -> Bev] /\ P \in [Side -> Peer]
        /\ Good(sv, rb, ra, B, P)
    BY Known DEF GoodConn
  <2>2. /\ B2[s] = nb /\ P2[s] = np
        /\ \A t \in Side : t # s => B2[t] = B[t] /\ P2[t] = P[t]
    BY <1>3 DEF Moves
  <2>3. Effect(B[s], P[s], nb, np)
    BY <1>3
  <2>4. (GoodConn(c)') = Good(sv, rb, ra, B2, P2)
    BY <1>1 DEF GoodConn, serverVars
  <2>. HIDE DEF sv, rb, ra, B, P, B2, P2
  <2>5. Good(sv, rb, ra, B2, P2)
    BY <2>1, <2>2, <2>3, NetworkGood
  <2>. QED
    BY <2>4, <2>5
<1>7. ASSUME NEW d \in Conn, d # c PROVE GoodConn(d)'
  <2>1. /\ server'[d] = server[d] /\ remote_bev'[d] = remote_bev[d]
        /\ remote_addr'[d] = remote_addr[d]
    BY <1>1 DEF serverVars
  <2>2. \A t \in Side : bev'[d][t] = bev[d][t] /\ peer'[d][t] = peer[d][t]
    BY <1>3, <1>7 DEF Moves
  <2>3. LibEventTypeOK'
    BY <1>3 DEF Moves
  <2>. QED
    BY <2>1, <2>2, <2>3, Untouched
<1>. QED
  BY <1>5, <1>6, <1>7 DEF IInv

LEMMA AcceptStepGood ==
  ASSUME IInv, NEW c \in Conn, Accept(c)
  PROVE  IInv'
<1>. DEFINE l == NewBev("open", local_cbs)
<1>1. /\ l \in Bev /\ l.st = "live" /\ l.input = <<>> /\ l.output = <<>>
  BY EmptySeq DEF NewBev, NoBev, Bev, local_cbs
<1>2. /\ bev' = [bev EXCEPT ![c]["local"] = l] /\ peer' = peer
      /\ server' = [server EXCEPT ![c] = "live"] /\ server[c] = "none"
      /\ UNCHANGED <<remote_bev, remote_addr>>
      /\ proc' = proc /\ Running
  BY DEF Accept
<1>. HIDE DEF l
<1>3. LibEventTypeOK /\ proc \in ProcState /\ peer[c]["local"] \in Peer
  BY Known, Sides, Entries
<1>4. Moves(c, "local", l, peer[c]["local"])
  BY <1>1, <1>2, <1>3, Sides, MovesIntro
<1>5. LibEventTypeOK' /\ proc' # "crashed"
  BY <1>2, <1>4 DEF Moves, Running
<1>6. /\ server'[c] = "live" /\ server' \in [Conn -> ServerState]
      /\ \A d \in Conn : d # c => server'[d] = server[d]
  BY <1>2 DEF IInv, TypeOK, ServerState
<1>7. TypeOK' /\ CrashesUndialledOrOnData'
  BY <1>2, <1>5, <1>6 DEF IInv, TypeOK, CrashesUndialledOrOnData
<1>8. GoodConn(c)'
  <2>. DEFINE rb == remote_bev[c]
              ra == remote_addr[c]
              B == bev[c]
              P == peer[c]
              B2 == bev'[c]
  <2>1. P \in [Side -> Peer] /\ Good("none", rb, ra, B, P)
    BY <1>2, Known DEF GoodConn
  <2>2. B2["local"] = l /\ \A t \in Side : t # "local" => B2[t] = B[t]
    BY <1>4 DEF Moves
  <2>3. (GoodConn(c)') = Good("live", rb, ra, B2, P)
    BY <1>2, <1>6 DEF GoodConn
  <2>. HIDE DEF rb, ra, B, P, B2
  <2>4. Good("live", rb, ra, B2, P)
    BY <1>1, <2>1, <2>2, AcceptGood
  <2>. QED
    BY <2>3, <2>4
<1>9. ASSUME NEW d \in Conn, d # c PROVE GoodConn(d)'
  <2>1. /\ server'[d] = server[d] /\ remote_bev'[d] = remote_bev[d]
        /\ remote_addr'[d] = remote_addr[d]
    BY <1>2, <1>6, <1>9
  <2>2. \A t \in Side : bev'[d][t] = bev[d][t] /\ peer'[d][t] = peer[d][t]
    BY <1>4, <1>9 DEF Moves
  <2>. QED
    BY <1>5, <2>1, <2>2, Untouched
<1>. QED
  BY <1>7, <1>8, <1>9 DEF IInv

LEMMA NothingDialled ==
  ASSUME IInv, NEW c \in Conn, remote_bev[c] = "null"
  PROVE  \A s \in Dialled : bev[c][s].st = "none"
<1>1. Shape(server[c], remote_bev[c], bev[c], peer[c])
  BY Known
<1>. QED
  BY <1>1, Sides DEF Shape

LEMMA AcceptSetupFailsGood ==
  ASSUME IInv, NEW c \in Conn, AcceptSetupFails(c)
  PROVE  IInv'
<1>1. /\ bev' = bev /\ peer' = peer /\ UNCHANGED serverVars
      /\ proc' = "crashed" /\ server[c] = "none"
  BY DEF AcceptSetupFails, serverVars
<1>2. remote_bev[c] = "null"
  BY <1>1, Known DEF Shape
<1>3. CrashesUndialledOrOnData'
  BY <1>1, <1>2, NothingDialled DEF CrashesUndialledOrOnData
<1>. QED
  BY <1>1, <1>3, QuietGood DEF ProcState

(* A callback of side s of c frees that bufferevent and another one; one of *)
(* the two is the local side of c, whose LsServer is freed or forgotten.    *)
LEMMA TwoFreed ==
  ASSUME IInv, Running, peer' = peer, UNCHANGED <<remote_bev, remote_addr>>,
         NEW c \in Conn, NEW s \in Side, NEW d \in Conn, NEW t \in Side,
         d # c \/ t # s, s = "local" \/ (d = c /\ t = "local"),
         bev[c][s].st = "live", bev[d][t].st = "live",
         bev[c][s].pend # {}, FreeBoth(c, s, d, t),
         NEW sv \in {"freed", "leaked"}, server' = [server EXCEPT ![c] = sv]
  PROVE  IInv'
<1>. DEFINE y == bufferevent_clear_free(bev[d][t])
<1>1. LibEventTypeOK /\ bev[c][s] \in Bev /\ bev[d][t] \in Bev
  BY Known
<1>2. proc' = proc /\ SetTwo(c, s, d, t, Destroyed, y)
  BY <1>1, FreeBothIs
<1>3. /\ y \in Bev /\ Gone(bev[d][t], y)
      /\ Destroyed \in Bev /\ Gone(bev[c][s], Destroyed)
  BY <1>1, FreedIsGone, DestroyedType
<1>. HIDE DEF y
<1>4. proc' \in ProcState /\ proc' # "crashed"
  BY <1>1, <1>2 DEF LibEventTypeOK, Running
<1>5. /\ LibEventTypeOK' /\ bev'[c][s] = Destroyed /\ bev'[d][t] = y
      /\ \A e \in Conn, u \in Side :
           (e # c \/ u # s) /\ (e # d \/ u # t) => bev'[e][u] = bev[e][u]
  BY <1>1, <1>2, <1>3, <1>4, TwoMoves
<1>6. /\ server' \in [Conn -> ServerState] /\ server'[c] = sv
      /\ \A e \in Conn : e # c => server'[e] = server[e]
  BY DEF IInv, TypeOK, ServerState
<1>7. \A e \in Conn : \A u \in Side :
        bev'[e][u] = bev[e][u] \/ Gone(bev[e][u], bev'[e][u])
  BY <1>3, <1>5
<1>8. \A e \in Conn :
        \/ server'[e] = server[e]
        \/ /\ Gone(bev[e]["local"], bev'[e]["local"])
           /\ server'[e] \in {"freed", "leaked"}
  BY <1>3, <1>5, <1>6
<1>. QED
  BY <1>4, <1>5, <1>6, <1>7, <1>8, ReleaseStep

LEMMA ParseFailsGood ==
  ASSUME IInv, NEW c \in Conn, LiveBev(c, "local"),
         "read" \in bev[c]["local"].pend, ParseFails(c), peer' = peer
  PROVE  IInv'
<1>0. UNCHANGED <<remote_bev, remote_addr>>
  BY DEF ParseFails
<1>1. CASE proc' \in {"crashed", "undefined"} /\ UNCHANGED <<bev, server>>
  <2>1. CrashesUndialledOrOnData'
    BY <1>1 DEF CrashesUndialledOrOnData
  <2>. QED
    BY <1>0, <1>1, <2>1, QuietGood DEF ProcState, serverVars
<1>2. ASSUME NEW d \in Conn, NEW s \in Side, <<d, s>> # <<c, "local">>,
             bev[d][s].st = "live", FreeBoth(c, "local", d, s),
             server' = [server EXCEPT ![c] = "leaked"]
      PROVE  IInv'
  <2>1. /\ d # c \/ s # "local"
        /\ bev[c]["local"].pend # {} /\ bev[c]["local"].st = "live" /\ Running
        /\ "local" \in Side
    BY <1>2, Sides DEF LiveBev
  <2>. QED
    BY <1>0, <1>2, <2>1, TwoFreed
<1>. QED
  BY <1>1, <1>2 DEF ParseFails

LEMMA DialFailsGood ==
  ASSUME IInv, NEW c \in Conn, LiveBev(c, "local"),
         "read" \in bev[c]["local"].pend, DialFails(c), peer' = peer
  PROVE  IInv'
<1>. DEFINE l == bev[c]["local"]
<1>0. LibEventTypeOK /\ proc \in ProcState /\ peer[c]["local"] \in Peer
      /\ l \in Bev /\ l.st = "live" /\ l.pend # {} /\ Running
  BY Known, Sides, Entries DEF LiveBev
<1>1. /\ bev' = [bev EXCEPT ![c]["local"] = Destroyed] /\ proc' = proc
      /\ server' = [server EXCEPT ![c] = "leaked"]
      /\ UNCHANGED <<remote_bev, remote_addr>>
  <2>1. EndRun(bufferevent_clear_free(l)) = Destroyed
    BY <1>0, ReleasedInRun
  <2>. QED
    BY <1>0, <2>1 DEF DialFails
<1>2. Destroyed \in Bev /\ Gone(l, Destroyed)
  BY <1>0, FreedIsGone, DestroyedType
<1>3. Moves(c, "local", Destroyed, peer[c]["local"])
  BY <1>0, <1>1, <1>2, Sides, MovesIntro
<1>4. /\ server' \in [Conn -> ServerState] /\ server'[c] = "leaked"
      /\ \A e \in Conn : e # c => server'[e] = server[e]
  BY <1>1 DEF IInv, TypeOK, ServerState
<1>5. \A e \in Conn : \A t \in Side :
        bev'[e][t] = bev[e][t] \/ Gone(bev[e][t], bev'[e][t])
  BY <1>2, <1>3 DEF Moves
<1>6. \A e \in Conn :
        \/ server'[e] = server[e]
        \/ /\ Gone(bev[e]["local"], bev'[e]["local"])
           /\ server'[e] \in {"freed", "leaked"}
  BY <1>2, <1>3, <1>4, Sides DEF Moves
<1>7. LibEventTypeOK' /\ proc' # "crashed"
  BY <1>0, <1>1, <1>3 DEF Moves, Running
<1>. QED
  BY <1>1, <1>4, <1>5, <1>6, <1>7, ReleaseStep

LEMMA DecrefStepGood ==
  ASSUME IInv, NEW c \in Conn, NEW s \in Side, DecrefStep(c, s)
  PROVE  IInv'
<1>1. LibEventTypeOK /\ Decref(c, s) /\ UNCHANGED serverVars
  BY Known DEF DecrefStep
<1>2. /\ Running /\ bev[c][s].st = "held" /\ proc' = proc
      /\ Moves(c, s, Destroyed, peer[c][s])
  BY <1>1, DecrefMoves
<1>3. LibEventTypeOK' /\ proc' # "crashed" /\ peer' = peer
  BY <1>1, <1>2 DEF Moves, Running, Decref
<1>4. Gone(bev[c][s], Destroyed)
  BY <1>2, DestroyedType DEF Gone
<1>5. \A e \in Conn : \A t \in Side :
        bev'[e][t] = bev[e][t] \/ Gone(bev[e][t], bev'[e][t])
  BY <1>2, <1>4 DEF Moves
<1>6. server' = server /\ server' \in [Conn -> ServerState]
  BY <1>1 DEF serverVars, IInv, TypeOK
<1>. QED
  BY <1>1, <1>3, <1>5, <1>6, ReleaseStep DEF serverVars

(* The connection itself after a dial, as it is left by Dial.               *)
LEMMA DialConn ==
  ASSUME IInv, NEW c \in Conn, Running, bev[c]["local"].st = "live",
         NEW parsed, Parsed(bev[c]["local"], parsed), NEW s \in Dialled,
         s = "again" <=> bev[c]["remote"].st # "none", bev[c][s].st = "none",
         NEW l2 \in Bev, NEW r2 \in Bev, NEW sv2 \in ServerState,
         SetTwo(c, "local", c, s, l2, r2),
         server' = [server EXCEPT ![c] = sv2],
         remote_bev' = [remote_bev EXCEPT ![c] = s],
         remote_addr' = [remote_addr EXCEPT ![c][s] = parsed.addr],
         peer' = peer, proc' = proc,
         DialLeaves(parsed, sv2, l2, r2)
  PROVE  IInv'
<1>1. /\ LibEventTypeOK /\ proc' \in ProcState /\ proc' # "crashed"
      /\ "local" \in Side /\ s \in Side /\ s # "local"
  BY Known, Sides DEF LibEventTypeOK, Running
<1>2. /\ LibEventTypeOK'
      /\ bev'[c]["local"] = l2 /\ bev'[c][s] = r2
      /\ \A e \in Conn, t \in Side :
           (e # c \/ t # "local") /\ (e # c \/ t # s) =>
             bev'[e][t] = bev[e][t]
  BY <1>1, TwoMoves
<1>3. /\ server' \in [Conn -> ServerState] /\ server'[c] = sv2
      /\ \A e \in Conn : e # c => server'[e] = server[e]
  BY DEF IInv, TypeOK
<1>4. /\ remote_bev' \in [Conn -> Dialled \cup {"null"}] /\ remote_bev'[c] = s
      /\ \A e \in Conn : e # c => remote_bev'[e] = remote_bev[e]
  BY DEF IInv, TypeOK
<1>5. /\ remote_addr' \in [Conn -> [Dialled -> Seq(Byte)]]
      /\ remote_addr'[c][s] = parsed.addr
      /\ \A e \in Conn : e # c => remote_addr'[e] = remote_addr[e]
  <2>1. /\ parsed.addr \in Seq(Byte)
        /\ remote_addr \in [Conn -> [Dialled -> Seq(Byte)]]
    BY DEF IInv, TypeOK, Parsed
  <2>. QED
    BY <2>1
<1>6. TypeOK' /\ CrashesUndialledOrOnData'
  BY <1>1, <1>2, <1>3, <1>4, <1>5 DEF TypeOK, CrashesUndialledOrOnData
<1>7. GoodConn(c)'
  <2>. DEFINE sv == server[c]
              rb == remote_bev[c]
              ra == remote_addr[c]
              B == bev[c]
              P == peer[c]
              B2 == bev'[c]
              ra2 == remote_addr'[c]
  <2>1. /\ B \in [Side -> Bev] /\ P \in [Side -> Peer]
        /\ Good(sv, rb, ra, B, P)
    BY Known DEF GoodConn
  <2>2. /\ B2["local"] = l2 /\ B2[s] = r2 /\ ra2[s] = parsed.addr
        /\ \A t \in Side : t \notin {"local", s} => B2[t] = B[t]
    BY <1>2, <1>5
  <2>3. /\ B["local"].st = "live" /\ Parsed(B["local"], parsed)
        /\ s = "again" <=> B["remote"].st # "none"
        /\ B[s].st = "none"
    OBVIOUS
  <2>4. (GoodConn(c)') = Good(sv2, s, ra2, B2, P)
    BY <1>3, <1>4 DEF GoodConn
  <2>. HIDE DEF sv, rb, ra, B, P, B2, ra2
  <2>5. Good(sv2, s, ra2, B2, P)
    BY <2>1, <2>2, <2>3, DialGood
  <2>. QED
    BY <2>4, <2>5
<1>8. ASSUME NEW d \in Conn, d # c PROVE GoodConn(d)'
  <2>1. /\ server'[d] = server[d] /\ remote_bev'[d] = remote_bev[d]
        /\ remote_addr'[d] = remote_addr[d]
    BY <1>3, <1>4, <1>5, <1>8
  <2>2. \A t \in Side : bev'[d][t] = bev[d][t] /\ peer'[d][t] = peer[d][t]
    BY <1>2, <1>8
  <2>. QED
    BY <1>2, <2>1, <2>2, Untouched
<1>. QED
  BY <1>6, <1>7, <1>8 DEF IInv

LEMMA NewDialled ==
  LET b == NewBev("connecting", remote_cbs) IN
  b \in Bev /\ b.st = "live" /\ b.input = <<>> /\ b.output = <<>>
BY EmptySeq DEF NewBev, NoBev, Bev, remote_cbs

(* What a dial does: the relay begins, or everything is released.           *)
Dialling(c, parsed, s) ==
  \E l2 \in Bev, r2 \in Bev, sv2 \in ServerState :
    /\ SetTwo(c, "local", c, s, l2, r2)
    /\ server' = [server EXCEPT ![c] = sv2]
    /\ DialLeaves(parsed, sv2, l2, r2)

LEMMA DialDoes ==
  ASSUME IInv, NEW c \in Conn, LiveBev(c, "local"),
         "read" \in bev[c]["local"].pend,
         NEW parsed, Parsed(bev[c]["local"], parsed),
         NEW s \in Dialled, bev[c][s].st = "none", Dial(c, parsed, s)
  PROVE  /\ Dialling(c, parsed, s) /\ proc' = proc
         /\ remote_bev' = [remote_bev EXCEPT ![c] = s]
         /\ remote_addr' = [remote_addr EXCEPT ![c][s] = parsed.addr]
<1>. DEFINE answer == encode_data(socks5_reply, password)
            replied == AddOutput(parsed.bev, answer)
            dst == NewBev("connecting", remote_cbs)
            copy == encode_copy(D, dst, replied)
            l2 == EndRun(copy.src)
<1>0. /\ LibEventTypeOK /\ bev[c]["local"] \in Bev /\ "local" \in Side
      /\ s \in Side /\ s # "local" /\ bev[c]["local"].pend # {}
      /\ bufferevent_clear_free(bev[c][s]) = Destroyed
  <2>1. bev[c][s] = NoBev
    BY Known DEF Shape, Dialled
  <2>2. bufferevent_clear_free(NoBev) = Destroyed
    BY DEF bufferevent_clear_free, Released, NoBev
  <2>. QED
    BY <2>1, <2>2, Known, Sides
<1>1. /\ remote_bev' = [remote_bev EXCEPT ![c] = s]
      /\ remote_addr' = [remote_addr EXCEPT ![c][s] = parsed.addr]
      /\ proc' = proc
      /\ IF copy.ret = -1 \/ "event" \in parsed.bev.pend THEN
           /\ SetTwo(c, "local", c, s, Destroyed, Destroyed)
           /\ server' = [server EXCEPT ![c] =
                           IF copy.ret = -1 THEN "leaked" ELSE "freed"]
         ELSE
           /\ SetTwo(c, "local", c, s, l2, copy.dst)
           /\ server' = server
  <2>. HIDE DEF l2, copy
  <2>1. /\ remote_bev' = [remote_bev EXCEPT ![c] = s]
        /\ remote_addr' = [remote_addr EXCEPT ![c][s] = parsed.addr]
        /\ IF copy.ret = -1 \/ "event" \in parsed.bev.pend THEN
             /\ FreeBoth(c, "local", c, s)
             /\ server' = [server EXCEPT ![c] =
                             IF copy.ret = -1 THEN "leaked" ELSE "freed"]
           ELSE
             /\ SetTwo(c, "local", c, s, l2, copy.dst)
             /\ UNCHANGED <<proc, server>>
    BY DEF Dial, SetTwo, decode_copy, D, l2, copy
  <2>2. FreeBoth(c, "local", c, s) =>
          proc' = proc /\ SetTwo(c, "local", c, s, Destroyed, Destroyed)
    BY <1>0, FreeBothIs
  <2>. QED
    BY <2>1, <2>2
<1>2. Running /\ bev[c]["local"].st = "live"
  BY DEF LiveBev
<1>3. answer \in Seq(Byte) /\ parsed.bev \in Bev /\ parsed.bev.st = "live"
  BY <1>2, AnswersSeq, DTable, EncodeSeq DEF Parsed
<1>4. /\ replied \in Bev /\ replied.output = parsed.bev.output \o answer
      /\ replied.input = parsed.bev.input /\ replied.st = "live"
  BY <1>3, AddOutputIs
<1>5. /\ dst \in Bev /\ dst.st = "live" /\ dst.input = <<>>
      /\ dst.output = <<>>
  BY NewDialled
<1>. HIDE DEF answer, replied, dst
<1>6. CASE copy.ret = -1 \/ "event" \in parsed.bev.pend
  <2>. DEFINE sv == IF copy.ret = -1 THEN "leaked" ELSE "freed"
  <2>1. server' = [server EXCEPT ![c] = sv]
    BY <1>1, <1>6
  <2>2. sv \in {"freed", "leaked"} /\ sv \in ServerState
    BY DEF ServerState
  <2>3. SetTwo(c, "local", c, s, Destroyed, Destroyed)
    BY <1>1, <1>6
  <2>4. Destroyed \in Bev
    BY DestroyedType
  <2>5. DialLeaves(parsed, sv, Destroyed, Destroyed)
    BY <2>2 DEF DialLeaves
  <2>. HIDE DEF sv, copy
  <2>. QED
    BY <1>1, <2>1, <2>2, <2>3, <2>4, <2>5 DEF Dialling
<1>7. CASE ~(copy.ret = -1 \/ "event" \in parsed.bev.pend)
  <2>1. SetTwo(c, "local", c, s, l2, copy.dst) /\ server' = server
    BY <1>1, <1>7
  <2>2. replied.input # <<>>
    BY <1>7 DEF encode_copy
  <2>3. Copied(D, dst, replied, copy)
    BY <1>4, <1>5, <2>2, DTable, CopyType
  <2>. DEFINE r2 == copy.dst
  <2>4. /\ l2 \in Bev /\ l2.st = "live" /\ l2.input = <<>>
        /\ l2.output = replied.output
    <3>1. copy.src \in Bev
      BY <2>3 DEF Copied
    <3>2. /\ copy.src.st = "live" /\ copy.src.input = <<>>
          /\ copy.src.output = replied.output
      BY <1>4, <2>3 DEF Copied, Bev
    <3>. HIDE DEF copy
    <3>. QED
      BY <3>1, <3>2 DEF Bev, EndRun
  <2>5. /\ r2 \in Bev /\ r2.st = "live" /\ r2.input = <<>>
        /\ r2.output = <<>> \o encode_data(replied.input, D)
    BY <1>5, <2>3 DEF Copied, Bev
  <2>. HIDE DEF l2, r2, copy
  <2>6. r2.output = encode_data(parsed.bev.input, D)
    <3>1. encode_data(parsed.bev.input, D) \in Seq(Byte)
      BY <1>3, DTable, EncodeSeq DEF Bev
    <3>. QED
      BY <1>4, <2>5, <3>1, ConcatEmptySeq
  <2>7. server' = [server EXCEPT ![c] = "live"] /\ "live" \in ServerState
    <3>1. server[c] = "live" /\ server \in [Conn -> ServerState]
      BY <1>2, Known DEF Shape, IInv, TypeOK
    <3>. QED
      BY <2>1, <3>1 DEF ServerState
  <2>8. SetTwo(c, "local", c, s, l2, r2)
    BY <2>1 DEF r2
  <2>9. DialLeaves(parsed, "live", l2, r2)
    BY <1>4, <2>2, <2>4, <2>5, <2>6 DEF DialLeaves, answer
  <2>. QED
    BY <1>1, <2>4, <2>5, <2>7, <2>8, <2>9 DEF Dialling
<1>. QED
  BY <1>6, <1>7

LEMMA DialStepGood ==
  ASSUME IInv, NEW c \in Conn, LiveBev(c, "local"),
         "read" \in bev[c]["local"].pend,
         NEW parsed, Parsed(bev[c]["local"], parsed), NEW s \in Dialled,
         s = "again" <=> bev[c]["remote"].st # "none", bev[c][s].st = "none",
         Dial(c, parsed, s), peer' = peer
  PROVE  IInv'
<1>1. /\ Dialling(c, parsed, s) /\ proc' = proc
      /\ remote_bev' = [remote_bev EXCEPT ![c] = s]
      /\ remote_addr' = [remote_addr EXCEPT ![c][s] = parsed.addr]
  BY DialDoes
<1>2. PICK l2 \in Bev, r2 \in Bev, sv2 \in ServerState :
        /\ SetTwo(c, "local", c, s, l2, r2)
        /\ server' = [server EXCEPT ![c] = sv2]
        /\ DialLeaves(parsed, sv2, l2, r2)
  BY <1>1 DEF Dialling
<1>3. Running /\ bev[c]["local"].st = "live"
  BY DEF LiveBev
<1>. QED
  BY <1>1, <1>2, <1>3, DialConn

LEMMA LocalReadGood ==
  ASSUME IInv, NEW c \in Conn, local_readcb(c)
  PROVE  IInv'
<1>. DEFINE b == bev[c]["local"]
            parsed == parse_socks5(b)
<1>1. /\ LiveBev(c, "local") /\ "read" \in bev[c]["local"].pend
      /\ peer' = peer
  BY DEF local_readcb
<1>2. CASE parsed.ret = -1
  <2>1. ParseFails(c)
    BY <1>2 DEF local_readcb
  <2>. QED
    BY <1>1, <2>1, ParseFailsGood
<1>3. CASE parsed.ret # -1
  <2>1. b \in Bev
    BY Known, Sides
  <2>2. Parsed(b, parsed)
    BY <1>3, <2>1, ParseSocks5
  <2>3. \/ DialFails(c)
        \/ \E s \in Dialled :
             /\ s = "again" <=> bev[c]["remote"].st # "none"
             /\ bev[c][s].st = "none"
             /\ Dial(c, parsed, s)
    BY <1>3 DEF local_readcb
  <2>. HIDE DEF parsed
  <2>. QED
    BY <1>1, <2>2, <2>3, DialFailsGood, DialStepGood
<1>. QED
  BY <1>2, <1>3

LEMMA LocalEventGood ==
  ASSUME IInv, NEW c \in Conn, local_eventcb(c)
  PROVE  IInv'
<1>. DEFINE s == remote_bev[c]
<1>1. /\ Running /\ bev[c]["local"].st = "live" /\ peer' = peer
      /\ UNCHANGED <<remote_bev, remote_addr>>
  BY DEF local_eventcb, LiveBev
<1>2. CASE s = "null"
  <2>1. proc' = "crashed" /\ UNCHANGED <<bev, server>>
    BY <1>2 DEF local_eventcb
  <2>2. CrashesUndialledOrOnData'
    BY <1>2, <2>1, NothingDialled DEF CrashesUndialledOrOnData
  <2>. QED
    BY <1>1, <2>1, <2>2, QuietGood DEF ProcState, serverVars
<1>3. CASE s # "null" /\ (bev[c][s].st # "live" \/ server[c] # "live")
  <2>1. proc' = "undefined" /\ UNCHANGED <<bev, server>>
    BY <1>3 DEF local_eventcb
  <2>2. CrashesUndialledOrOnData'
    BY <2>1 DEF CrashesUndialledOrOnData
  <2>. QED
    BY <1>1, <2>1, <2>2, QuietGood DEF ProcState, serverVars
<1>4. CASE s # "null" /\ bev[c][s].st = "live" /\ server[c] = "live"
  <2>1. /\ FreeBoth(c, "local", c, s) /\ bev[c]["local"].pend # {}
        /\ server' = [server EXCEPT ![c] = "freed"]
    BY <1>4 DEF local_eventcb
  <2>2. s \in Side /\ s # "local" /\ "local" \in Side
    BY <1>4, Known, Sides
  <2>. HIDE DEF s
  <2>. QED
    BY <1>1, <1>4, <2>1, <2>2, TwoFreed
<1>. QED
  BY <1>2, <1>3, <1>4

LEMMA RemoteReadGood ==
  ASSUME IInv, NEW c \in Conn, NEW s \in Side, remote_readcb(c, s)
  PROVE  IInv'
<1>. DEFINE l == bev[c]["local"]
            r == bev[c][s]
            copy == encode_copy(password, l, r)
            r2 == EndRun(copy.src)
<1>1. /\ Running /\ r.st = "live" /\ r.pend # {} /\ s \in Dialled
      /\ peer' = peer
      /\ UNCHANGED <<remote_bev, remote_addr>>
  BY DEF remote_readcb, LiveBev
<1>2. /\ LibEventTypeOK /\ l \in Bev /\ r \in Bev /\ server[c] \in ServerState
      /\ proc \in ProcState /\ "local" \in Side /\ s # "local"
      /\ l.st # "none"
  <2>1. l.st # "none"
    BY <1>1, Known, Sides DEF Shape
  <2>. QED
    BY <1>1, <2>1, Known, Sides DEF LibEventTypeOK
<1>3. CASE \/ server[c] = "freed" \/ l.st = "freed"
           \/ copy.ret = -1 /\ l.st # "live"
  <2>1. proc' = "undefined" /\ UNCHANGED <<bev, server>>
    BY <1>3 DEF remote_readcb
  <2>2. CrashesUndialledOrOnData'
    BY <2>1 DEF CrashesUndialledOrOnData
  <2>. QED
    BY <1>1, <2>1, <2>2, QuietGood DEF ProcState, serverVars
<1>4. CASE l.st = "live" /\ server[c] # "freed" /\ copy.ret = -1
  <2>1. /\ FreeBoth(c, s, c, "local")
        /\ server' = [server EXCEPT ![c] = "leaked"]
    BY <1>4 DEF remote_readcb
  <2>. QED
    BY <1>1, <1>2, <1>4, <2>1, TwoFreed
<1>5. CASE l.st # "freed" /\ server[c] # "freed" /\ copy.ret # -1
  <2>0. l.st \in {"live", "held"}
    BY <1>2, <1>5 DEF Bev
  <2>. DEFINE l2 == copy.dst
  <2>1. /\ SetTwo(c, "local", c, s, l2, r2)
        /\ proc' = proc /\ server' = server
    BY <1>5 DEF remote_readcb, SetTwo
  <2>2. r.input # <<>>
    BY <1>5 DEF encode_copy
  <2>. HIDE DEF l, r
  <2>3. Copied(password, l, r, copy)
    BY <1>2, <2>2, DTable, CopyType
  <2>4. /\ l2 \in Bev /\ l2.st = l.st /\ l2.input = l.input
        /\ l2.output = l.output \o encode_data(r.input, password)
    BY <1>2, <1>5, <2>3 DEF Copied, Bev
  <2>5. /\ r2 \in Bev /\ r2.st = "live" /\ r2.input = <<>>
        /\ r2.output = r.output
    <3>1. copy.src \in Bev
      BY <2>3 DEF Copied
    <3>2. /\ copy.src.st = "live" /\ copy.src.input = <<>>
          /\ copy.src.output = r.output
      BY <1>1, <1>2, <2>3 DEF Copied, Bev
    <3>. HIDE DEF copy
    <3>. QED
      BY <3>1, <3>2 DEF Bev, EndRun
  <2>. HIDE DEF l2, r2, copy
  <2>6. proc' \in ProcState /\ proc' # "crashed"
    BY <1>1, <1>2, <2>1 DEF Running
  <2>7. /\ LibEventTypeOK'
        /\ bev'[c]["local"] = l2 /\ bev'[c][s] = r2
        /\ \A e \in Conn, t \in Side :
             (e # c \/ t # "local") /\ (e # c \/ t # s) =>
               bev'[e][t] = bev[e][t]
    BY <1>1, <1>2, <2>1, <2>4, <2>5, <2>6, TwoMoves
  <2>8. TypeOK' /\ CrashesUndialledOrOnData'
    BY <1>1, <2>1, <2>6, <2>7 DEF IInv, TypeOK, CrashesUndialledOrOnData
  <2>9. GoodConn(c)'
    <3>. DEFINE sv == server[c]
                rb == remote_bev[c]
                ra == remote_addr[c]
                B == bev[c]
                P == peer[c]
                B2 == bev'[c]
    <3>1. /\ B \in [Side -> Bev] /\ P \in [Side -> Peer]
          /\ Good(sv, rb, ra, B, P)
      BY Known DEF GoodConn
    <3>2. /\ B2["local"] = l2 /\ B2[s] = r2
          /\ \A t \in Side : t \notin {"local", s} => B2[t] = B[t]
      BY <2>7
    <3>3. B["local"] = l /\ B[s] = r
      BY DEF l, r
    <3>4. (GoodConn(c)') = Good(sv, rb, ra, B2, P)
      BY <1>1, <2>1 DEF GoodConn
    <3>. HIDE DEF sv, rb, ra, B, P, B2
    <3>5. Copies(B, s, l2, r2, B2)
      BY <1>1, <2>0, <2>4, <2>5, <3>2, <3>3 DEF Copies
    <3>6. Good(sv, rb, ra, B2, P)
      BY <1>1, <2>4, <2>5, <3>1, <3>5, CopyGood
    <3>. QED
      BY <3>4, <3>6
  <2>10. ASSUME NEW d \in Conn, d # c PROVE GoodConn(d)'
    <3>1. /\ server'[d] = server[d] /\ remote_bev'[d] = remote_bev[d]
          /\ remote_addr'[d] = remote_addr[d]
      BY <1>1, <2>1
    <3>2. \A t \in Side : bev'[d][t] = bev[d][t] /\ peer'[d][t] = peer[d][t]
      BY <1>1, <2>7, <2>10
    <3>. QED
      BY <2>7, <3>1, <3>2, Untouched
  <2>. QED
    BY <2>8, <2>9, <2>10 DEF IInv
<1>. QED
  BY <1>3, <1>4, <1>5
-----------------------------------------------------------------------------
LEMMA InitGood == Init => IInv
<1>. SUFFICES ASSUME Init PROVE IInv
  OBVIOUS
<1>1. NoBev \in Bev /\ NewPeer \in Peer
  BY EmptySeq DEF NoBev, NewPeer, Bev, Peer
<1>2. TypeOK /\ CrashesUndialledOrOnData
  BY <1>1, EmptySeq DEF Init, LibEventInit, TypeOK, LibEventTypeOK, ProcState,
     ServerState, CrashesUndialledOrOnData
<1>3. ASSUME NEW c \in Conn PROVE GoodConn(c)
  <2>. DEFINE B == bev[c]
              P == peer[c]
              ra == remote_addr[c]
  <2>1. /\ \A s \in Side : B[s] = NoBev /\ P[s] = NewPeer
        /\ server[c] = "none" /\ remote_bev[c] = "null"
    BY DEF Init, LibEventInit
  <2>2. (GoodConn(c)) = Good("none", "null", ra, B, P)
    BY <2>1 DEF GoodConn
  <2>. HIDE DEF B, P, ra
  <2>3. /\ B["local"] = NoBev /\ B["remote"] = NoBev /\ B["again"] = NoBev
        /\ P["local"] = NewPeer /\ P["remote"] = NewPeer
    BY <2>1, Sides
  <2>4. NoBev.st = "none" /\ NoBev.output = <<>> /\ NewPeer.got = <<>>
        /\ NewPeer.sent = <<>>
    BY DEF NoBev, NewPeer
  <2>5. Shape("none", "null", B, P)
    BY <2>1, <2>3, <2>4 DEF Shape
  <2>6. In(B["local"], P["local"], "null")
    BY <2>3, <2>4 DEF In
  <2>7. Answers("null", B["local"], P["local"], B["remote"], P["remote"])
    BY <2>3, <2>4 DEF Answers
  <2>8. Addr("none", "null", ra["remote"], P["local"].sent)
    BY DEF Addr
  <2>9. ASSUME NEW s \in Dialled PROVE Out(B[s], P[s], P["local"].sent)
    <3>1. B[s] = NoBev /\ P[s] = NewPeer /\ <<>> \in Seq(Byte)
      BY <2>1, EmptySeq DEF Dialled
    <3>. QED
      BY <2>3, <2>4, <3>1, OutNew
  <2>10. Good("none", "null", ra, B, P)
    BY <2>5, <2>6, <2>7, <2>8, <2>9 DEF Good
  <2>. QED
    BY <2>2, <2>10
<1>. QED
  BY <1>2, <1>3 DEF IInv

LEMMA StepGood == IInv /\ [Next]_vars => IInv'
<1>. SUFFICES ASSUME IInv, [Next]_vars PROVE IInv'
  OBVIOUS
<1>0. proc \in ProcState
  BY DEF IInv, TypeOK, LibEventTypeOK
<1>1. CASE UNCHANGED vars
  <2>1. /\ bev' = bev /\ peer' = peer /\ UNCHANGED serverVars /\ proc' = proc
        /\ CrashesUndialledOrOnData'
    BY <1>1 DEF vars, serverVars, IInv, CrashesUndialledOrOnData
  <2>. QED
    BY <1>0, <2>1, QuietGood
<1>2. ASSUME NEW c \in Conn,
             \/ Accept(c) \/ AcceptSetupFails(c)
             \/ local_readcb(c) \/ local_eventcb(c)
      PROVE  IInv'
  BY <1>2, AcceptStepGood, AcceptSetupFailsGood, LocalReadGood, LocalEventGood
<1>3. ASSUME NEW c \in Conn, NEW s \in Side,
             remote_readcb(c, s) \/ NetworkStep(c, s) \/ DecrefStep(c, s)
      PROVE  IInv'
  BY <1>3, RemoteReadGood, NetworkStepGood, DecrefStepGood
<1>4. CASE listener_errorcb \/ signal_cb \/ LoopExit
  <2>1. /\ bev' = bev /\ peer' = peer /\ UNCHANGED serverVars
        /\ proc' \in {"exiting", "stopped"}
    BY <1>4 DEF listener_errorcb, signal_cb, LoopExit, AcceptError, SigInt,
       LoopTimer
  <2>2. CrashesUndialledOrOnData'
    BY <2>1 DEF CrashesUndialledOrOnData
  <2>. QED
    BY <2>1, <2>2, QuietGood DEF ProcState
<1>. QED
  BY <1>1, <1>2, <1>3, <1>4 DEF Next

LEMMA IInvHolds == Spec => []IInv
BY InitGood, StepGood, PTL DEF Spec

(* server->remote_bev is NULL or a dialled bufferevent and buffers hold     *)
(* bytes, whatever the callbacks do (server.c:31-35, 177).                  *)
THEOREM ServerTypeOK == Spec => []TypeOK
<1>1. IInv => TypeOK
  BY DEF IInv
<1>. QED
  BY <1>1, IInvHolds, PTL

(* Every destination hears a piece of what its client has said, without     *)
(* gaps and in order, however the bytes are split over the server's reads   *)
(* (server.c:82, 194).                                                      *)
THEOREM ServerDestinationHearsAPiece == Spec => []DestinationHearsAPiece
<1>1. IInv => DestinationHearsAPiece
  <2>. SUFFICES ASSUME IInv, NEW c \in Conn, NEW s \in Dialled
                PROVE  \E k \in 0 .. Len(Said(c)) - Len(peer[c][s].got) :
                         peer[c][s].got
                           = SubSeq(Said(c), k + 1, k + Len(peer[c][s].got))
    BY DEF DestinationHearsAPiece
  <2>1. Piece(peer[c][s].got, Said(c))
    <3>1. Out(bev[c][s], peer[c][s], peer[c]["local"].sent)
      BY Known DEF GoodConn, Good
    <3>. QED
      BY <3>1, SaidIs DEF Out
  <2>2. peer[c][s].got \in Seq(Byte)
    BY Known DEF Dialled, Peer
  <2>. QED
    BY <2>1, <2>2, PieceIsSubSeq
<1>. QED
  BY <1>1, IInvHolds, PTL

(* What a client hears begins with the answer to its greeting and the       *)
(* answer to its request, and goes on with what the destination says        *)
(* (server.c:70-72, 188-190, 141).                                          *)
THEOREM ServerAnswersInOrder == Spec => []AnswersInOrder
<1>1. IInv => AnswersInOrder
  <2>. SUFFICES ASSUME IInv, NEW c \in Conn, remote_bev[c] # "again"
                PROVE  IsPrefix(peer[c]["local"].got,
                         encode_data(<<5, 0>> \o socks5_reply
                                       \o peer[c]["remote"].sent, password))
    BY DEF AnswersInOrder
  <2>. DEFINE l == bev[c]["local"]
              p == peer[c]["local"]
              r == bev[c]["remote"]
              q == peer[c]["remote"]
  <2>1. /\ p \in Peer /\ q \in Peer /\ remote_bev[c] \in {"null", "remote"}
        /\ Answers(remote_bev[c], l, p, r, q)
    BY Known, Sides DEF GoodConn, Good
  <2>2. Echo(q) = encode_data(<<5, 0>> \o socks5_reply \o q.sent, password)
    BY DEF Echo, answers, Cat
  <2>3. /\ Echo(q) \in Seq(Byte)
        /\ Echo(q) = encode_data(Answered(q).sent, password)
    BY <2>1, AnsweredPeer
  <2>4. IsPrefix(p.got, Echo(q))
    <3>1. CASE remote_bev[c] = "null"
      <4>1. p.got = <<>>
        BY <2>1, <3>1 DEF Answers
      <4>2. <<>> \o Echo(q) = Echo(q) /\ <<>> \in Seq(Byte)
        BY <2>3, ConcatEmptySeq, EmptySeq
      <4>3. IsPrefix(<<>>, <<>> \o Echo(q))
        BY <2>3, <4>2, PrefixIntro
      <4>. QED
        BY <4>1, <4>2, <4>3
    <3>2. CASE remote_bev[c] = "remote"
      BY <2>1, <2>3, <3>2 DEF Answers, Ordered
    <3>. QED
      BY <2>1, <3>1, <3>2
  <2>. QED
    BY <2>2, <2>4
<1>. QED
  BY <1>1, IInvHolds, PTL

(* The address a relaying connection has dialled is the one in the bytes    *)
(* SOCKS_BUF + 5 to SOCKS_BUF + 8 of what the client has said, the port in  *)
(* the last two of the first 2 * SOCKS_BUF: parse_socks5 takes it from      *)
(* where a second full read has put it (server.c:95, 103, 194).             *)
THEOREM ServerDialledAddress == Spec => []DialledAddress
<1>1. IInv => DialledAddress
  <2>. SUFFICES ASSUME IInv, NEW c \in Conn, Relays(c)
                PROVE  remote_addr[c]["remote"] = Asked(Said(c))
    BY DEF DialledAddress, Asked
  <2>1. Addr(server[c], remote_bev[c], remote_addr[c]["remote"],
             peer[c]["local"].sent)
    BY Known DEF GoodConn, Good
  <2>. QED
    BY <2>1, SaidIs DEF Addr, Relays
<1>. QED
  BY <1>1, IInvHolds, PTL

(* A crash needs a connection for which nothing has been dialled yet, or    *)
(* data of a client: once a destination is dialled, neither side can crash  *)
(* the server by going away (server.c:177, 202-210).                        *)
THEOREM ServerCrashes == Spec => []CrashesUndialledOrOnData
<1>1. IInv => CrashesUndialledOrOnData
  BY DEF IInv
<1>. QED
  BY <1>1, IInvHolds, PTL
-----------------------------------------------------------------------------
(* The only connection of a server, through which no second exchange comes. *)
(* A greeting begins with 5; after the first two reads of parse_socks5,     *)
(* which took 2 * SOCKS_BUF bytes if anything is relayed, the client says   *)
(* nothing that decodes to 5.  A later parse_socks5 then fails.             *)
NoGreeting(s) == \A i \in 1 .. Len(s) : D[s[i]] # 5

NoLaterGreeting ==
  \A i \in 1 .. Len(Stream["local"]) :
    i > 2 * SOCKS_BUF => D[Stream["local"][i]] # 5

(* What has been said is the beginning of the stream.                       *)
Fed(sent) ==
  /\ Len(sent) <= Len(Stream["local"])
  /\ \A i \in 1 .. Len(sent) : sent[i] = Stream["local"][i]

(* The first two reads are over and no greeting waits or is on its way.     *)
Past(l, p) ==
  /\ Len(p.sent) >= 2 * SOCKS_BUF
  /\ NoGreeting(l.input) /\ NoGreeting(p.wire)

(* Nothing is dialled twice, and the two sides of a relay live and end      *)
(* together.                                                                *)
Single(rb, B, P) ==
  /\ Fed(P["local"].sent)
  /\ rb # "again"
  /\ rb = "remote" =>
       /\ B["local"].st = "live" <=> B["remote"].st = "live"
       /\ B["local"].st = "live" => Past(B["local"], P["local"])

Alone ==
  /\ proc = "undefined" => \E c \in Conn : FreesUnassigned(c)
  /\ \A c \in Conn : Single(remote_bev[c], bev[c], peer[c])

LEMMA NoGreetingConcat ==
  ASSUME NEW s \in Seq(Byte), NEW t \in Seq(Byte), NoGreeting(s), NoGreeting(t)
  PROVE  NoGreeting(s \o t)
<1>. DEFINE st == s \o t
<1>1. /\ Len(st) = Len(s) + Len(t) /\ Len(s) \in Nat /\ Len(t) \in Nat
      /\ \A i \in 1 .. Len(s) + Len(t) :
           st[i] = IF i <= Len(s) THEN s[i] ELSE t[i - Len(s)]
  BY ConcatProperties, LenProperties
<1>. HIDE DEF st
<1>2. ASSUME NEW i \in 1 .. Len(st) PROVE D[st[i]] # 5
  <2>1. CASE i <= Len(s)
    <3>1. i \in 1 .. Len(s) /\ st[i] = s[i]
      BY <1>1, <2>1
    <3>. QED
      BY <3>1 DEF NoGreeting
  <2>2. CASE ~(i <= Len(s))
    <3>1. i - Len(s) \in 1 .. Len(t) /\ st[i] = t[i - Len(s)]
      BY <1>1, <2>2
    <3>. QED
      BY <3>1 DEF NoGreeting
  <2>. QED
    BY <2>1, <2>2
<1>3. NoGreeting(st)
  BY <1>2 DEF NoGreeting
<1>. QED
  BY <1>3 DEF st

LEMMA NoGreetingParts ==
  ASSUME NEW s \in Seq(Byte), NEW t \in Seq(Byte), NoGreeting(s \o t)
  PROVE  NoGreeting(s) /\ NoGreeting(t)
<1>. DEFINE st == s \o t
<1>1. /\ Len(st) = Len(s) + Len(t) /\ Len(s) \in Nat /\ Len(t) \in Nat
      /\ \A i \in 1 .. Len(s) + Len(t) :
           st[i] = IF i <= Len(s) THEN s[i] ELSE t[i - Len(s)]
  BY ConcatProperties, LenProperties
<1>0. NoGreeting(st)
  OBVIOUS
<1>. HIDE DEF st
<1>2. ASSUME NEW i \in 1 .. Len(s) PROVE D[s[i]] # 5
  <2>1. i \in 1 .. Len(st) /\ st[i] = s[i]
    BY <1>1
  <2>. QED
    BY <1>0, <2>1 DEF NoGreeting
<1>3. ASSUME NEW i \in 1 .. Len(t) PROVE D[t[i]] # 5
  <2>1. i + Len(s) \in 1 .. Len(st) /\ st[i + Len(s)] = t[i]
    BY <1>1
  <2>. QED
    BY <1>0, <2>1 DEF NoGreeting
<1>. QED
  BY <1>2, <1>3 DEF NoGreeting

(* What the client has said is the beginning of its stream; what comes      *)
(* behind 2 * SOCKS_BUF bytes of it holds no greeting.                      *)
LEMMA NoGreetingBehind ==
  ASSUME NoLaterGreeting, NEW a \in Seq(Byte), NEW t \in Seq(Byte),
         Fed(a \o t), Len(a) >= 2 * SOCKS_BUF
  PROVE  NoGreeting(t)
<1>. DEFINE at == a \o t
<1>1. /\ Len(at) = Len(a) + Len(t) /\ Len(a) \in Nat /\ Len(t) \in Nat
      /\ \A i \in 1 .. Len(a) + Len(t) :
           at[i] = IF i <= Len(a) THEN a[i] ELSE t[i - Len(a)]
  BY ConcatProperties, LenProperties
<1>0. /\ Fed(at) /\ SOCKS_BUF \in Nat /\ Side # {} /\ "local" \in Side
      /\ Len(Stream["local"]) \in Nat
  BY Sides, ServerAssumption, StreamAssumption, LenProperties
<1>. HIDE DEF at
<1>2. ASSUME NEW i \in 1 .. Len(t) PROVE D[t[i]] # 5
  <2>1. i + Len(a) \in 1 .. Len(at) /\ at[i + Len(a)] = t[i]
    BY <1>1
  <2>2. /\ t[i] = Stream["local"][i + Len(a)]
        /\ i + Len(a) \in 1 .. Len(Stream["local"])
    BY <1>0, <1>1, <2>1 DEF Fed
  <2>3. i + Len(a) > 2 * SOCKS_BUF
    BY <1>0, <1>1
  <2>. QED
    BY <2>2, <2>3 DEF NoLaterGreeting
<1>. QED
  BY <1>2 DEF NoGreeting

(* parse_socks5 gives up on input that does not begin with a greeting.      *)
LEMMA NoGreetingFails ==
  ASSUME NEW b \in Bev, NoGreeting(b.input)
  PROVE  parse_socks5(b).ret = -1
<1>. DEFINE zeros == [k \in 0 .. SOCKS_BUF - 1 |-> 0]
            greeting == decode_read(b, zeros)
            n == IF Len(b.input) < SOCKS_BUF THEN Len(b.input) ELSE SOCKS_BUF
            part == SubSeq(b.input, 1, n)
            bytes == encode_data(part, D)
<1>1. /\ b.input \in Seq(Byte) /\ Len(b.input) \in Nat
      /\ SOCKS_BUF \in Nat /\ SOCKS_BUF >= 8
      /\ n \in 0 .. Len(b.input) /\ n \in 0 .. SOCKS_BUF
  BY LenProperties, ServerAssumption DEF Bev
<1>2. greeting.buf[0] = IF 0 < n THEN bytes[1] ELSE 0
  <2>1. greeting.buf = [k \in 0 .. SOCKS_BUF - 1 |->
                          IF k < n THEN bytes[k + 1] ELSE zeros[k]]
    BY DEF decode_read, decode_data, D
  <2>2. 0 \in 0 .. SOCKS_BUF - 1 /\ zeros[0] = 0
    BY <1>1
  <2>. HIDE DEF zeros, n, bytes, greeting
  <2>. QED
    BY <2>1, <2>2
<1>3. CASE 0 < n
  <2>1. part \in Seq(Byte) /\ Len(part) = n
    BY <1>1, Split DEF Drop
  <2>2. part[1] = b.input[1] /\ 1 \in 1 .. Len(b.input) /\ 1 \in 1 .. n
    <3>1. \A k \in 1 .. n : b.input[k] \in Byte
      BY <1>1, ElementOfSeq
    <3>2. \A k \in 1 .. n - 1 + 1 : part[k] = b.input[1 + k - 1]
      BY <1>1, <3>1, SubSeqProperties
    <3>. QED
      BY <1>1, <1>3, <3>2
  <2>. HIDE DEF part
  <2>3. bytes[1] = D[part[1]]
    BY <2>1, <2>2, DTable, EncodeData
  <2>. QED
    BY <1>2, <1>3, <2>2, <2>3 DEF NoGreeting, parse_socks5
<1>4. CASE ~(0 < n)
  BY <1>2, <1>4 DEF parse_socks5
<1>. QED
  BY <1>3, <1>4

(* A peer says what its stream holds, in order.                             *)
LEMMA FedOn ==
  ASSUME LibEventTypeOK, NEW c \in Conn, NEW s \in Side, Network(c, s),
         s = "local", Fed(peer[c][s].sent)
  PROVE  Fed(peer'[c][s].sent)
<1>. DEFINE p == peer[c][s]
            n == Len(p.sent) + 1
            x == Stream[s][n]
<1>1. /\ p \in Peer /\ peer \in [Conn -> [Side -> Peer]]
      /\ p.sent \in Seq(Byte) /\ Len(p.sent) \in Nat
      /\ Len(Stream[s]) \in Nat
  BY Entries, LenProperties, StreamAssumption DEF LibEventTypeOK, Peer
<1>2. CASE PeerSend(c, s)
  <2>1. n <= Len(Stream[s])
    BY <1>2 DEF PeerSend
  <2>2. peer'[c][s].sent = Append(p.sent, x)
    BY <1>1, <1>2, SMTT(30) DEF PeerSend, Peer
  <2>3. x \in Byte
    BY <1>1, <2>1, StreamAssumption, ElementOfSeq
  <2>. HIDE DEF x
  <2>. DEFINE t == Append(p.sent, x)
  <2>4. /\ Len(t) = n /\ t[n] = x
        /\ \A i \in 1 .. Len(p.sent) : t[i] = p.sent[i]
    BY <1>1, <2>3, AppendProperties
  <2>. HIDE DEF t, p
  <2>5. Fed(t)
    <3>1. /\ Fed(p.sent) /\ x = Stream["local"][n] /\ s = "local"
      BY DEF p, x
    <3>2. ASSUME NEW i \in 1 .. Len(t) PROVE t[i] = Stream["local"][i]
      <4>1. i = n \/ i \in 1 .. Len(p.sent)
        BY <1>1, <2>4
      <4>. QED
        BY <2>4, <3>1, <4>1 DEF Fed
    <3>. QED
      BY <2>1, <2>4, <3>1, <3>2 DEF Fed
  <2>. QED
    BY <2>2, <2>5 DEF t
<1>3. CASE ~PeerSend(c, s)
  <2>. SUFFICES peer'[c][s].sent = p.sent
    OBVIOUS
  <2>1. CASE PeerFinish(c, s)
    BY <1>1, <2>1, SMTT(30) DEF PeerFinish, Peer
  <2>2. CASE PeerReset(c, s)
    BY <1>1, <2>2, SMTT(30) DEF PeerReset, Peer
  <2>3. CASE SockRead(c, s)
    BY <1>1, <2>3, SMTT(30) DEF SockRead, Peer
  <2>4. CASE SockWrite(c, s)
    BY <1>1, <2>4, SMTT(30) DEF SockWrite, Peer
  <2>5. CASE peer' = peer
    BY <2>5
  <2>6. SockEof(c, s) \/ SockWriteFail(c, s) \/ ConnectDone(c, s) =>
          peer' = peer
    BY DEF SockEof, SockWriteFail, ConnectDone
  <2>. QED
    BY <1>3, <2>1, <2>2, <2>3, <2>4, <2>5, <2>6, ZenonT(30) DEF Network
<1>. QED
  BY <1>2, <1>3

(* What a step of the network does to the local side of a relay.            *)
LEMMA PastNetwork ==
  ASSUME NoLaterGreeting, NEW l \in Bev, NEW p \in Peer, NEW nl \in Bev,
         NEW np \in Peer, Effect(l, p, nl, np), Past(l, p), Fed(np.sent)
  PROVE  Past(nl, np)
<1>1. /\ p.sent \in Seq(Byte) /\ p.wire \in Seq(Byte) /\ l.input \in Seq(Byte)
      /\ Len(p.sent) \in Nat /\ SOCKS_BUF \in Nat
  BY Fields, LenProperties, ServerAssumption
<1>2. CASE Says(l, p, nl, np)
  <2>1. PICK x \in Byte :
          np.sent = Append(p.sent, x) /\ np.wire = Append(p.wire, x)
    BY <1>2 DEF Says
  <2>. DEFINE e == <<x>>
  <2>2. e \in Seq(Byte) /\ np.sent = p.sent \o e /\ np.wire = p.wire \o e
    BY <1>1, <2>1, CatAppend DEF Cat
  <2>. HIDE DEF e
  <2>3. NoGreeting(e)
    BY <1>1, <2>2, NoGreetingBehind DEF Past
  <2>4. NoGreeting(np.wire) /\ nl.input = l.input
    BY <1>1, <1>2, <2>2, <2>3, NoGreetingConcat DEF Past, Says
  <2>5. Len(np.sent) = Len(p.sent) + 1
    BY <1>1, <2>1, AppendProperties
  <2>. QED
    BY <1>1, <2>4, <2>5 DEF Past
<1>3. CASE Loses(l, p, nl, np)
  <2>1. PICK k \in 0 .. Len(p.wire) : np.wire = SubSeq(p.wire, 1, k)
    BY <1>3 DEF Loses
  <2>2. NoGreeting(np.wire)
    <3>1. /\ np.wire \in Seq(Byte) /\ Drop(p.wire, k) \in Seq(Byte)
          /\ p.wire = np.wire \o Drop(p.wire, k)
      BY <1>1, <2>1, CutIs DEF Cat
    <3>. QED
      BY <3>1, NoGreetingParts DEF Past
  <2>. QED
    BY <1>3, <2>2 DEF Past, Loses
<1>4. CASE Reads(l, p, nl, np)
  <2>1. PICK k \in 0 .. Len(p.wire) :
          /\ nl.input = l.input \o SubSeq(p.wire, 1, k)
          /\ np.wire = Drop(p.wire, k)
    BY <1>4 DEF Reads
  <2>. DEFINE a == SubSeq(p.wire, 1, k)
              rest == Drop(p.wire, k)
  <2>2. a \in Seq(Byte) /\ rest \in Seq(Byte) /\ p.wire = a \o rest
    BY <1>1, CutIs DEF Cat
  <2>3. nl.input = l.input \o a /\ np.wire = rest
    BY <2>1
  <2>. HIDE DEF a, rest
  <2>4. NoGreeting(a) /\ NoGreeting(rest)
    BY <2>2, NoGreetingParts DEF Past
  <2>5. NoGreeting(nl.input)
    BY <1>1, <2>2, <2>3, <2>4, NoGreetingConcat DEF Past
  <2>. QED
    BY <1>4, <2>3, <2>4, <2>5 DEF Past, Reads
<1>5. CASE Writes(l, p, nl, np) \/ Quiet(l, p, nl, np)
  BY <1>5 DEF Past, Writes, Quiet
<1>. QED
  BY <1>2, <1>3, <1>4, <1>5 DEF Effect

LEMMA AloneNetwork ==
  ASSUME IInv, Alone, NoLaterGreeting, NEW c \in Conn, NEW s \in Side,
         NetworkStep(c, s)
  PROVE  Alone'
<1>1. Network(c, s) /\ UNCHANGED serverVars
  BY DEF NetworkStep, Network
<1>2. LibEventTypeOK
  BY Known
<1>3. PICK nb \in Bev, np \in Peer :
        Moves(c, s, nb, np) /\ Effect(bev[c][s], peer[c][s], nb, np)
  BY <1>1, <1>2, NetworkEffect
<1>4. proc' # "undefined"
  BY <1>1, NetworkProc DEF Running
<1>5. ASSUME NEW d \in Conn PROVE Single(remote_bev'[d], bev'[d], peer'[d])
  <2>. DEFINE rb == remote_bev[d]
              B == bev[d]
              P == peer[d]
              B2 == bev'[d]
              P2 == peer'[d]
  <2>1. /\ Single(rb, B, P) /\ remote_bev'[d] = rb
        /\ B \in [Side -> Bev] /\ P \in [Side -> Peer]
    BY <1>1, Known DEF Alone, serverVars
  <2>. SUFFICES Single(rb, B2, P2)
    BY <2>1
  <2>2. \A t \in Side : d # c \/ t # s => B2[t] = B[t] /\ P2[t] = P[t]
    BY <1>3 DEF Moves
  <2>3. "local" \in Side /\ "remote" \in Side
    BY Sides
  <2>4. d = c => B2[s] = nb /\ P2[s] = np /\ Effect(B[s], P[s], nb, np)
    BY <1>3 DEF Moves
  <2>5. \A t \in Side : B2[t].st = "live" <=> B[t].st = "live"
    BY <2>2, <2>4 DEF Effect
  <2>6. CASE d # c \/ s # "local"
    <3>1. B2["local"] = B["local"] /\ P2["local"] = P["local"]
      BY <2>2, <2>3, <2>6
    <3>. HIDE DEF rb, B, P, B2, P2
    <3>. QED
      BY <2>1, <2>3, <2>5, <3>1 DEF Single
  <2>7. CASE d = c /\ s = "local"
    <3>1. Fed(P2["local"].sent)
      <4>1. Fed(peer[c][s].sent)
        BY <2>1, <2>7 DEF Single
      <4>2. Fed(peer'[c][s].sent)
        BY <1>1, <1>2, <2>7, <4>1, FedOn
      <4>. QED
        BY <2>7, <4>2
    <3>2. /\ B2["local"] = nb /\ P2["local"] = np
          /\ Effect(B["local"], P["local"], nb, np)
      BY <2>4, <2>7
    <3>. HIDE DEF rb, B, P, B2, P2
    <3>3. Past(B["local"], P["local"]) => Past(nb, np)
      BY <2>1, <2>3, <3>1, <3>2, PastNetwork
    <3>. QED
      BY <2>1, <2>3, <2>5, <3>1, <3>2, <3>3 DEF Single
  <2>. QED
    BY <2>6, <2>7
<1>. QED
  BY <1>4, <1>5 DEF Alone

(* A step that says nothing, dials nothing and, where something is relayed, *)
(* keeps what has been read and who lives, or ends both sides.              *)
LEMMA AloneKept ==
  ASSUME Alone, proc' # "undefined", peer' = peer, remote_bev' = remote_bev,
         \A d \in Conn : remote_bev[d] = "remote" =>
           \/ /\ bev'[d]["local"].st = bev[d]["local"].st
              /\ bev'[d]["remote"].st = bev[d]["remote"].st
              /\ bev'[d]["local"].input = bev[d]["local"].input
           \/ bev'[d]["local"].st # "live" /\ bev'[d]["remote"].st # "live"
  PROVE  Alone'
<1>1. ASSUME NEW d \in Conn PROVE Single(remote_bev[d], bev'[d], peer[d])
  <2>1. Single(remote_bev[d], bev[d], peer[d])
    BY DEF Alone
  <2>2. CASE remote_bev[d] = "remote"
    BY <2>1, <2>2 DEF Single, Past
  <2>3. CASE remote_bev[d] # "remote"
    BY <2>1, <2>3 DEF Single
  <2>. QED
    BY <2>2, <2>3
<1>. QED
  BY <1>1 DEF Alone

(* Which bufferevents a connection has as long as nothing is dialled again. *)
LEMMA AloneShape ==
  ASSUME IInv, Alone, NEW c \in Conn
  PROVE  /\ remote_bev[c] \in {"null", "remote"}
         /\ bev[c]["again"].st = "none"
         /\ remote_bev[c] = "null" <=> bev[c]["remote"].st = "none"
         /\ bev[c]["local"].st = "live" => server[c] = "live"
         /\ remote_bev[c] = "remote" =>
              /\ bev[c]["local"].st = "live" <=> bev[c]["remote"].st = "live"
              /\ bev[c]["local"].st = "live" =>
                   Past(bev[c]["local"], peer[c]["local"])
<1>1. Single(remote_bev[c], bev[c], peer[c])
  BY DEF Alone
<1>2. Shape(server[c], remote_bev[c], bev[c], peer[c])
  BY Known
<1>3. remote_bev[c] \in Dialled \cup {"null"}
  BY Known
<1>. QED
  BY <1>1, <1>2, <1>3, Sides DEF Single, Shape

LEMMA AloneAccept ==
  ASSUME IInv, Alone, NEW c \in Conn, Accept(c)
  PROVE  Alone'
<1>1. /\ bev' = [bev EXCEPT ![c]["local"] = NewBev("open", local_cbs)]
      /\ peer' = peer /\ remote_bev' = remote_bev /\ proc' = proc
      /\ server[c] = "none" /\ proc # "undefined"
  BY DEF Accept, Running
<1>2. remote_bev[c] = "null"
  BY <1>1, Known DEF Shape
<1>3. \A d \in Conn : d # c => bev'[d] = bev[d]
  BY <1>1, Known DEF LibEventTypeOK
<1>. QED
  BY <1>1, <1>2, <1>3, AloneKept

(* The two bufferevents of c are freed by a callback of one of them.        *)
LEMMA AloneFreed ==
  ASSUME IInv, Alone, Running, NEW c \in Conn, NEW s \in Side, NEW t \in Side,
         {s, t} = {"local", "remote"}, bev[c][s].pend # {},
         bev[c][t].st = "live",
         FreeBoth(c, s, c, t), peer' = peer, remote_bev' = remote_bev
  PROVE  Alone'
<1>. DEFINE y == bufferevent_clear_free(bev[c][t])
<1>1. LibEventTypeOK /\ bev[c][t] \in Bev /\ t # s
  BY Known
<1>2. proc' = proc /\ SetTwo(c, s, c, t, Destroyed, y)
  BY <1>1, FreeBothIs
<1>3. /\ y \in Bev /\ y.st # "live"
      /\ Destroyed \in Bev /\ Destroyed.st # "live"
  BY <1>1, FreedIsGone, DestroyedType DEF Gone
<1>. HIDE DEF y
<1>4. proc' \in ProcState /\ proc' # "undefined"
  BY <1>1, <1>2 DEF LibEventTypeOK, Running
<1>5. /\ bev'[c][s] = Destroyed /\ bev'[c][t] = y
      /\ \A e \in Conn, u \in Side :
           (e # c \/ u # s) /\ (e # c \/ u # t) => bev'[e][u] = bev[e][u]
  BY <1>1, <1>2, <1>3, <1>4, TwoMoves
<1>6. bev'[c]["local"].st # "live" /\ bev'[c]["remote"].st # "live"
  BY <1>3, <1>5
<1>7. \A e \in Conn : e # c =>
        /\ bev'[e]["local"] = bev[e]["local"]
        /\ bev'[e]["remote"] = bev[e]["remote"]
  BY <1>5, Sides
<1>. QED
  BY <1>4, <1>6, <1>7, AloneKept

(* The run of a bufferevent that has been freed ends.                       *)
LEMMA AloneDecref ==
  ASSUME IInv, Alone, NEW c \in Conn, NEW s \in Side, DecrefStep(c, s)
  PROVE  Alone'
<1>1. LibEventTypeOK /\ Decref(c, s) /\ UNCHANGED serverVars
  BY Known DEF DecrefStep
<1>2. /\ Running /\ bev[c][s].st = "held" /\ proc' = proc
      /\ Moves(c, s, Destroyed, peer[c][s])
  BY <1>1, DecrefMoves
<1>3. /\ peer' = peer /\ remote_bev' = remote_bev /\ proc' # "undefined"
  BY <1>1, <1>2 DEF Decref, serverVars, Running
<1>4. ASSUME NEW d \in Conn PROVE Single(remote_bev[d], bev'[d], peer[d])
  <2>. DEFINE rb == remote_bev[d]
              B == bev[d]
              P == peer[d]
              B2 == bev'[d]
  <2>1. Single(rb, B, P)
    BY DEF Alone
  <2>2. \A u \in Side :
          B2[u] = B[u] \/ (B2[u].st # "live" /\ B[u].st # "live")
    BY <1>2, DestroyedType DEF Moves
  <2>3. "local" \in Side /\ "remote" \in Side
    BY Sides
  <2>. HIDE DEF rb, B, P, B2
  <2>4. Single(rb, B2, P)
    BY <2>1, <2>2, <2>3 DEF Single
  <2>. QED
    BY <2>4 DEF rb, B2, P
<1>. QED
  BY <1>3, <1>4 DEF Alone

LEMMA AloneLocalEvent ==
  ASSUME IInv, Alone, NEW c \in Conn, local_eventcb(c)
  PROVE  Alone'
<1>1. /\ bev[c]["local"].st = "live" /\ peer' = peer /\ Running
      /\ remote_bev' = remote_bev /\ bev[c]["local"].pend # {}
  BY DEF local_eventcb, LiveBev
<1>2. CASE remote_bev[c] = "null"
  <2>1. proc' = "crashed" /\ bev' = bev
    BY <1>2 DEF local_eventcb
  <2>. QED
    BY <1>1, <2>1, AloneKept
<1>3. CASE remote_bev[c] = "remote"
  <2>1. bev[c]["remote"].st = "live" /\ server[c] = "live"
    BY <1>1, <1>3, AloneShape
  <2>2. FreeBoth(c, "local", c, "remote")
    BY <1>3, <2>1 DEF local_eventcb
  <2>. QED
    BY <1>1, <2>1, <2>2, Sides, AloneFreed
<1>. QED
  BY <1>2, <1>3, AloneShape

LEMMA AloneRemoteRead ==
  ASSUME IInv, Alone, NEW c \in Conn, NEW s \in Side, remote_readcb(c, s)
  PROVE  Alone'
<1>. DEFINE l == bev[c]["local"]
            r == bev[c][s]
            copy == encode_copy(password, l, r)
            r2 == EndRun(copy.src)
<1>1. /\ r.st = "live" /\ s \in Dialled /\ peer' = peer
      /\ remote_bev' = remote_bev /\ Running /\ r.pend # {}
  BY DEF remote_readcb, LiveBev
<1>2. s = "remote" /\ remote_bev[c] = "remote"
  BY <1>1, AloneShape, Sides
<1>3. l.st = "live" /\ server[c] = "live"
  BY <1>1, <1>2, AloneShape
<1>4. /\ LibEventTypeOK /\ l \in Bev /\ r \in Bev /\ proc \in ProcState
      /\ proc # "undefined" /\ "local" \in Side /\ s # "local"
  BY <1>1, Known, Sides DEF LibEventTypeOK, Running
<1>5. CASE copy.ret = -1
  <2>1. FreeBoth(c, s, c, "local")
    BY <1>3, <1>5 DEF remote_readcb
  <2>. QED
    BY <1>1, <1>2, <1>3, <2>1, Sides, AloneFreed
<1>6. CASE copy.ret # -1
  <2>. DEFINE l2 == copy.dst
  <2>1. SetTwo(c, "local", c, s, l2, r2) /\ proc' = proc
    BY <1>3, <1>6 DEF remote_readcb, SetTwo
  <2>2. r.input # <<>>
    BY <1>6 DEF encode_copy
  <2>. HIDE DEF l, r
  <2>3. Copied(password, l, r, copy)
    BY <1>4, <2>2, DTable, CopyType
  <2>4. l2 \in Bev /\ l2.st = "live" /\ l2.input = l.input
    BY <1>3, <1>4, <2>3 DEF Copied, Bev
  <2>5. r2 \in Bev /\ r2.st = "live"
    <3>1. copy.src \in Bev /\ copy.src.st = "live"
      BY <1>1, <1>4, <2>3 DEF Copied, Bev
    <3>. HIDE DEF copy
    <3>. QED
      BY <3>1 DEF Bev, EndRun
  <2>. HIDE DEF l2, r2, copy
  <2>6. /\ bev'[c]["local"] = l2 /\ bev'[c][s] = r2
        /\ \A e \in Conn, t \in Side :
             (e # c \/ t # "local") /\ (e # c \/ t # s) =>
               bev'[e][t] = bev[e][t]
    BY <1>1, <1>4, <2>1, <2>4, <2>5, TwoMoves
  <2>7. /\ bev[c]["local"] = l /\ bev[c]["remote"] = r
        /\ bev'[c]["remote"] = r2
    BY <1>2, <2>6 DEF l, r
  <2>8. ASSUME NEW d \in Conn
        PROVE  /\ bev'[d]["local"].st = bev[d]["local"].st
               /\ bev'[d]["remote"].st = bev[d]["remote"].st
               /\ bev'[d]["local"].input = bev[d]["local"].input
    <3>1. CASE d = c
      BY <1>1, <1>3, <2>4, <2>5, <2>6, <2>7, <3>1
    <3>2. CASE d # c
      BY <2>6, <3>2, Sides
    <3>. QED
      BY <3>1, <3>2
  <2>. QED
    BY <1>1, <1>4, <2>1, <2>8, AloneKept
<1>. QED
  BY <1>5, <1>6

(* After two full reads nothing is left of what the client had to say first. *)
LEMMA PastReads ==
  ASSUME NoLaterGreeting, NEW l \in Bev, NEW p \in Peer, l.st = "live",
         In(l, p, "null"), Fed(p.sent), Len(l.input) > 2 * SOCKS_BUF,
         NEW l2, l2.input = <<>>
  PROVE  Past(l2, p)
<1>1. PICK u, v \in Seq(Byte) :
        p.sent = Cat(u, Cat(Held(l, p), v)) /\ u = <<>>
  BY DEF In
<1>2. p.sent \in Seq(Byte) /\ p.wire \in Seq(Byte) /\ l.input \in Seq(Byte)
  BY Fields
<1>. DEFINE i == l.input
            w == p.wire
            said == p.sent
            wv == w \o v
<1>3. i \in Seq(Byte) /\ w \in Seq(Byte) /\ Held(l, p) = Cat(i, w)
  BY <1>2 DEF Held
<1>4. said = Cat(<<>>, Cat(Held(l, p), v)) /\ Fed(said)
      /\ Len(i) > 2 * SOCKS_BUF
  BY <1>1
<1>5. wv = Cat(w, v)
  BY DEF Cat
<1>. HIDE DEF i, w, said, wv
<1>6. said = Cat(i, wv) /\ wv \in Seq(Byte)
  <2>1. Cat(i, w) \in Seq(Byte) /\ Cat(w, v) \in Seq(Byte)
    BY <1>3, CatSeq
  <2>2. Cat(Cat(i, w), v) = Cat(i, Cat(w, v))
    BY <1>3, CatAssoc
  <2>3. Cat(Cat(i, w), v) \in Seq(Byte)
    BY <2>1, CatSeq
  <2>4. said = Cat(Cat(i, w), v)
    BY <1>3, <1>4, <2>3, CatEmpty
  <2>. QED
    BY <1>5, <2>1, <2>2, <2>4
<1>7. said = i \o wv
  BY <1>6 DEF Cat
<1>8. /\ SOCKS_BUF \in Nat /\ Len(i) \in Nat /\ Len(wv) \in Nat
      /\ Len(said) = Len(i) + Len(wv)
  BY <1>3, <1>6, <1>7, ServerAssumption, LenProperties, ConcatProperties
<1>9. NoGreeting(w)
  <2>1. Fed(i \o wv)
    BY <1>4, <1>7
  <2>2. Len(i) >= 2 * SOCKS_BUF
    BY <1>4, <1>8
  <2>3. NoGreeting(wv)
    BY <1>3, <1>6, <2>1, <2>2, NoGreetingBehind
  <2>. QED
    BY <1>3, <2>3, NoGreetingParts DEF wv
<1>10. NoGreeting(l2.input)
  BY DEF NoGreeting
<1>11. NoGreeting(p.wire) /\ Len(p.sent) >= 2 * SOCKS_BUF
  BY <1>4, <1>8, <1>9 DEF said, w
<1>. QED
  BY <1>10, <1>11 DEF Past

(* The first exchange has been dialled.                                     *)
LEMMA AloneDial ==
  ASSUME IInv, Alone, NoLaterGreeting, NEW c \in Conn, Conn = {c},
         LiveBev(c, "local"), "read" \in bev[c]["local"].pend,
         remote_bev[c] = "null", NEW parsed,
         Parsed(bev[c]["local"], parsed),
         Dial(c, parsed, "remote"), peer' = peer
  PROVE  Alone'
<1>. DEFINE l == bev[c]["local"]
            p == peer[c]["local"]
<1>1. /\ Dialling(c, parsed, "remote") /\ proc' = proc
      /\ remote_bev' = [remote_bev EXCEPT ![c] = "remote"]
  <2>1. "remote" \in Dialled /\ bev[c]["remote"].st = "none"
    BY AloneShape, Sides
  <2>. QED
    BY <2>1, DialDoes
<1>2. PICK l2 \in Bev, r2 \in Bev, sv2 \in ServerState :
        /\ SetTwo(c, "local", c, "remote", l2, r2)
        /\ DialLeaves(parsed, sv2, l2, r2)
  BY <1>1 DEF Dialling
<1>3. /\ LibEventTypeOK /\ proc' \in ProcState /\ proc' # "undefined"
      /\ remote_bev'[c] = "remote"
  BY <1>1, Known DEF LibEventTypeOK, LiveBev, Running, IInv, TypeOK
<1>4. bev'[c]["local"] = l2 /\ bev'[c]["remote"] = r2
  BY <1>2, <1>3, Sides, TwoMoves
<1>5. l.st = "live" /\ Fed(p.sent) /\ In(l, p, "null")
  BY Known DEF LiveBev, Alone, Single, GoodConn, Good
<1>6. l \in Bev /\ p \in Peer
  BY Known, Sides
<1>7. l2.st = "live" => Past(l2, p)
  <2>1. l2.st = "live" => parsed.bev.input # <<>> /\ l2.input = <<>>
    BY <1>2, DestroyedType DEF DialLeaves
  <2>2. parsed.bev.input # <<>> => Len(l.input) > 2 * SOCKS_BUF
    BY DEF Parsed
  <2>. HIDE DEF l, p
  <2>. QED
    BY <1>5, <1>6, <2>1, <2>2, PastReads
<1>8. l2.st = "live" <=> r2.st = "live"
  BY <1>2, DestroyedType DEF DialLeaves
<1>9. Single("remote", bev'[c], peer[c])
  BY <1>4, <1>5, <1>7, <1>8 DEF Single
<1>. QED
  BY <1>3, <1>9 DEF Alone

LEMMA AloneLocalRead ==
  ASSUME IInv, Alone, NoLaterGreeting, NEW c \in Conn, Conn = {c},
         local_readcb(c)
  PROVE  Alone'
<1>. DEFINE b == bev[c]["local"]
            parsed == parse_socks5(b)
<1>1. /\ LiveBev(c, "local") /\ peer' = peer /\ b.st = "live" /\ b \in Bev
      /\ "read" \in b.pend /\ Running
  BY Known, Sides DEF local_readcb, LiveBev
<1>2. CASE parsed.ret = -1
  <2>1. ParseFails(c) /\ remote_bev' = remote_bev
    BY <1>2 DEF local_readcb, ParseFails
  <2>2. CASE proc' \in {"crashed", "undefined"} /\ UNCHANGED <<bev, server>>
    <3>1. FreesUnassigned(c)'
      BY <1>1, <1>2, <2>2 DEF FreesUnassigned
    <3>2. \A d \in Conn : Single(remote_bev'[d], bev'[d], peer'[d])
      BY <1>1, <2>1, <2>2 DEF Alone
    <3>. QED
      BY <3>1, <3>2 DEF Alone
  <2>3. ASSUME NEW d \in Conn, NEW s \in Side, <<d, s>> # <<c, "local">>,
               bev[d][s].st = "live", FreeBoth(c, "local", d, s)
        PROVE  Alone'
    <3>1. d = c
      OBVIOUS
    <3>2. s = "remote"
      BY <2>3, <3>1, AloneShape, ServerAssumption
    <3>. QED
      BY <1>1, <2>1, <2>3, <3>1, <3>2, Sides, AloneFreed
  <2>. QED
    BY <2>1, <2>2, <2>3 DEF ParseFails
<1>3. CASE parsed.ret # -1
  <2>1. remote_bev[c] = "null"
    <3>1. ~NoGreeting(b.input)
      BY <1>1, <1>3, NoGreetingFails
    <3>. QED
      BY <1>1, <3>1, AloneShape DEF Past
  <2>2. Parsed(b, parsed)
    BY <1>1, <1>3, ParseSocks5
  <2>3. CASE DialFails(c)
    <3>1. /\ remote_bev' = remote_bev /\ proc' # "undefined"
      BY <1>1, <2>3 DEF DialFails, Running
    <3>. QED
      BY <1>1, <2>1, <3>1, AloneKept
  <2>4. ASSUME NEW s \in Dialled,
               s = "again" <=> bev[c]["remote"].st # "none",
               Dial(c, parsed, s)
        PROVE  Alone'
    <3>1. s = "remote"
      BY <2>1, <2>4, AloneShape, Sides
    <3>. HIDE DEF parsed
    <3>. QED
      BY <1>1, <2>1, <2>2, <2>4, <3>1, AloneDial
  <2>. QED
    BY <1>3, <2>3, <2>4 DEF local_readcb
<1>. QED
  BY <1>2, <1>3

LEMMA AloneStep ==
  ASSUME NEW c0, Conn = {c0}, NoLaterGreeting, IInv, Alone, [Next]_vars
  PROVE  Alone'
<1>1. CASE UNCHANGED vars
  <2>1. /\ bev' = bev /\ peer' = peer /\ remote_bev' = remote_bev
        /\ proc' = proc
    BY <1>1 DEF vars
  <2>2. \A c \in Conn : FreesUnassigned(c)' = FreesUnassigned(c)
    BY <2>1 DEF FreesUnassigned
  <2>. QED
    BY <2>1, <2>2 DEF Alone
<1>2. ASSUME NEW c \in Conn, AcceptSetupFails(c) PROVE Alone'
  BY <1>2, AloneKept DEF AcceptSetupFails
<1>3. ASSUME NEW c \in Conn, Accept(c) \/ local_eventcb(c) PROVE Alone'
  BY <1>3, AloneAccept, AloneLocalEvent, SMTT(30)
<1>4. ASSUME NEW c \in Conn, local_readcb(c) PROVE Alone'
  <2>1. Conn = {c}
    OBVIOUS
  <2>. QED
    BY <1>4, <2>1, AloneLocalRead, SMTT(30)
<1>5. ASSUME NEW c \in Conn, NEW s \in Side,
             remote_readcb(c, s) \/ NetworkStep(c, s) \/ DecrefStep(c, s)
      PROVE  Alone'
  BY <1>5, AloneRemoteRead, AloneNetwork, AloneDecref, SMTT(30)
<1>6. CASE listener_errorcb \/ signal_cb \/ LoopExit
  <2>1. /\ bev' = bev /\ peer' = peer /\ remote_bev' = remote_bev
        /\ proc' \in {"exiting", "stopped"}
    BY <1>6 DEF listener_errorcb, signal_cb, LoopExit, AcceptError, SigInt,
       LoopTimer, serverVars
  <2>. QED
    BY <2>1, AloneKept
<1>. QED
  BY <1>1, <1>2, <1>3, <1>4, <1>5, <1>6 DEF Next

LEMMA AloneInit == Init => Alone
<1>. SUFFICES ASSUME Init PROVE Alone
  OBVIOUS
<1>1. proc # "undefined"
  BY DEF Init, LibEventInit
<1>2. ASSUME NEW c \in Conn PROVE Single(remote_bev[c], bev[c], peer[c])
  <2>1. remote_bev[c] = "null" /\ peer[c]["local"].sent = <<>>
    BY Sides DEF Init, LibEventInit, NewPeer
  <2>2. Fed(<<>>)
    <3>1. Len(Stream["local"]) \in Nat
      BY Sides, StreamAssumption, LenProperties
    <3>. QED
      BY <3>1 DEF Fed
  <2>. QED
    BY <2>1, <2>2 DEF Single
<1>. QED
  BY <1>1, <1>2 DEF Alone

(* If the server has one connection and what the client says behind its     *)
(* request cannot be taken for a greeting, a dialled bufferevent does not   *)
(* outlive the local one, whose LsServer and output buffer its callback     *)
(* uses, and nothing is used or freed after it has been freed, whatever the *)
(* callbacks of its two sides do and in whatever order (server.c:141,       *)
(* 144-146, 207-214).  One cause of undefined behaviour is left: the        *)
(* unassigned pointer that is freed when parse_socks5 fails (server.c:199). *)
THEOREM ServerNoOrphan ==
  ASSUME NEW CONSTANT c0, Conn = {c0}, NoLaterGreeting
  PROVE  Spec => []NoOrphan
<1>1. Init => IInv /\ Alone
  BY InitGood, AloneInit
<1>2. IInv /\ Alone /\ [Next]_vars => (IInv /\ Alone)'
  BY StepGood, AloneStep
<1>3. IInv /\ Alone => NoOrphan
  <2>. SUFFICES ASSUME IInv, Alone PROVE NoOrphan
    OBVIOUS
  <2>1. proc = "undefined" => \E c \in Conn : FreesUnassigned(c)
    BY DEF Alone
  <2>2. ASSUME NEW c \in Conn, NEW s \in Dialled, bev[c][s].st = "live"
        PROVE  bev[c]["local"].st = "live"
    <3>1. s = "remote"
      BY <2>2, AloneShape, Sides
    <3>. QED
      BY <2>2, <3>1, AloneShape
  <2>. QED
    BY <2>1, <2>2 DEF NoOrphan
<1>. QED
  BY <1>1, <1>2, <1>3, PTL DEF Spec
=============================================================================
