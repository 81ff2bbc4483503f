-------------------------- MODULE LibEventTheorems --------------------------
(***************************************************************************)
(* What a step of the event loop, of a peer or of a copy routine does to   *)
(* one side of one connection, for any program built on LibEvent.          *)
(***************************************************************************)
EXTENDS SecureSocket, StreamTheorems

(* The step changes nothing but proc and the entries of bev and peer for    *)
(* side s of connection c, which become nb and np.                          *)
Moves(c, s, nb, np) ==
  /\ bev'[c][s] = nb /\ peer'[c][s] = np
  /\ \A d \in Conn, t \in Side :
       d # c \/ t # s => bev'[d][t] = bev[d][t] /\ peer'[d][t] = peer[d][t]
  /\ LibEventTypeOK'

LEMMA ReplaceOne ==
  ASSUME NEW S, NEW f \in [Conn -> [Side -> S]], NEW c \in Conn, NEW s \in Side,
         NEW v \in S, NEW g, g = [f EXCEPT ![c][s] = v]
  PROVE  /\ g \in [Conn -> [Side -> S]]
         /\ g[c][s] = v
         /\ \A d \in Conn, t \in Side : d # c \/ t # s => g[d][t] = f[d][t]
OBVIOUS

LEMMA MovesIntro ==
  ASSUME LibEventTypeOK, NEW c \in Conn, NEW s \in Side,
         NEW nb \in Bev, NEW np \in Peer,
         bev' = [bev EXCEPT ![c][s] = nb] \/ (bev' = bev /\ nb = bev[c][s]),
         peer' = [peer EXCEPT ![c][s] = np] \/ (peer' = peer /\ np = peer[c][s]),
         proc' \in ProcState
  PROVE  Moves(c, s, nb, np)
<1>0. bev \in [Conn -> [Side -> Bev]] /\ peer \in [Conn -> [Side -> Peer]]
  BY DEF LibEventTypeOK
<1>1. /\ bev' \in [Conn -> [Side -> Bev]] /\ bev'[c][s] = nb
      /\ \A d \in Conn, t \in Side : d # c \/ t # s => bev'[d][t] = bev[d][t]
  <2>1. CASE bev' = [bev EXCEPT ![c][s] = nb]
    <3>. DEFINE g == bev'
    <3>1. g = [bev EXCEPT ![c][s] = nb]
      BY <2>1
    <3>. HIDE DEF g
    <3>2. /\ g \in [Conn -> [Side -> Bev]] /\ g[c][s] = nb
          /\ \A d \in Conn, t \in Side : d # c \/ t # s => g[d][t] = bev[d][t]
      BY <1>0, <3>1, ReplaceOne
    <3>. QED
      BY <3>2 DEF g
  <2>2. CASE bev' = bev /\ nb = bev[c][s]
    BY <1>0, <2>2
  <2>. QED
    BY <2>1, <2>2
<1>2. /\ peer' \in [Conn -> [Side -> Peer]] /\ peer'[c][s] = np
      /\ \A d \in Conn, t \in Side : d # c \/ t # s => peer'[d][t] = peer[d][t]
  <2>1. CASE peer' = [peer EXCEPT ![c][s] = np]
    <3>. DEFINE g == peer'
    <3>1. g = [peer EXCEPT ![c][s] = np]
      BY <2>1
    <3>. HIDE DEF g
    <3>2. /\ g \in [Conn -> [Side -> Peer]] /\ g[c][s] = np
          /\ \A d \in Conn, t \in Side : d # c \/ t # s => g[d][t] = peer[d][t]
      BY <1>0, <3>1, ReplaceOne
    <3>. QED
      BY <3>2 DEF g
  <2>2. CASE peer' = peer /\ np = peer[c][s]
    BY <1>0, <2>2
  <2>. QED
    BY <2>1, <2>2
<1>. QED
  BY <1>1, <1>2 DEF Moves, LibEventTypeOK

LEMMA Entries ==
  ASSUME LibEventTypeOK, NEW c \in Conn, NEW s \in Side
  PROVE  /\ bev[c][s] \in Bev /\ peer[c][s] \in Peer /\ proc \in ProcState
BY DEF LibEventTypeOK

LEMMA Fields ==
  ASSUME NEW b \in Bev, NEW p \in Peer
  PROVE  /\ p.sent \in Seq(Byte) /\ p.wire \in Seq(Byte) /\ p.got \in Seq(Byte)
         /\ b.output \in Seq(Byte) /\ b.input \in Seq(Byte)
BY SMTT(30) DEF Peer, Bev
-----------------------------------------------------------------------------
(* The steps of the network, each as a change of one side.                  *)

(* They happen to bufferevents that have not been destroyed; all they can   *)
(* do to the process is to have it killed.                                  *)
LEMMA NetworkProc ==
  ASSUME NEW c \in Conn, NEW s \in Side, Network(c, s)
  PROVE  /\ Running /\ bev[c][s].st \in {"live", "held"}
         /\ proc' \in {proc, "killed"}
BY ZenonT(30)
   DEF Network, OpenBev, PeerSend, PeerFinish, PeerReset, SockRead, SockEof,
       SockWrite, SockWriteFail, ConnectDone

LEMMA PeerSendMoves ==
  ASSUME LibEventTypeOK, NEW c \in Conn, NEW s \in Side,
         PeerSend(c, s)
  PROVE  \E x \in Byte :
           /\ peer[c][s].st = "open" /\ bev[c][s].st \in {"live", "held"}
           /\ Moves(c, s, bev[c][s],
                    [peer[c][s] EXCEPT !.sent = Append(@, x),
                                       !.wire = Append(@, x)])
<1>. DEFINE n == Len(peer[c][s].sent) + 1
            x == Stream[s][n]
            v == [peer[c][s] EXCEPT !.sent = Append(@, x),
                                    !.wire = Append(@, x)]
<1>1. /\ bev[c][s] \in Bev /\ peer[c][s] \in Peer /\ proc \in ProcState
      /\ peer[c][s].sent \in Seq(Byte) /\ peer[c][s].wire \in Seq(Byte)
  BY Entries DEF Peer
<1>2. x \in Byte
  <2>1. n \in 1 .. Len(Stream[s]) /\ Stream[s] \in Seq(Byte)
    BY <1>1, LenProperties, StreamAssumption, SMTT(30) DEF PeerSend
  <2>. QED
    BY <2>1, ElementOfSeq
<1>3. peer' = [peer EXCEPT ![c][s] = v]
  BY DEF PeerSend
<1>. HIDE DEF x
<1>4. v \in Peer
  BY <1>1, <1>2, AppendProperties DEF Peer
<1>. HIDE DEF v
<1>5. Moves(c, s, bev[c][s], v)
  BY <1>1, <1>3, <1>4, MovesIntro DEF PeerSend
<1>. QED
  BY <1>2, <1>5 DEF v, PeerSend, OpenBev

LEMMA PeerFinishMoves ==
  ASSUME LibEventTypeOK, NEW c \in Conn, NEW s \in Side,
         PeerFinish(c, s)
  PROVE  \E st \in {"shut", "closed"} :
           /\ peer[c][s].st \in {"open", "shut"} /\ bev[c][s].st \in {"live", "held"}
           /\ Moves(c, s, bev[c][s], [peer[c][s] EXCEPT !.st = st])
<1>1. PICK st \in {"shut", "closed"} :
        /\ peer[c][s].st = "open" \/ (peer[c][s].st = "shut" /\ st = "closed")
        /\ peer' = [peer EXCEPT ![c][s].st = st]
  BY DEF PeerFinish
<1>2. bev[c][s] \in Bev /\ peer[c][s] \in Peer /\ proc \in ProcState
  BY Entries
<1>. DEFINE v == [peer[c][s] EXCEPT !.st = st]
<1>3. v \in Peer
  BY <1>2 DEF Peer
<1>4. peer' = [peer EXCEPT ![c][s] = v]
  BY <1>1
<1>. HIDE DEF v
<1>5. Moves(c, s, bev[c][s], v)
  BY <1>2, <1>3, <1>4, MovesIntro DEF PeerFinish
<1>. QED
  BY <1>1, <1>5 DEF v, PeerFinish, OpenBev

LEMMA PeerResetMoves ==
  ASSUME LibEventTypeOK, NEW c \in Conn, NEW s \in Side,
         PeerReset(c, s)
  PROVE  \E k \in 0 .. Len(peer[c][s].wire) :
           /\ peer[c][s].st \in {"open", "shut"} /\ bev[c][s].st \in {"live", "held"}
           /\ Moves(c, s, [bev[c][s] EXCEPT !.sock = "broken"],
                    [peer[c][s] EXCEPT !.st = "reset",
                                       !.wire = SubSeq(@, 1, k)])
<1>1. PICK k \in 0 .. Len(peer[c][s].wire) :
        peer' = [peer EXCEPT ![c][s].st = "reset",
                             ![c][s].wire = SubSeq(@, 1, k)]
  BY DEF PeerReset
<1>2. /\ bev[c][s] \in Bev /\ peer[c][s] \in Peer /\ proc \in ProcState
      /\ peer[c][s].wire \in Seq(Byte)
  BY Entries DEF Peer
<1>. DEFINE part == SubSeq(peer[c][s].wire, 1, k)
            u == [bev[c][s] EXCEPT !.sock = "broken"]
            v == [peer[c][s] EXCEPT !.st = "reset", !.wire = part]
<1>3. part \in Seq(Byte)
  BY <1>2, Split
<1>0. peer' = [peer EXCEPT ![c][s].st = "reset", ![c][s].wire = part]
  BY <1>1
<1>. HIDE DEF part
<1>4. u \in Bev /\ v \in Peer
  BY <1>2, <1>3 DEF Bev, Peer
<1>7. peer' = [peer EXCEPT ![c][s] = v]
  BY <1>0
<1>5. bev' = [bev EXCEPT ![c][s] = u]
  BY DEF PeerReset
<1>. HIDE DEF u, v
<1>6. Moves(c, s, u, v)
  BY <1>2, <1>4, <1>5, <1>7, MovesIntro DEF PeerReset
<1>. QED
  BY <1>1, <1>6 DEF u, v, part, PeerReset, OpenBev

LEMMA SockReadMoves ==
  ASSUME LibEventTypeOK, NEW c \in Conn, NEW s \in Side,
         SockRead(c, s)
  PROVE  \E k \in 1 .. Len(peer[c][s].wire) :
           /\ bev[c][s].st \in {"live", "held"}
           /\ Moves(c, s,
                [bev[c][s] EXCEPT
                   !.input = @ \o SubSeq(peer[c][s].wire, 1, k),
                   !.pend = Owe(bev[c][s], "read")],
                [peer[c][s] EXCEPT !.wire = Drop(@, k)])
<1>1. PICK k \in 1 .. Len(peer[c][s].wire) :
       /\ bev' = [bev EXCEPT
                    ![c][s].input = @ \o SubSeq(peer[c][s].wire, 1, k),
                    ![c][s].pend = Owe(bev[c][s], "read")]
       /\ peer' = [peer EXCEPT ![c][s].wire = Drop(@, k)]
  BY DEF SockRead
<1>2. /\ bev[c][s] \in Bev /\ peer[c][s] \in Peer /\ proc \in ProcState
      /\ peer[c][s].wire \in Seq(Byte) /\ bev[c][s].input \in Seq(Byte)
  BY Entries DEF Peer, Bev
<1>. DEFINE part == SubSeq(peer[c][s].wire, 1, k)
            rest == Drop(peer[c][s].wire, k)
            owed == Owe(bev[c][s], "read")
            u == [bev[c][s] EXCEPT !.input = @ \o part, !.pend = owed]
            v == [peer[c][s] EXCEPT !.wire = rest]
<1>3. part \in Seq(Byte) /\ rest \in Seq(Byte)
  <2>1. k \in 0 .. Len(peer[c][s].wire)
    BY <1>2, LenProperties
  <2>. QED
    BY <1>2, <2>1, Split DEF Drop
<1>4. owed \in SUBSET {"read", "event"}
  BY <1>2, SMTT(30) DEF Owe, Bev
<1>5. peer' = [peer EXCEPT ![c][s] = v] /\ bev' = [bev EXCEPT ![c][s] = u]
  BY <1>1
<1>. HIDE DEF part, rest, owed
<1>6. bev[c][s].input \o part \in Seq(Byte)
  BY <1>2, <1>3, Joined
<1>7. u \in Bev /\ v \in Peer
  BY <1>2, <1>3, <1>4, <1>6 DEF Bev, Peer
<1>. HIDE DEF u, v
<1>8. Moves(c, s, u, v)
  BY <1>2, <1>5, <1>7, MovesIntro DEF SockRead
<1>. QED
  BY <1>1, <1>8, ZenonT(30) DEF u, v, part, rest, owed, SockRead, OpenBev

LEMMA SockEofMoves ==
  ASSUME LibEventTypeOK, NEW c \in Conn, NEW s \in Side,
         SockEof(c, s)
  PROVE  /\ bev[c][s].st \in {"live", "held"}
         /\ Moves(c, s, [bev[c][s] EXCEPT !.rd = FALSE,
                                          !.pend = Owe(bev[c][s], "event")],
                  peer[c][s])
<1>2. /\ bev[c][s] \in Bev /\ peer[c][s] \in Peer /\ proc \in ProcState
  BY Entries
<1>. DEFINE owed == Owe(bev[c][s], "event")
            u == [bev[c][s] EXCEPT !.rd = FALSE, !.pend = owed]
<1>4. owed \in SUBSET {"read", "event"}
  BY <1>2 DEF Owe, Bev
<1>5. bev' = [bev EXCEPT ![c][s] = u]
  BY DEF SockEof
<1>. HIDE DEF owed
<1>7. u \in Bev
  BY <1>2, <1>4 DEF Bev
<1>. HIDE DEF u
<1>8. Moves(c, s, u, peer[c][s])
  BY <1>2, <1>5, <1>7, MovesIntro DEF SockEof
<1>. QED
  BY <1>8 DEF u, owed, SockEof, OpenBev

(* Either the peer hears what is written, or it has closed its socket and   *)
(* the bytes are gone.                                                      *)
LEMMA SockWriteMoves ==
  ASSUME LibEventTypeOK, NEW c \in Conn, NEW s \in Side,
         SockWrite(c, s)
  PROVE  \E k \in 1 .. Len(bev[c][s].output), wr \in {"idle", "armed"},
            sock \in {"open", "broken"}, got \in Seq(Byte) :
           /\ bev[c][s].st \in {"live", "held"} /\ bev[c][s].sock = "open"
           /\ wr = "armed" <=> Drop(bev[c][s].output, k) # <<>>
           /\ \/ peer[c][s].st # "closed"
                 /\ got = peer[c][s].got \o SubSeq(bev[c][s].output, 1, k)
              \/ peer[c][s].st = "closed" /\ got = peer[c][s].got
           /\ Moves(c, s,
                [bev[c][s] EXCEPT !.output = Drop(@, k), !.wr = wr,
                                  !.sock = sock],
                [peer[c][s] EXCEPT !.got = got])
<1>. DEFINE part(k) == SubSeq(bev[c][s].output, 1, k)
            rest(k) == Drop(bev[c][s].output, k)
            hears == peer[c][s].st # "closed"
            wr(k) == IF rest(k) = <<>> THEN "idle" ELSE "armed"
            sock == IF hears THEN "open" ELSE "broken"
            got(k) == IF hears THEN peer[c][s].got \o part(k) ELSE peer[c][s].got
<1>1. PICK k \in 1 .. Len(bev[c][s].output) :
        /\ bev' = [bev EXCEPT ![c][s].output = rest(k), ![c][s].wr = wr(k),
                              ![c][s].sock = sock]
        /\ peer' = IF hears
                     THEN [peer EXCEPT ![c][s].got = @ \o part(k)]
                     ELSE peer
  BY DEF SockWrite
<1>2. /\ bev[c][s] \in Bev /\ peer[c][s] \in Peer /\ proc \in ProcState
      /\ bev[c][s].output \in Seq(Byte) /\ peer[c][s].got \in Seq(Byte)
  BY Entries DEF Peer, Bev
<1>3. part(k) \in Seq(Byte) /\ rest(k) \in Seq(Byte)
  <2>1. k \in 0 .. Len(bev[c][s].output)
    BY <1>2, LenProperties
  <2>. QED
    BY <1>2, <2>1, Split DEF Drop
<1>4. got(k) \in Seq(Byte)
  <2>1. peer[c][s].got \o part(k) \in Seq(Byte)
    BY <1>2, <1>3, Joined, SMTT(30)
  <2>. QED
    BY <1>2, <2>1
<1>. DEFINE u == [bev[c][s] EXCEPT !.output = rest(k), !.wr = wr(k),
                                   !.sock = sock]
            v == [peer[c][s] EXCEPT !.got = got(k)]
<1>5. bev' = [bev EXCEPT ![c][s] = u]
  BY <1>1, ZenonT(30)
<1>6. peer' = [peer EXCEPT ![c][s] = v] \/ (peer' = peer /\ v = peer[c][s])
  <2>1. CASE hears
    BY <1>1, <2>1
  <2>2. CASE ~hears
    BY <1>1, <1>2, <2>2 DEF Peer
  <2>. QED
    BY <2>1, <2>2
<1>7. /\ wr(k) \in {"idle", "armed"} /\ sock \in {"open", "broken"}
      /\ wr(k) = "armed" <=> Drop(bev[c][s].output, k) # <<>>
  OBVIOUS
<1>8. \/ hears /\ got(k) = peer[c][s].got \o part(k)
      \/ ~hears /\ got(k) = peer[c][s].got
  OBVIOUS
<1>. HIDE DEF rest, wr, sock, got
<1>9. u \in Bev /\ v \in Peer
  BY <1>2, <1>3, <1>4, <1>7 DEF Bev, Peer
<1>. HIDE DEF u, v
<1>10. Moves(c, s, u, v)
  BY <1>2, <1>5, <1>6, <1>9, MovesIntro DEF SockWrite
<1>11. Moves(c, s, [bev[c][s] EXCEPT !.output = Drop(@, k), !.wr = wr(k),
                                     !.sock = sock],
             [peer[c][s] EXCEPT !.got = got(k)])
  BY <1>10 DEF u, v, rest
<1>12. bev[c][s].st \in {"live", "held"} /\ bev[c][s].sock = "open"
  BY DEF SockWrite, OpenBev
<1>. QED
  BY <1>4, <1>7, <1>8, <1>11, <1>12, ZenonT(30)

LEMMA SockWriteFailMoves ==
  ASSUME LibEventTypeOK, NEW c \in Conn, NEW s \in Side,
         SockWriteFail(c, s)
  PROVE  \/ Moves(c, s, bev[c][s], peer[c][s])
         \/ /\ bev[c][s].sock = "broken"
            /\ Moves(c, s, [bev[c][s] EXCEPT !.wr = "off",
                                             !.pend = Owe(bev[c][s], "event")],
                     peer[c][s])
<1>1. /\ bev[c][s] \in Bev /\ peer[c][s] \in Peer /\ proc \in ProcState
  BY Entries
<1>2. CASE proc' = "killed" /\ UNCHANGED bev
  <2>1. proc' \in ProcState
    BY <1>2 DEF ProcState
  <2>. QED
    BY <1>1, <1>2, <2>1, MovesIntro DEF SockWriteFail
<1>3. CASE /\ bev[c][s].sock = "broken"
           /\ bev' = [bev EXCEPT ![c][s].wr = "off",
                                 ![c][s].pend = Owe(bev[c][s], "event")]
           /\ UNCHANGED proc
  <2>. DEFINE owed == Owe(bev[c][s], "event")
              u == [bev[c][s] EXCEPT !.wr = "off", !.pend = owed]
  <2>1. owed \in SUBSET {"read", "event"}
    BY <1>1 DEF Owe, Bev
  <2>2. bev' = [bev EXCEPT ![c][s] = u]
    BY <1>3
  <2>. HIDE DEF owed
  <2>3. u \in Bev
    BY <1>1, <2>1 DEF Bev
  <2>. HIDE DEF u
  <2>4. Moves(c, s, u, peer[c][s])
    BY <1>1, <1>3, <2>2, <2>3, MovesIntro DEF SockWriteFail
  <2>. QED
    BY <1>3, <2>4 DEF u, owed
<1>. QED
  BY <1>2, <1>3 DEF SockWriteFail

LEMMA ConnectDoneMoves ==
  ASSUME LibEventTypeOK, NEW c \in Conn, NEW s \in Side,
         ConnectDone(c, s)
  PROVE  /\ bev[c][s].sock = "connecting"
         /\ \/ Moves(c, s, [bev[c][s] EXCEPT !.sock = "open"], peer[c][s])
            \/ \E wr \in {"idle", bev[c][s].wr} :
                 Moves(c, s, [bev[c][s] EXCEPT !.sock = "failed", !.rd = FALSE,
                                               !.wr = wr],
                       peer[c][s])
<1>1. /\ bev[c][s] \in Bev /\ peer[c][s] \in Peer /\ proc \in ProcState
  BY Entries
<1>0. bev[c][s].sock = "connecting"
  BY DEF ConnectDone
<1>2. CASE bev' = [bev EXCEPT ![c][s].sock = "open"]
  <2>. DEFINE u == [bev[c][s] EXCEPT !.sock = "open"]
  <2>1. u \in Bev /\ bev' = [bev EXCEPT ![c][s] = u]
    BY <1>1, <1>2 DEF Bev
  <2>. HIDE DEF u
  <2>2. Moves(c, s, u, peer[c][s])
    BY <1>1, <2>1, MovesIntro DEF ConnectDone
  <2>. QED
    BY <1>0, <2>2 DEF u
<1>3. ASSUME NEW wr \in {"idle", bev[c][s].wr},
             bev' = [bev EXCEPT ![c][s].sock = "failed", ![c][s].rd = FALSE,
                                ![c][s].wr = wr]
      PROVE  Moves(c, s, [bev[c][s] EXCEPT !.sock = "failed", !.rd = FALSE,
                                           !.wr = wr],
                   peer[c][s])
  <2>. DEFINE u == [bev[c][s] EXCEPT !.sock = "failed", !.rd = FALSE, !.wr = wr]
  <2>1. bev' = [bev EXCEPT ![c][s] = u]
    BY <1>3
  <2>3. wr \in {"off", "idle", "armed"}
    BY <1>1 DEF Bev
  <2>4. u \in Bev
    BY <1>1, <2>3 DEF Bev
  <2>. HIDE DEF u
  <2>2. Moves(c, s, u, peer[c][s])
    BY <1>1, <2>1, <2>4, MovesIntro DEF ConnectDone
  <2>. QED
    BY <2>2 DEF u
<1>. QED
  BY <1>0, <1>2, <1>3 DEF ConnectDone
-----------------------------------------------------------------------------
LEMMA NewBevType ==
  ASSUME NEW sock \in {"open", "connecting"}, NEW cbs \in SUBSET {"read", "event"}
  PROVE  NewBev(sock, cbs) \in Bev /\ NoBev \in Bev /\ NewPeer \in Peer
<1>1. <<>> \in Seq(Byte)
  BY EmptySeq
<1>. QED
  BY <1>1 DEF NewBev, NoBev, NewPeer, Bev, Peer

LEMMA DestroyedType ==
  /\ Destroyed \in Bev /\ Destroyed.st = "freed"
  /\ Destroyed.cbs = {} /\ Destroyed.pend = {}
  /\ Destroyed.input = <<>> /\ Destroyed.output = <<>>
<1>1. <<>> \in Seq(Byte)
  BY EmptySeq
<1>. QED
  BY <1>1 DEF Destroyed, NoBev, Bev

(* A bufferevent that is freed is destroyed at once, or it keeps everything *)
(* but its callbacks until its deferred run has ended.                      *)
LEMMA ReleasedIs ==
  ASSUME NEW b \in Bev
  PROVE  LET nb == bufferevent_clear_free(b) IN
         /\ nb \in Bev
         /\ \/ b.pend = {} /\ nb = Destroyed
            \/ /\ b.pend # {} /\ nb.st = "held" /\ nb.cbs = {}
               /\ nb.pend = b.pend /\ nb.input = b.input /\ nb.wr = b.wr
               /\ nb.output = b.output /\ nb.sock = b.sock /\ nb.rd = b.rd
<1>1. CASE b.pend = {}
  BY <1>1, DestroyedType DEF bufferevent_clear_free, Released
<1>2. CASE b.pend # {}
  <2>. DEFINE nb == [b EXCEPT !.st = "held", !.cbs = {}]
  <2>1. nb \in Bev
    BY DEF Bev
  <2>2. /\ nb.st = "held" /\ nb.cbs = {}
        /\ nb.pend = b.pend /\ nb.input = b.input /\ nb.wr = b.wr
        /\ nb.output = b.output /\ nb.sock = b.sock /\ nb.rd = b.rd
    BY DEF Bev
  <2>3. bufferevent_clear_free(b) = nb
    BY <1>2 DEF bufferevent_clear_free, Released
  <2>. HIDE DEF nb
  <2>. QED
    BY <1>2, <2>1, <2>2, <2>3
<1>. QED
  BY <1>1, <1>2

(* A callback that frees its own bufferevent leaves it to its own run.      *)
LEMMA ReleasedInRun ==
  ASSUME NEW b \in Bev, b.pend # {}
  PROVE  /\ bufferevent_clear_free(b).st # "freed"
         /\ EndRun(bufferevent_clear_free(b)) = Destroyed
BY ReleasedIs DEF EndRun

(* The end of the deferred run of a bufferevent that has been freed.        *)
LEMMA DecrefMoves ==
  ASSUME LibEventTypeOK, NEW c \in Conn, NEW s \in Side, Decref(c, s)
  PROVE  /\ Running /\ bev[c][s].st = "held" /\ proc' = proc
         /\ Moves(c, s, Destroyed, peer[c][s])
<1>1. /\ peer[c][s] \in Peer /\ proc \in ProcState
      /\ Destroyed \in Bev
  BY Entries, DestroyedType
<1>2. /\ bev' = [bev EXCEPT ![c][s] = Destroyed] /\ peer' = peer
      /\ Running /\ bev[c][s].st = "held" /\ proc' = proc
  BY DEF Decref
<1>. QED
  BY <1>1, <1>2, MovesIntro

(* What encode_copy leaves when there is something to copy.                 *)
Copied(x, dst, src, copy) ==
  /\ copy.ret = 0
  /\ copy.src = [src EXCEPT !.input = <<>>]
  /\ \E wr \in {"off", "idle", "armed"} :
       /\ wr = IF dst.wr = "idle" THEN "armed" ELSE dst.wr
       /\ copy.dst = [dst EXCEPT !.output = dst.output \o encode_data(src.input, x),
                                 !.wr = wr]
  /\ copy.src \in Bev /\ copy.dst \in Bev

LEMMA CopyType ==
  ASSUME NEW x \in Table, NEW dst \in Bev, NEW src \in Bev, src.input # <<>>
  PROVE  Copied(x, dst, src, encode_copy(x, dst, src))
<1>. DEFINE e == encode_data(src.input, x)
            out == dst.output \o e
            wr == IF dst.wr = "idle" THEN "armed" ELSE dst.wr
            d == [dst EXCEPT !.output = out, !.wr = wr]
            s == [src EXCEPT !.input = <<>>]
<1>1. src.input \in Seq(Byte) /\ dst.output \in Seq(Byte) /\ <<>> \in Seq(Byte)
      /\ dst.wr \in {"off", "idle", "armed"}
  BY EmptySeq DEF Bev
<1>2. e \in Seq(Byte)
  BY <1>1, EncodeSeq
<1>3. encode_copy(x, dst, src) = [ret |-> 0, dst |-> d, src |-> s]
  BY DEF encode_copy, AddOutput
<1>. HIDE DEF e
<1>4. out \in Seq(Byte)
  BY <1>1, <1>2, Joined
<1>. HIDE DEF out
<1>5. wr \in {"off", "idle", "armed"}
  BY <1>1
<1>. HIDE DEF wr
<1>6. d \in Bev /\ d.output = out
  BY <1>4, <1>5 DEF Bev
<1>7. s \in Bev
  BY <1>1 DEF Bev
<1>. HIDE DEF s
<1>8. /\ encode_copy(x, dst, src).ret = 0 /\ encode_copy(x, dst, src).src = s
      /\ encode_copy(x, dst, src).dst = d
  BY <1>3
<1>. QED
  BY <1>5, <1>6, <1>7, <1>8 DEF s, out, e, wr, Copied
-----------------------------------------------------------------------------
(* What a network step does to the bytes of one side, whose bufferevent b   *)
(* and peer p become nb and np.                                             *)
Says(b, p, nb, np) ==
  /\ p.st = "open" /\ np.st = "open" /\ np.got = p.got
  /\ nb.input = b.input /\ nb.output = b.output
  /\ \E x \in Byte :
       np.sent = Append(p.sent, x) /\ np.wire = Append(p.wire, x)

Loses(b, p, nb, np) ==
  /\ p.st # "closed" /\ np.st = "reset" /\ np.got = p.got /\ np.sent = p.sent
  /\ nb.input = b.input /\ nb.output = b.output
  /\ \E k \in 0 .. Len(p.wire) : np.wire = SubSeq(p.wire, 1, k)

Reads(b, p, nb, np) ==
  /\ np.st = p.st /\ np.got = p.got /\ np.sent = p.sent
  /\ nb.output = b.output
  /\ \E k \in 0 .. Len(p.wire) :
       /\ nb.input = b.input \o SubSeq(p.wire, 1, k)
       /\ np.wire = Drop(p.wire, k)

(* A peer that has closed its socket hears nothing of what is written.      *)
Writes(b, p, nb, np) ==
  /\ np.st = p.st /\ np.sent = p.sent /\ np.wire = p.wire
  /\ nb.input = b.input
  /\ \E k \in 1 .. Len(b.output) :
       /\ nb.output = Drop(b.output, k)
       /\ np.got = IF p.st = "closed" THEN p.got
                   ELSE p.got \o SubSeq(b.output, 1, k)

Quiet(b, p, nb, np) ==
  /\ np.got = p.got /\ np.sent = p.sent /\ np.wire = p.wire
  /\ nb.input = b.input /\ nb.output = b.output
  /\ np.st # "reset" => p.st # "reset"
  /\ np.st # "closed" => p.st # "closed"

Effect(b, p, nb, np) ==
  /\ nb.st = b.st /\ b.st \in {"live", "held"}
  /\ \/ Says(b, p, nb, np)
     \/ Loses(b, p, nb, np)
     \/ Reads(b, p, nb, np)
     \/ Writes(b, p, nb, np)
     \/ Quiet(b, p, nb, np)

LEMMA NetworkEffect ==
  ASSUME LibEventTypeOK, NEW c \in Conn, NEW s \in Side, Network(c, s)
  PROVE  \E nb \in Bev, np \in Peer :
           Moves(c, s, nb, np) /\ Effect(bev[c][s], peer[c][s], nb, np)
<1>. DEFINE b == bev[c][s]
            p == peer[c][s]
            Goal == \E nb \in Bev, np \in Peer :
                      Moves(c, s, nb, np) /\ Effect(b, p, nb, np)
<1>. SUFFICES Goal
  OBVIOUS
<1>1. b \in Bev /\ p \in Peer /\ b.st \in {"live", "held"}
  BY Entries, NetworkProc
<1>2. ASSUME NEW nb, NEW np, Moves(c, s, nb, np)
      PROVE  nb \in Bev /\ np \in Peer
  BY <1>2 DEF Moves, LibEventTypeOK
<1>. HIDE DEF b, p
<1>3. ASSUME NEW nb, NEW np, Moves(c, s, nb, np), nb.st = b.st,
             \/ Says(b, p, nb, np) \/ Loses(b, p, nb, np)
             \/ Reads(b, p, nb, np) \/ Writes(b, p, nb, np)
             \/ Quiet(b, p, nb, np)
      PROVE  Goal
  BY <1>1, <1>2, <1>3 DEF Effect
<1>. HIDE DEF Goal
<1>4. CASE PeerSend(c, s)
  <2>1. PICK x \in Byte :
          /\ p.st = "open"
          /\ Moves(c, s, b, [p EXCEPT !.sent = Append(@, x),
                                      !.wire = Append(@, x)])
    BY <1>4, PeerSendMoves DEF b, p
  <2>. DEFINE np == [p EXCEPT !.sent = Append(@, x), !.wire = Append(@, x)]
  <2>2. Says(b, p, b, np)
    BY <1>1, <2>1 DEF Says, Peer
  <2>. HIDE DEF np
  <2>3. Moves(c, s, b, np)
    BY <2>1 DEF np
  <2>. QED
    BY <1>1, <1>3, <2>2, <2>3
<1>5. CASE PeerFinish(c, s)
  <2>1. PICK st \in {"shut", "closed"} :
          p.st \in {"open", "shut"} /\ Moves(c, s, b, [p EXCEPT !.st = st])
    BY <1>5, PeerFinishMoves DEF b, p
  <2>. DEFINE np == [p EXCEPT !.st = st]
  <2>2. Quiet(b, p, b, np)
    BY <1>1, <2>1 DEF Quiet, Peer
  <2>. HIDE DEF np
  <2>3. Moves(c, s, b, np)
    BY <2>1 DEF np
  <2>. QED
    BY <1>1, <1>3, <2>2, <2>3
<1>6. CASE PeerReset(c, s)
  <2>. DEFINE nb == [b EXCEPT !.sock = "broken"]
              np(k) == [p EXCEPT !.st = "reset", !.wire = SubSeq(@, 1, k)]
  <2>1. PICK k \in 0 .. Len(p.wire) :
          p.st \in {"open", "shut"} /\ Moves(c, s, nb, np(k))
    BY <1>6, PeerResetMoves DEF b, p
  <2>2. Loses(b, p, nb, np(k)) /\ nb.st = b.st
    BY <1>1, <2>1 DEF Loses, Peer, Bev
  <2>. HIDE DEF np, nb
  <2>. QED
    BY <1>3, <2>1, <2>2
<1>7. CASE SockRead(c, s)
  <2>. DEFINE owed == Owe(b, "read")
              nb(k) == [b EXCEPT !.input = @ \o SubSeq(p.wire, 1, k),
                                 !.pend = owed]
              np(k) == [p EXCEPT !.wire = Drop(@, k)]
  <2>1. PICK k \in 1 .. Len(p.wire) : Moves(c, s, nb(k), np(k))
    BY <1>7, SockReadMoves DEF b, p
  <2>2. k \in 0 .. Len(p.wire)
    BY <2>1
  <2>. HIDE DEF owed
  <2>3. Reads(b, p, nb(k), np(k)) /\ nb(k).st = b.st
    BY <1>1, <2>2 DEF Reads, Peer, Bev
  <2>. HIDE DEF np, nb
  <2>. QED
    BY <1>3, <2>1, <2>3
<1>8. CASE SockEof(c, s)
  <2>. DEFINE owed == Owe(b, "event")
              nb == [b EXCEPT !.rd = FALSE, !.pend = owed]
  <2>1. Moves(c, s, nb, p)
    BY <1>8, SockEofMoves DEF b, p
  <2>. HIDE DEF owed
  <2>2. Quiet(b, p, nb, p) /\ nb.st = b.st
    BY <1>1 DEF Quiet, Bev
  <2>. HIDE DEF nb
  <2>. QED
    BY <1>3, <2>1, <2>2
<1>9. CASE SockWrite(c, s)
  <2>1. PICK k \in 1 .. Len(b.output), wr \in {"idle", "armed"},
             sock \in {"open", "broken"}, got \in Seq(Byte) :
          /\ \/ p.st # "closed" /\ got = p.got \o SubSeq(b.output, 1, k)
             \/ p.st = "closed" /\ got = p.got
          /\ Moves(c, s, [b EXCEPT !.output = Drop(@, k), !.wr = wr,
                                   !.sock = sock],
                   [p EXCEPT !.got = got])
    BY <1>9, SockWriteMoves, Zenon DEF b, p
  <2>. DEFINE nb == [b EXCEPT !.output = Drop(@, k), !.wr = wr, !.sock = sock]
              np == [p EXCEPT !.got = got]
  <2>2. Moves(c, s, nb, np)
    BY <2>1
  <2>3. np.got = got /\ np.st = p.st /\ np.sent = p.sent /\ np.wire = p.wire
    BY <1>1 DEF Peer
  <2>4. nb.input = b.input /\ nb.output = Drop(b.output, k) /\ nb.st = b.st
    BY <1>1 DEF Bev
  <2>. HIDE DEF nb, np
  <2>5. Writes(b, p, nb, np)
    BY <2>1, <2>3, <2>4 DEF Writes
  <2>. QED
    BY <1>3, <2>2, <2>4, <2>5
<1>10. CASE SockWriteFail(c, s)
  <2>. DEFINE owed == Owe(b, "event")
              nb == [b EXCEPT !.wr = "off", !.pend = owed]
  <2>1. Moves(c, s, b, p) \/ Moves(c, s, nb, p)
    BY <1>10, SockWriteFailMoves DEF b, p
  <2>. HIDE DEF owed
  <2>2. Quiet(b, p, nb, p) /\ nb.st = b.st /\ Quiet(b, p, b, p)
    BY <1>1 DEF Quiet, Bev
  <2>. HIDE DEF nb
  <2>. QED
    BY <1>1, <1>3, <2>1, <2>2
<1>11. CASE ConnectDone(c, s)
  <2>. DEFINE nb == [b EXCEPT !.sock = "open"]
              fb(wr) == [b EXCEPT !.sock = "failed", !.rd = FALSE, !.wr = wr]
  <2>1. Moves(c, s, nb, p) \/ \E wr : Moves(c, s, fb(wr), p)
    BY <1>11, ConnectDoneMoves DEF b, p
  <2>2. Quiet(b, p, nb, p) /\ nb.st = b.st
    BY <1>1 DEF Quiet, Bev
  <2>3. \A wr : Quiet(b, p, fb(wr), p) /\ fb(wr).st = b.st
    BY <1>1 DEF Quiet, Bev
  <2>. HIDE DEF nb, fb
  <2>. QED
    BY <1>3, <2>1, <2>2, <2>3
<1>. QED
  BY <1>4, <1>5, <1>6, <1>7, <1>8, <1>9, <1>10, <1>11 DEF Network
-----------------------------------------------------------------------------
(* One direction: the speaker has bufferevent b and peer p, the hearer ob   *)
(* and op; x is the table applied on the way.                               *)
Ordered(x, cl, b, p, ob, op) ==
  LET said == encode_data(p.sent, x)
      pipe == Pipe(x, op.got, ob.output, b.input, p.wire) IN
  /\ IsPrefix(op.got, said)
  /\ cl = "live" /\ op.st # "closed" => IsPrefix(pipe, said)
  /\ cl = "live" /\ op.st # "closed" /\ p.st # "reset" => pipe = said

(* The same streams, or less of them that is still followed.                *)
LEMMA OrderedKept ==
  ASSUME NEW x, NEW cl, NEW b, NEW p, NEW ob, NEW op,
         NEW cl2, NEW b2, NEW p2, NEW ob2, NEW op2,
         Ordered(x, cl, b, p, ob, op),
         p2.sent = p.sent, op2.got = op.got,
         p2.st # "reset" => p.st # "reset",
         cl2 = "live" /\ op2.st # "closed" =>
           /\ cl = "live" /\ op.st # "closed"
           /\ ob2.output = ob.output /\ b2.input = b.input /\ p2.wire = p.wire
  PROVE  Ordered(x, cl2, b2, p2, ob2, op2)
BY DEF Ordered

LEMMA OrderedSay ==
  ASSUME NEW x \in Table, NEW b \in Bev, NEW p \in Peer, NEW ob \in Bev,
         NEW op \in Peer, NEW b2, NEW p2, NEW byte \in Byte, p.st # "reset",
         b2.input = b.input, p2.sent = Append(p.sent, byte),
         p2.wire = Append(p.wire, byte),
         Ordered(x, "live", b, p, ob, op)
  PROVE  Ordered(x, "live", b2, p2, ob, op)
<1>. DEFINE v == <<byte>>
            ev == encode_data(v, x)
            said == encode_data(p.sent, x)
            pipe == Pipe(x, op.got, ob.output, b.input, p.wire)
            sent2 == Append(p.sent, byte)
            wire2 == Append(p.wire, byte)
<1>1. /\ p.sent \in Seq(Byte) /\ p.wire \in Seq(Byte) /\ op.got \in Seq(Byte)
      /\ ob.output \in Seq(Byte) /\ b.input \in Seq(Byte)
  BY Fields
<1>2. v \in Seq(Byte)
  OBVIOUS
<1>3. sent2 = Cat(p.sent, v) /\ wire2 = Cat(p.wire, v)
  BY <1>1, AppendIsConcat DEF Cat
<1>. HIDE DEF v, sent2, wire2
<1>4. encode_data(sent2, x) = Cat(said, ev)
  BY <1>1, <1>2, <1>3, CatEncode
<1>5. Pipe(x, op.got, ob.output, b.input, wire2) = Cat(pipe, ev)
  BY <1>1, <1>2, <1>3, PipeSay, SMTT(30)
<1>6. said \in Seq(Byte) /\ ev \in Seq(Byte)
  BY <1>1, <1>2, EncodeSeq
<1>7. pipe \in Seq(Byte)
  BY <1>1, PipeSeq
<1>8. /\ IsPrefix(op.got, said)
      /\ op.st # "closed" => pipe = said
  BY DEF Ordered
<1>. HIDE DEF said, pipe, ev
<1>9. IsPrefix(op.got, Cat(said, ev))
  BY <1>1, <1>6, <1>8, PrefixGrows DEF Cat
<1>10. IsPrefix(Cat(said, ev), Cat(said, ev))
  <2>. DEFINE e == Cat(said, ev)
  <2>1. e \in Seq(Byte)
    BY <1>6, CatSeq
  <2>. HIDE DEF e
  <2>2. e \o <<>> = e /\ <<>> \in Seq(Byte)
    BY <2>1, ConcatEmptySeq, EmptySeq
  <2>3. IsPrefix(e, e \o <<>>)
    BY <2>1, <2>2, PrefixIntro
  <2>. QED
    BY <2>2, <2>3 DEF e
<1>11. p2.sent = sent2 /\ p2.wire = wire2
  BY DEF sent2, wire2
<1>. QED
  BY <1>4, <1>5, <1>8, <1>9, <1>10, <1>11 DEF Ordered

LEMMA OrderedCut ==
  ASSUME NEW x \in Table, NEW b \in Bev, NEW p \in Peer, NEW ob \in Bev,
         NEW op \in Peer, NEW b2, NEW p2, NEW k \in 0 .. Len(p.wire),
         b2.input = b.input, p2.sent = p.sent, p2.st = "reset",
         p2.wire = SubSeq(p.wire, 1, k),
         Ordered(x, "live", b, p, ob, op)
  PROVE  Ordered(x, "live", b2, p2, ob, op)
<1>. DEFINE said == encode_data(p.sent, x)
            part == SubSeq(p.wire, 1, k)
            pipe == Pipe(x, op.got, ob.output, b.input, p.wire)
            cut == Pipe(x, op.got, ob.output, b.input, part)
<1>1. /\ p.sent \in Seq(Byte) /\ p.wire \in Seq(Byte) /\ op.got \in Seq(Byte)
      /\ ob.output \in Seq(Byte) /\ b.input \in Seq(Byte)
  BY Fields
<1>2. part \in Seq(Byte)
  BY <1>1, Split
<1>4. said \in Seq(Byte)
  BY <1>1, EncodeSeq
<1>6. IsPrefix(op.got, said) /\ (op.st # "closed" => IsPrefix(pipe, said))
  BY DEF Ordered
<1>7. p2.sent = p.sent /\ p2.wire = part /\ b2.input = b.input /\ p2.st = "reset"
  BY DEF part
<1>8. op.st # "closed" => IsPrefix(cut, said)
  <2>. HAVE op.st # "closed"
  <2>1. IsPrefix(Pipe(x, op.got, ob.output, b.input, p.wire), said)
    BY <1>6
  <2>. HIDE DEF said
  <2>. QED
    BY <1>1, <1>4, <2>1, PipeCutPrefix
<1>. HIDE DEF said, pipe, part
<1>. QED
  BY <1>6, <1>7, <1>8 DEF Ordered, said

LEMMA OrderedRead ==
  ASSUME NEW x \in Table, NEW b \in Bev, NEW p \in Peer, NEW ob \in Bev,
         NEW op \in Peer, NEW b2, NEW p2, NEW k \in 0 .. Len(p.wire),
         b2.input = b.input \o SubSeq(p.wire, 1, k), p2.sent = p.sent,
         p2.st = p.st, p2.wire = Drop(p.wire, k),
         Ordered(x, "live", b, p, ob, op)
  PROVE  Ordered(x, "live", b2, p2, ob, op)
<1>1. /\ p.sent \in Seq(Byte) /\ p.wire \in Seq(Byte) /\ op.got \in Seq(Byte)
      /\ ob.output \in Seq(Byte) /\ b.input \in Seq(Byte)
  BY Fields
<1>. DEFINE input == b.input \o SubSeq(p.wire, 1, k)
            wire == SubSeq(p.wire, k + 1, Len(p.wire))
<1>2. Pipe(x, op.got, ob.output, input, wire)
        = Pipe(x, op.got, ob.output, b.input, p.wire)
  BY <1>1, PipeRead
<1>3. b2.input = input /\ p2.wire = wire /\ p2.sent = p.sent /\ p2.st = p.st
  BY DEF Drop
<1>. HIDE DEF input, wire
<1>. QED
  BY <1>2, <1>3 DEF Ordered

LEMMA OrderedWrite ==
  ASSUME NEW x \in Table, NEW b \in Bev, NEW p \in Peer, NEW ob \in Bev,
         NEW op \in Peer, NEW ob2, NEW op2, NEW k \in 0 .. Len(ob.output),
         ob2.output = Drop(ob.output, k), op.st # "closed",
         op2.got = op.got \o SubSeq(ob.output, 1, k),
         Ordered(x, "live", b, p, ob, op)
  PROVE  Ordered(x, "live", b, p, ob2, op2)
<1>1. /\ p.sent \in Seq(Byte) /\ p.wire \in Seq(Byte) /\ op.got \in Seq(Byte)
      /\ ob.output \in Seq(Byte) /\ b.input \in Seq(Byte)
  BY Fields
<1>. DEFINE part == SubSeq(ob.output, 1, k)
            got == op.got \o part
            output == SubSeq(ob.output, k + 1, Len(ob.output))
            ei == encode_data(b.input, x)
            ew == encode_data(p.wire, x)
            said == encode_data(p.sent, x)
            rest == output \o ei \o ew
<1>2. Pipe(x, got, output, b.input, p.wire)
        = Pipe(x, op.got, ob.output, b.input, p.wire)
  BY <1>1, PipeWrite
<1>3. ob2.output = output /\ op2.got = got
  BY DEF Drop
<1>4. part \in Seq(Byte) /\ output \in Seq(Byte)
  BY <1>1, Split
<1>5. ei \in Seq(Byte) /\ ew \in Seq(Byte) /\ said \in Seq(Byte)
  BY <1>1, EncodeSeq
<1>6. Pipe(x, got, output, b.input, p.wire) = got \o rest
  BY DEF Pipe
<1>. HIDE DEF output, ei, ew, part, said
<1>7. rest \in Seq(Byte)
  <2>1. output \o ei \in Seq(Byte)
    BY <1>4, <1>5, Joined
  <2>. QED
    BY <1>5, <2>1, Joined
<1>8. got \in Seq(Byte)
  BY <1>1, <1>4, Joined
<1>. HIDE DEF got, rest
<1>9. /\ IsPrefix(Pipe(x, op.got, ob.output, b.input, p.wire), said)
      /\ p.st # "reset" => Pipe(x, op.got, ob.output, b.input, p.wire) = said
  BY DEF Ordered, said
<1>10. IsPrefix(got, said)
  BY <1>2, <1>5, <1>6, <1>7, <1>8, <1>9, PrefixTrans
<1>. QED
  BY <1>2, <1>3, <1>9, <1>10 DEF Ordered, said

LEMMA OrderedCopy ==
  ASSUME NEW x \in Table, NEW b \in Bev, NEW p \in Peer, NEW ob \in Bev,
         NEW op \in Peer, NEW b2, NEW ob2,
         b2.input = <<>>,
         ob2.output = ob.output \o encode_data(b.input, x),
         Ordered(x, "live", b, p, ob, op)
  PROVE  Ordered(x, "live", b2, p, ob2, op)
<1>1. /\ p.sent \in Seq(Byte) /\ p.wire \in Seq(Byte) /\ op.got \in Seq(Byte)
      /\ ob.output \in Seq(Byte) /\ b.input \in Seq(Byte)
  BY Fields
<1>. DEFINE output == ob.output \o encode_data(b.input, x)
<1>2. Pipe(x, op.got, output, <<>>, p.wire)
        = Pipe(x, op.got, ob.output, b.input, p.wire)
  BY <1>1, PipeCopy
<1>3. ob2.output = output
  OBVIOUS
<1>. HIDE DEF output
<1>. QED
  BY <1>2, <1>3 DEF Ordered

LEMMA OrderedNew ==
  ASSUME NEW x \in Table, NEW cl, NEW b, NEW ob, b.input = <<>>, ob.output = <<>>
  PROVE  Ordered(x, cl, b, NewPeer, ob, NewPeer)
<1>1. encode_data(<<>>, x) = <<>> /\ <<>> \in Seq(Byte)
  BY EncodeEmpty, EmptySeq
<1>2. <<>> \o <<>> = <<>>
  BY <1>1, ConcatEmptySeq
<1>3. Pipe(x, <<>>, <<>>, <<>>, <<>>) = <<>>
  BY <1>1, <1>2 DEF Pipe
<1>4. IsPrefix(<<>>, <<>>)
  BY <1>1, <1>2, PrefixIntro
<1>5. NewPeer.sent = <<>> /\ NewPeer.got = <<>> /\ NewPeer.wire = <<>>
  BY DEF NewPeer
<1>. QED
  BY <1>1, <1>3, <1>4, <1>5 DEF Ordered

(* Whatever a network step does at the speaker's or at the hearer's side    *)
(* keeps their bytes in order.                                              *)
LEMMA OrderedSpeaker ==
  ASSUME NEW x \in Table, NEW b \in Bev, NEW p \in Peer, NEW ob \in Bev,
         NEW op \in Peer, NEW nb, NEW np, Effect(b, p, nb, np),
         Ordered(x, "live", b, p, ob, op)
  PROVE  Ordered(x, "live", nb, np, ob, op)
<1>1. CASE Says(b, p, nb, np)
  BY <1>1, OrderedSay DEF Says
<1>2. CASE Loses(b, p, nb, np)
  BY <1>2, OrderedCut DEF Loses
<1>3. CASE Reads(b, p, nb, np)
  BY <1>3, OrderedRead DEF Reads
<1>4. CASE Writes(b, p, nb, np) \/ Quiet(b, p, nb, np)
  <2>1. /\ np.sent = p.sent /\ np.wire = p.wire /\ nb.input = b.input
        /\ np.st # "reset" => p.st # "reset"
    BY <1>4 DEF Writes, Quiet
  <2>. QED
    BY <2>1, OrderedKept
<1>. QED
  BY <1>1, <1>2, <1>3, <1>4 DEF Effect

LEMMA OrderedHearer ==
  ASSUME NEW x \in Table, NEW b \in Bev, NEW p \in Peer, NEW ob \in Bev,
         NEW op \in Peer, NEW nb, NEW np, Effect(b, p, nb, np),
         Ordered(x, "live", ob, op, b, p)
  PROVE  Ordered(x, "live", ob, op, nb, np)
<1>1. CASE Writes(b, p, nb, np)
  <2>1. PICK k \in 1 .. Len(b.output) :
          /\ nb.output = Drop(b.output, k)
          /\ np.got = IF p.st = "closed" THEN p.got
                      ELSE p.got \o SubSeq(b.output, 1, k)
    BY <1>1 DEF Writes
  <2>2. np.st = p.st /\ k \in 0 .. Len(b.output)
    BY <1>1, <2>1 DEF Writes
  <2>3. CASE p.st = "closed"
    <3>1. np.got = p.got /\ np.st = "closed"
      BY <2>1, <2>2, <2>3
    <3>. QED
      BY <3>1, OrderedKept
  <2>4. CASE p.st # "closed"
    <3>1. np.got = p.got \o SubSeq(b.output, 1, k)
      BY <2>1, <2>4
    <3>. QED
      BY <2>1, <2>2, <2>4, <3>1, OrderedWrite
  <2>. QED
    BY <2>3, <2>4
<1>2. CASE Says(b, p, nb, np) \/ Reads(b, p, nb, np) \/ Quiet(b, p, nb, np)
           \/ Loses(b, p, nb, np)
  <2>1. /\ np.got = p.got /\ nb.output = b.output
        /\ np.st # "closed" => p.st # "closed"
    BY <1>2 DEF Says, Reads, Quiet, Loses
  <2>. QED
    BY <2>1, OrderedKept
<1>. QED
  BY <1>1, <1>2 DEF Effect
-----------------------------------------------------------------------------
(* What is true of a direction even when its speaker's bufferevent is gone: *)
(* the hearer's output, if it is still flushed, goes on from what has been  *)
(* heard.                                                                   *)
Heads(x, p, ob, op) ==
  LET said == encode_data(p.sent, x) IN
  /\ IsPrefix(op.got, said)
  /\ op.st # "closed" => IsPrefix(op.got \o ob.output, said)

LEMMA OrderedHeads ==
  ASSUME NEW x \in Table, NEW b \in Bev, NEW p \in Peer, NEW ob \in Bev,
         NEW op \in Peer, Ordered(x, "live", b, p, ob, op)
  PROVE  Heads(x, p, ob, op)
<1>1. /\ p.sent \in Seq(Byte) /\ p.wire \in Seq(Byte) /\ op.got \in Seq(Byte)
      /\ ob.output \in Seq(Byte) /\ b.input \in Seq(Byte)
  BY Fields
<1>. DEFINE said == encode_data(p.sent, x)
            ho == Cat(op.got, ob.output)
            rest == encode_data(Cat(b.input, p.wire), x)
<1>2. said \in Seq(Byte) /\ ho \in Seq(Byte) /\ rest \in Seq(Byte)
  BY <1>1, EncodeSeq, CatSeq
<1>3. Pipe(x, op.got, ob.output, b.input, p.wire) = Cat(ho, rest)
  BY <1>1, PipeIs
<1>4. IsPrefix(op.got, said)
  BY DEF Ordered
<1>5. op.st # "closed" => IsPrefix(Cat(ho, rest), said)
  BY <1>3 DEF Ordered
<1>. HIDE DEF said, ho, rest
<1>6. op.st # "closed" => IsPrefix(ho, said)
  BY <1>2, <1>5, PrefixTrans DEF Cat
<1>. QED
  BY <1>4, <1>6 DEF Heads, said, ho, Cat

(* A hearer whose output is dropped has heard what it has heard.            *)
LEMMA HeadsDropped ==
  ASSUME NEW x, NEW p, NEW ob, NEW op \in Peer, NEW ob2,
         Heads(x, p, ob, op), ob2.output = <<>> \/ ob2.output = ob.output
  PROVE  Heads(x, p, ob2, op)
<1>1. op.got \in Seq(Byte) /\ <<>> \in Seq(Byte)
  BY EmptySeq DEF Peer
<1>2. op.got \o <<>> = op.got
  BY <1>1, ConcatEmptySeq
<1>. QED
  BY <1>2 DEF Heads

LEMMA HeadsSpeaker ==
  ASSUME NEW x \in Table, NEW b \in Bev, NEW p \in Peer, NEW ob \in Bev,
         NEW op \in Peer, NEW nb, NEW np, Effect(b, p, nb, np),
         Heads(x, p, ob, op)
  PROVE  Heads(x, np, ob, op)
<1>1. CASE Says(b, p, nb, np)
  <2>1. PICK byte \in Byte : np.sent = Append(p.sent, byte)
    BY <1>1 DEF Says
  <2>. DEFINE v == <<byte>>
              ev == encode_data(v, x)
              said == encode_data(p.sent, x)
              ho == Cat(op.got, ob.output)
  <2>2. /\ p.sent \in Seq(Byte) /\ op.got \in Seq(Byte)
        /\ ob.output \in Seq(Byte) /\ v \in Seq(Byte)
    BY Fields
  <2>3. np.sent = Cat(p.sent, v)
    BY <2>1, <2>2, AppendIsConcat DEF Cat
  <2>. HIDE DEF v
  <2>4. encode_data(np.sent, x) = Cat(said, ev)
    BY <2>2, <2>3, CatEncode
  <2>5. said \in Seq(Byte) /\ ev \in Seq(Byte) /\ ho \in Seq(Byte)
    BY <2>2, EncodeSeq, CatSeq
  <2>6. /\ IsPrefix(op.got, said)
        /\ op.st # "closed" => IsPrefix(ho, said)
    BY DEF Heads, Cat
  <2>. HIDE DEF said, ev, ho
  <2>7. /\ IsPrefix(op.got, Cat(said, ev))
        /\ op.st # "closed" => IsPrefix(ho, Cat(said, ev))
    BY <2>2, <2>5, <2>6, PrefixGrows DEF Cat
  <2>. QED
    BY <2>4, <2>7 DEF Heads, ho, Cat
<1>2. CASE Loses(b, p, nb, np) \/ Reads(b, p, nb, np) \/ Writes(b, p, nb, np)
           \/ Quiet(b, p, nb, np)
  <2>1. np.sent = p.sent
    BY <1>2 DEF Loses, Reads, Writes, Quiet
  <2>. QED
    BY <2>1 DEF Heads
<1>. QED
  BY <1>1, <1>2 DEF Effect

LEMMA HeadsHearer ==
  ASSUME NEW x \in Table, NEW b \in Bev, NEW p \in Peer,
         NEW op \in Peer, NEW nb, NEW np, Effect(b, p, nb, np),
         Heads(x, op, b, p)
  PROVE  Heads(x, op, nb, np)
<1>1. CASE Writes(b, p, nb, np)
  <2>1. PICK k \in 1 .. Len(b.output) :
          /\ nb.output = Drop(b.output, k)
          /\ np.got = IF p.st = "closed" THEN p.got
                      ELSE p.got \o SubSeq(b.output, 1, k)
    BY <1>1 DEF Writes
  <2>2. np.st = p.st
    BY <1>1 DEF Writes
  <2>3. CASE p.st = "closed"
    BY <2>1, <2>2, <2>3 DEF Heads
  <2>4. CASE p.st # "closed"
    <3>. DEFINE part == SubSeq(b.output, 1, k)
                rest == SubSeq(b.output, k + 1, Len(b.output))
                said == encode_data(op.sent, x)
    <3>1. /\ op.sent \in Seq(Byte) /\ p.got \in Seq(Byte)
          /\ b.output \in Seq(Byte) /\ k \in 0 .. Len(b.output)
      BY <2>1, Fields
    <3>2. /\ part \in Seq(Byte) /\ rest \in Seq(Byte) /\ said \in Seq(Byte)
          /\ b.output = part \o rest
      BY <3>1, Split, EncodeSeq
    <3>3. np.got = p.got \o part /\ nb.output = rest
      BY <2>1, <2>4 DEF Drop
    <3>4. IsPrefix(p.got \o b.output, said)
      BY <2>4 DEF Heads
    <3>. HIDE DEF part, rest, said
    <3>5. (p.got \o part) \o rest = p.got \o b.output
      <4>1. (p.got \o part) \o rest = p.got \o (part \o rest)
        BY <3>1, <3>2, Assoc
      <4>. QED
        BY <3>2, <4>1
    <3>6. IsPrefix(np.got \o nb.output, said)
      BY <3>3, <3>4, <3>5
    <3>7. np.got \in Seq(Byte)
      BY <3>1, <3>2, <3>3, Joined
    <3>8. IsPrefix(np.got, said)
      BY <3>2, <3>3, <3>6, <3>7, PrefixTrans
    <3>. QED
      BY <3>6, <3>8 DEF Heads, said
  <2>. QED
    BY <2>3, <2>4
<1>2. CASE Says(b, p, nb, np) \/ Reads(b, p, nb, np) \/ Quiet(b, p, nb, np)
           \/ Loses(b, p, nb, np)
  <2>1. /\ np.got = p.got /\ nb.output = b.output
        /\ np.st # "closed" => p.st # "closed"
    BY <1>2 DEF Says, Reads, Quiet, Loses
  <2>. QED
    BY <2>1 DEF Heads
<1>. QED
  BY <1>1, <1>2 DEF Effect
=============================================================================
