---------------------------- MODULE ClientProofs ----------------------------
(***************************************************************************)
(* What Client guarantees for any number of connections, any streams, any  *)
(* password and any number of descriptors.                                 *)
(***************************************************************************)
EXTENDS Client, LibEventTheorems

(* A step at one side of one connection leaves the Client structs alone.    *)
LEMMA MovesTypeOK ==
  ASSUME TypeOK, NEW c \in Conn, NEW s \in Side, NEW nb, NEW np,
         Moves(c, s, nb, np), client' = client
  PROVE  TypeOK'
BY DEF TypeOK, Moves

LEMMA ClientEntries ==
  ASSUME TypeOK, NEW c \in Conn, NEW s \in Side
  PROVE  /\ bev[c][s] \in Bev /\ peer[c][s] \in Peer /\ proc \in ProcState
         /\ client[c] \in ClientState /\ LibEventTypeOK
BY DEF TypeOK, LibEventTypeOK

(* The callbacks, each as a change of both sides of one connection.         *)
PairMoves(c, local, remote, cl) ==
  /\ bev'[c]["local"] = local /\ bev'[c]["remote"] = remote
  /\ peer' = peer
  /\ client'[c] = cl
  /\ \A d \in Conn : d # c =>
       /\ client'[d] = client[d]
       /\ \A t \in Side : bev'[d][t] = bev[d][t]
  /\ TypeOK'

LEMMA PairIs ==
  ASSUME NEW S, NEW l \in S, NEW r \in S
  PROVE  /\ Pair(l, r) \in [Side -> S]
         /\ Pair(l, r)["local"] = l /\ Pair(l, r)["remote"] = r
BY SideAssumption DEF Pair

LEMMA PairRunEnds ==
  ASSUME NEW l, NEW r
  PROVE  [Pair(l, r) EXCEPT !["local"] = EndRun(@)] = Pair(EndRun(l), r)
<1>1. \A v : [Pair(l, r) EXCEPT !["local"] = v] = Pair(v, r)
  BY SideAssumption DEF Pair
<1>2. Pair(l, r)["local"] = l
  BY SideAssumption DEF Pair
<1>. QED
  BY <1>1, <1>2

LEMMA PairIntro ==
  ASSUME TypeOK, NEW c \in Conn, NEW l \in Bev, NEW r \in Bev,
         bev' = [bev EXCEPT ![c] = Pair(l, r)], peer' = peer,
         proc' \in ProcState, NEW cl \in ClientState,
         client' = [client EXCEPT ![c] = cl] \/ (client' = client /\ cl = client[c])
  PROVE  PairMoves(c, l, r, cl)
<1>. DEFINE f == Pair(l, r)
<1>1. /\ bev \in [Conn -> [Side -> Bev]] /\ peer \in [Conn -> [Side -> Peer]]
      /\ client \in [Conn -> ClientState]
  BY DEF TypeOK, LibEventTypeOK
<1>2. f \in [Side -> Bev] /\ f["local"] = l /\ f["remote"] = r
  BY PairIs
<1>3. bev' = [bev EXCEPT ![c] = f]
  OBVIOUS
<1>. HIDE DEF f
<1>4. /\ bev' \in [Conn -> [Side -> Bev]]
      /\ bev'[c]["local"] = l /\ bev'[c]["remote"] = r
      /\ \A d \in Conn : d # c => \A t \in Side : bev'[d][t] = bev[d][t]
  BY <1>1, <1>2, <1>3
<1>5. /\ client' \in [Conn -> ClientState] /\ client'[c] = cl
      /\ \A d \in Conn : d # c => client'[d] = client[d]
  BY <1>1
<1>. QED
  BY <1>1, <1>4, <1>5 DEF PairMoves, TypeOK, LibEventTypeOK

-----------------------------------------------------------------------------
(* The life of the two bufferevents and of the Client struct.               *)
Callbacks(s) == IF s = "local" THEN local_cbs ELSE remote_cbs

(* A bufferevent of a released connection is held for a read callback.      *)
Tied(cl, s, b) ==
  /\ "read" \in b.pend <=> b.input # <<>>
  /\ cl = "none" => b.st = "none" /\ b.cbs = {} /\ b.pend = {}
  /\ cl = "live" =>
       b.st = "live" /\ b.cbs = Callbacks(s) /\ b.pend \subseteq b.cbs
  /\ cl \in {"freed", "leaked"} =>
       /\ b.cbs = {}
       /\ \/ b.st = "freed" /\ b.pend = {}
          \/ b.st = "held" /\ "read" \in b.pend

LifeInv ==
  /\ TypeOK
  /\ NoUseAfterFree
  /\ \A c \in Conn, s \in Side : Tied(client[c], s, bev[c][s])

LEMMA DestroyedTied ==
  ASSUME NEW s \in Side, NEW cl \in {"freed", "leaked"}
  PROVE  Tied(cl, s, Destroyed)
BY DestroyedType DEF Tied

(* Only a read callback can be owed to the remote bufferevent.              *)
LEMMA ReleasedTied ==
  ASSUME NEW b \in Bev, Tied("live", "remote", b)
  PROVE  Tied("freed", "remote", bufferevent_clear_free(b))
<1>. DEFINE nb == bufferevent_clear_free(b)
<1>1. CASE b.pend = {}
  BY <1>1, ReleasedIs, DestroyedTied, SideAssumption
<1>2. CASE b.pend # {}
  <2>1. /\ nb.st = "held" /\ nb.cbs = {} /\ nb.pend = b.pend
        /\ nb.input = b.input
    BY <1>2, ReleasedIs
  <2>2. "read" \in b.pend /\ b.input # <<>>
    BY <1>2 DEF Tied, Callbacks, remote_cbs
  <2>3. \A fb : (/\ fb.st = "held" /\ fb.cbs = {} /\ fb.pend = b.pend
                 /\ fb.input = b.input)
               => Tied("freed", "remote", fb)
    BY <2>2 DEF Tied
  <2>. QED
    BY <2>1, <2>3
<1>. QED
  BY <1>1, <1>2

LEMMA MovesLife ==
  ASSUME LifeInv, NEW c \in Conn, NEW s \in Side, NEW nb, NEW np,
         Moves(c, s, nb, np), client' = client, Tied(client[c], s, nb),
         NoUseAfterFree'
  PROVE  LifeInv'
<1>1. \A d \in Conn, t \in Side : Tied(client'[d], t, bev'[d][t])
  BY DEF LifeInv, Moves
<1>2. TypeOK'
  BY MovesTypeOK DEF LifeInv
<1>. QED
  BY <1>1, <1>2 DEF LifeInv

LEMMA PairLife ==
  ASSUME LifeInv, NEW c \in Conn, NEW l, NEW r, NEW cl,
         PairMoves(c, l, r, cl), Tied(cl, "local", l), Tied(cl, "remote", r),
         NoUseAfterFree'
  PROVE  LifeInv'
<1>1. \A d \in Conn, t \in Side : Tied(client'[d], t, bev'[d][t])
  BY SideAssumption DEF LifeInv, PairMoves
<1>. QED
  BY <1>1 DEF LifeInv, PairMoves

(* Every network step happens to a connection that has been accepted.       *)
LEMMA NetworkGuard ==
  ASSUME LifeInv, NEW c \in Conn, NEW s \in Side, Network(c, s)
  PROVE  /\ client[c] # "none" /\ client[c] \in ClientState
         /\ bev[c][s].st \in {"live", "held"} /\ NoUseAfterFree'
         /\ Tied(client[c], s, bev[c][s])
<1>1. bev[c][s].st \in {"live", "held"} /\ NoUseAfterFree'
  BY NetworkProc DEF LifeInv, NoUseAfterFree
<1>2. Tied(client[c], s, bev[c][s]) /\ client[c] \in ClientState
  BY ClientEntries DEF LifeInv
<1>3. client[c] # "none"
  BY <1>1, <1>2 DEF Tied
<1>. QED
  BY <1>1, <1>2, <1>3

LEMMA NetworkLife ==
  ASSUME LifeInv, NEW c \in Conn, NEW s \in Side, NetworkStep(c, s)
  PROVE  LifeInv'
<1>. DEFINE b == bev[c][s]
            cl == client[c]
<1>0. /\ cl # "none" /\ cl \in ClientState /\ NoUseAfterFree'
      /\ Tied(cl, s, b) /\ b.st \in {"live", "held"} /\ cl = client[c]
      /\ TypeOK /\ LibEventTypeOK /\ client' = client /\ b \in Bev
  BY NetworkGuard, ClientEntries DEF NetworkStep, LifeInv
<1>. HIDE DEF b, cl
<1>1. \A nb : (nb.st = b.st /\ nb.cbs = b.cbs /\ nb.pend = b.pend
                /\ nb.input = b.input)
              => Tied(cl, s, nb)
  BY <1>0 DEF Tied
<1>2. \A nb : (nb.st = b.st /\ nb.cbs = b.cbs /\ nb.pend = Owe(b, "event")
                /\ nb.input = b.input)
              => Tied(cl, s, nb)
  BY <1>0 DEF Tied, Owe
<1>3. CASE PeerSend(c, s)
  <2>1. PICK np : Moves(c, s, b, np)
    BY <1>0, <1>3, PeerSendMoves DEF b
  <2>. QED
    BY <1>0, <2>1, MovesLife
<1>4. CASE PeerFinish(c, s)
  <2>1. PICK np : Moves(c, s, b, np)
    BY <1>0, <1>4, PeerFinishMoves DEF b
  <2>. QED
    BY <1>0, <2>1, MovesLife
<1>5. CASE PeerReset(c, s)
  <2>. DEFINE u == [b EXCEPT !.sock = "broken"]
  <2>1. PICK k \in 0 .. Len(peer[c][s].wire) :
          Moves(c, s, u, [peer[c][s] EXCEPT !.st = "reset",
                                            !.wire = SubSeq(@, 1, k)])
    BY <1>0, <1>5, PeerResetMoves DEF b
  <2>2. Tied(cl, s, u)
    BY <1>0, <1>1 DEF Bev
  <2>. HIDE DEF u
  <2>. QED
    BY <1>0, <2>1, <2>2, MovesLife
<1>6. CASE SockRead(c, s)
  <2>. DEFINE w == peer[c][s].wire
              u(k) == [b EXCEPT !.input = @ \o SubSeq(w, 1, k),
                                !.pend = Owe(b, "read")]
  <2>1. PICK k \in 1 .. Len(w) :
          Moves(c, s, u(k), [peer[c][s] EXCEPT !.wire = Drop(@, k)])
    BY <1>0, <1>6, SockReadMoves DEF b
  <2>2. w \in Seq(Byte) /\ b.input \in Seq(Byte) /\ Len(w) \in Nat
    BY <1>0, ClientEntries, LenProperties DEF Peer, Bev
  <2>. HIDE DEF w
  <2>3. SubSeq(w, 1, k) \in Seq(Byte) /\ Len(SubSeq(w, 1, k)) = k /\ k > 0
    BY <2>1, <2>2, Split
  <2>. DEFINE part == SubSeq(w, 1, k)
  <2>. HIDE DEF part
  <2>4. part \in Seq(Byte) /\ Len(part) # 0
    BY <2>3 DEF part
  <2>5. b.input \o part # <<>>
    BY <2>2, <2>4, ConcatEqualIffEmpty, EmptySeq
  <2>. DEFINE joined == b.input \o part
              v == [b EXCEPT !.input = joined, !.pend = Owe(b, "read")]
  <2>6. v = u(k)
    BY DEF part
  <2>. HIDE DEF joined
  <2>7. /\ v.st = b.st /\ v.cbs = b.cbs /\ v.pend = Owe(b, "read")
        /\ v.input # <<>>
    BY <1>0, <2>5 DEF Bev, joined
  <2>. HIDE DEF v
  <2>8. Tied(cl, s, v)
    <3>1. CASE cl = "live"
      BY <1>0, <2>7, <3>1, SideAssumption
         DEF Tied, Owe, Callbacks, local_cbs, remote_cbs
    <3>2. CASE cl \in {"freed", "leaked"}
      <4>1. b.st = "held" /\ "read" \in b.pend /\ b.cbs = {}
        BY <1>0, <3>2 DEF Tied
      <4>2. v.pend = b.pend
        BY <2>7, <4>1 DEF Owe
      <4>. QED
        BY <2>7, <3>2, <4>1, <4>2 DEF Tied
    <3>. QED
      BY <1>0, <3>1, <3>2 DEF ClientState
  <2>9. Moves(c, s, v, [peer[c][s] EXCEPT !.wire = Drop(@, k)])
    BY <2>1, <2>6
  <2>. QED
    BY <1>0, <2>8, <2>9, MovesLife
<1>7. CASE SockEof(c, s)
  <2>. DEFINE u == [b EXCEPT !.rd = FALSE, !.pend = Owe(b, "event")]
  <2>1. Moves(c, s, u, peer[c][s])
    BY <1>0, <1>7, SockEofMoves DEF b
  <2>2. Tied(cl, s, u)
    BY <1>0, <1>2 DEF Bev
  <2>. HIDE DEF u
  <2>. QED
    BY <1>0, <2>1, <2>2, MovesLife
<1>8. CASE SockWrite(c, s)
  <2>1. PICK k \in 1 .. Len(b.output), wr \in {"idle", "armed"},
             sock \in {"open", "broken"}, got \in Seq(Byte) :
          Moves(c, s, [b EXCEPT !.output = Drop(@, k), !.wr = wr, !.sock = sock],
                [peer[c][s] EXCEPT !.got = got])
    BY <1>0, <1>8, SockWriteMoves, ZenonT(30) DEF b
  <2>. DEFINE u == [b EXCEPT !.output = Drop(@, k), !.wr = wr, !.sock = sock]
  <2>2. Tied(cl, s, u)
    BY <1>0, <1>1 DEF Bev
  <2>. HIDE DEF u
  <2>. QED
    BY <1>0, <2>1, <2>2, MovesLife DEF u
<1>9. CASE SockWriteFail(c, s)
  <2>. DEFINE u == [b EXCEPT !.wr = "off", !.pend = Owe(b, "event")]
  <2>1. Moves(c, s, b, peer[c][s]) \/ Moves(c, s, u, peer[c][s])
    BY <1>0, <1>9, SockWriteFailMoves DEF b
  <2>2. Tied(cl, s, u)
    BY <1>0, <1>2 DEF Bev
  <2>. HIDE DEF u
  <2>. QED
    BY <1>0, <2>1, <2>2, MovesLife
<1>10. CASE ConnectDone(c, s)
  <2>. DEFINE u == [b EXCEPT !.sock = "open"]
              v(wr) == [b EXCEPT !.sock = "failed", !.rd = FALSE, !.wr = wr]
  <2>1. \/ Moves(c, s, u, peer[c][s])
        \/ \E wr \in {"idle", b.wr} : Moves(c, s, v(wr), peer[c][s])
    BY <1>0, <1>10, ConnectDoneMoves DEF b
  <2>2. Tied(cl, s, u)
    BY <1>0, <1>1 DEF Bev
  <2>3. \A wr : Tied(cl, s, v(wr))
    BY <1>0, <1>1 DEF Bev
  <2>. HIDE DEF u, v
  <2>. QED
    BY <1>0, <2>1, <2>2, <2>3, MovesLife
<1>. QED
  BY <1>3, <1>4, <1>5, <1>6, <1>7, <1>8, <1>9, <1>10
     DEF NetworkStep, Network

(* The end of a deferred run that outlived its connection.                  *)
LEMMA DecrefLife ==
  ASSUME LifeInv, NEW c \in Conn, NEW s \in Side, DecrefStep(c, s)
  PROVE  LifeInv'
<1>1. Decref(c, s) /\ client' = client
  BY DEF DecrefStep
<1>2. /\ LibEventTypeOK /\ client[c] \in ClientState
      /\ Tied(client[c], s, bev[c][s])
  BY ClientEntries DEF LifeInv
<1>3. /\ bev[c][s].st = "held" /\ proc' = proc
      /\ Moves(c, s, Destroyed, peer[c][s])
  BY <1>1, <1>2, DecrefMoves
<1>4. client[c] \in {"freed", "leaked"}
  BY <1>2, <1>3 DEF Tied, ClientState
<1>5. Tied(client[c], s, Destroyed) /\ NoUseAfterFree'
  BY <1>3, <1>4, DestroyedTied DEF LifeInv, NoUseAfterFree
<1>. QED
  BY <1>1, <1>3, <1>5, MovesLife

(* A callback of the local bufferevent releases the connection: its own     *)
(* bufferevent is destroyed when the run ends, and not before.              *)
LEMMA ReleaseMoves ==
  ASSUME TypeOK, NEW c \in Conn, NEW l \in Bev, NEW r \in Bev, l.pend # {},
         ReleasePair(c, "local", Pair(l, r)), peer' = peer,
         NEW cl \in ClientState, client' = [client EXCEPT ![c] = cl]
  PROVE  /\ proc' = proc
         /\ PairMoves(c, Destroyed, bufferevent_clear_free(r), cl)
<1>. DEFINE fl == bufferevent_clear_free(l)
            fr == bufferevent_clear_free(r)
            left == [t \in Side |-> bufferevent_clear_free(Pair(l, r)[t])]
<1>1. fl.st # "freed" /\ EndRun(fl) = Destroyed /\ Destroyed \in Bev /\ fr \in Bev
  BY ReleasedInRun, ReleasedIs, DestroyedType
<1>2. left = Pair(fl, fr) /\ left["local"] = fl
  BY SideAssumption DEF Pair
<1>3. [left EXCEPT !["local"] = EndRun(@)] = Pair(Destroyed, fr)
  BY <1>1, <1>2, PairRunEnds
<1>4. /\ bev' = [bev EXCEPT ![c] = [left EXCEPT !["local"] = EndRun(@)]]
      /\ proc' = proc
  BY <1>1, <1>2 DEF ReleasePair
<1>. HIDE DEF fl, fr, left
<1>5. bev' = [bev EXCEPT ![c] = Pair(Destroyed, fr)]
  BY <1>3, <1>4
<1>6. proc' \in ProcState
  BY <1>4 DEF TypeOK, LibEventTypeOK
<1>7. PairMoves(c, Destroyed, fr, cl)
  BY <1>1, <1>5, <1>6, PairIntro
<1>. QED
  BY <1>4, <1>7 DEF fr

(* local_readcb always finds its context and its data: what there is is     *)
(* copied, and unless local_eventcb is owed too, the connection goes on.    *)
LEMMA RunLocalMoves ==
  ASSUME LifeInv, NEW c \in Conn, RunLocal(c)
  PROVE  LET copy == encode_copy(password, bev[c]["remote"], bev[c]["local"]) IN
         /\ client[c] = "live" /\ proc' = proc
         /\ \/ PairMoves(c, Destroyed, bufferevent_clear_free(bev[c]["remote"]),
                         "freed")
            \/ /\ bev[c]["local"].input # <<>>
               /\ \/ PairMoves(c, Destroyed, bufferevent_clear_free(copy.dst),
                               "freed")
                  \/ PairMoves(c, [copy.src EXCEPT !.pend = {}], copy.dst,
                               "live")
<1>. DEFINE l == bev[c]["local"]
            r == bev[c]["remote"]
            copy == encode_copy(password, r, l)
            readFails == "read" \in l.pend /\ copy.ret = -1
            after == IF "read" \in l.pend THEN Pair(copy.src, copy.dst) ELSE bev[c]
<1>1. /\ TypeOK /\ l \in Bev /\ r \in Bev /\ proc \in ProcState
      /\ Tied(client[c], "local", l) /\ Tied(client[c], "remote", r)
      /\ client[c] \in ClientState
  BY SideAssumption, ClientEntries DEF LifeInv
<1>2. l.st = "live" /\ l.pend # {} /\ peer' = peer
  BY DEF RunLocal, LiveBev
<1>3. client[c] = "live" /\ r.st = "live"
  BY <1>1, <1>2 DEF Tied, ClientState
<1>4. ContextAlive(c)
  BY <1>2, <1>3, SideAssumption DEF ContextAlive
<1>5. IF readFails \/ "event" \in l.pend THEN
       /\ ReleasePair(c, "local", after)
       /\ client' = [client EXCEPT ![c] =
                       IF readFails THEN "leaked" ELSE "freed"]
     ELSE
       /\ bev' = [bev EXCEPT ![c] = [after EXCEPT !["local"] = EndRun(@)]]
       /\ UNCHANGED <<proc, client>>
  BY <1>4 DEF RunLocal
<1>6. "read" \in l.pend =>
        /\ l.input # <<>> /\ copy.ret = 0 /\ copy.src \in Bev /\ copy.dst \in Bev
        /\ copy.src.pend = l.pend /\ copy.src.st = "live"
  <2>1. "read" \in l.pend => l.input # <<>>
    BY <1>1 DEF Tied
  <2>2. l.input # <<>> => Copied(password, r, l, copy)
    BY <1>1, PasswordAssumption, CopyType
  <2>3. l.input # <<>> =>
          /\ copy.ret = 0 /\ copy.src = [l EXCEPT !.input = <<>>]
          /\ copy.src \in Bev /\ copy.dst \in Bev
    BY <2>2 DEF Copied
  <2>. HIDE DEF copy, l
  <2>4. l.input # <<>> => copy.src.pend = l.pend /\ copy.src.st = "live"
    BY <1>1, <1>2, <2>3 DEF Bev
  <2>. QED
    BY <2>1, <2>3, <2>4
<1>7. ~readFails
  BY <1>6
<1>8. bev[c] = Pair(l, r)
  BY <1>1, SideAssumption DEF Pair, TypeOK, LibEventTypeOK
<1>. HIDE DEF copy, readFails
<1>9. CASE "event" \in l.pend
  <2>1. /\ ReleasePair(c, "local", after)
        /\ client' = [client EXCEPT ![c] = "freed"]
    BY <1>5, <1>7, <1>9
  <2>2. "freed" \in ClientState
    BY DEF ClientState
  <2>3. CASE "read" \in l.pend
    <3>1. ReleasePair(c, "local", Pair(copy.src, copy.dst))
      BY <2>1, <2>3
    <3>2. /\ proc' = proc
          /\ PairMoves(c, Destroyed, bufferevent_clear_free(copy.dst), "freed")
      BY <1>1, <1>2, <1>6, <2>1, <2>2, <2>3, <3>1, ReleaseMoves
    <3>. QED
      BY <1>3, <1>6, <2>3, <3>2 DEF copy
  <2>4. CASE "read" \notin l.pend
    <3>1. ReleasePair(c, "local", Pair(l, r))
      BY <1>8, <2>1, <2>4
    <3>2. /\ proc' = proc
          /\ PairMoves(c, Destroyed, bufferevent_clear_free(r), "freed")
      BY <1>1, <1>2, <2>1, <2>2, <3>1, ReleaseMoves
    <3>. QED
      BY <1>3, <3>2
  <2>. QED
    BY <2>3, <2>4
<1>10. CASE "event" \notin l.pend
  <2>1. "read" \in l.pend
    BY <1>1, <1>2, <1>10 DEF Bev
  <2>2. /\ bev' = [bev EXCEPT ![c] = [Pair(copy.src, copy.dst) EXCEPT
                                        !["local"] = EndRun(@)]]
        /\ client' = client /\ proc' = proc
    BY <1>5, <1>7, <1>10, <2>1
  <2>. DEFINE u == [copy.src EXCEPT !.pend = {}]
  <2>3. u \in Bev /\ EndRun(copy.src) = u
    BY <1>6, <2>1 DEF Bev, EndRun
  <2>. HIDE DEF u
  <2>6. [Pair(copy.src, copy.dst) EXCEPT !["local"] = EndRun(@)]
          = Pair(u, copy.dst)
    BY <2>3, PairRunEnds
  <2>4. bev' = [bev EXCEPT ![c] = Pair(u, copy.dst)]
    BY <2>2, <2>6
  <2>5. PairMoves(c, u, copy.dst, "live")
    BY <1>1, <1>2, <1>3, <1>6, <2>1, <2>2, <2>3, <2>4, PairIntro
  <2>. QED
    BY <1>3, <1>6, <2>1, <2>2, <2>5 DEF u, copy
<1>. QED
  BY <1>9, <1>10

LEMMA RunRemoteMoves ==
  ASSUME LifeInv, NEW c \in Conn, RunRemote(c)
  PROVE  LET copy == encode_copy(DecodeTable(password), bev[c]["local"],
                                 bev[c]["remote"]) IN
         /\ client[c] = "live" /\ proc' = proc
         /\ bev[c]["remote"].input # <<>>
         /\ PairMoves(c, copy.dst, [copy.src EXCEPT !.pend = {}], "live")
<1>. DEFINE l == bev[c]["local"]
            r == bev[c]["remote"]
            copy == encode_copy(DecodeTable(password), l, r)
<1>1. /\ TypeOK /\ l \in Bev /\ r \in Bev /\ proc \in ProcState
      /\ Tied(client[c], "local", l) /\ Tied(client[c], "remote", r)
      /\ client[c] \in ClientState
  BY SideAssumption, ClientEntries DEF LifeInv
<1>2. r.st = "live" /\ r.pend # {} /\ peer' = peer
  BY DEF RunRemote, LiveBev
<1>3. client[c] = "live" /\ l.st = "live"
  BY <1>1, <1>2 DEF Tied, ClientState
<1>4. ContextAlive(c)
  BY <1>2, <1>3, SideAssumption DEF ContextAlive
<1>5. IF copy.ret = -1 THEN
       /\ ReleasePair(c, "remote", bev[c])
       /\ client' = [client EXCEPT ![c] = "leaked"]
     ELSE
       /\ bev' = [bev EXCEPT ![c] = Pair(copy.dst, EndRun(copy.src))]
       /\ UNCHANGED <<proc, client>>
  BY <1>4 DEF RunRemote, decode_copy
<1>6. r.input # <<>>
  BY <1>1, <1>2, <1>3 DEF Tied, Callbacks, remote_cbs
<1>7. /\ copy.ret = 0 /\ copy.src \in Bev /\ copy.dst \in Bev
      /\ copy.src.st = "live"
  <2>1. DecodeTable(password) \in Table
    BY PasswordAssumption, DecodeTableType
  <2>2. Copied(DecodeTable(password), l, r, copy)
    BY <1>1, <1>6, <2>1, CopyType
  <2>3. /\ copy.ret = 0 /\ copy.src = [r EXCEPT !.input = <<>>]
        /\ copy.src \in Bev /\ copy.dst \in Bev
    BY <2>2 DEF Copied
  <2>. HIDE DEF copy, r
  <2>. QED
    BY <1>1, <1>2, <2>3 DEF Bev
<1>. HIDE DEF copy
<1>8. /\ bev' = [bev EXCEPT ![c] = Pair(copy.dst, EndRun(copy.src))]
      /\ client' = client /\ proc' = proc
  BY <1>5, <1>7
<1>. DEFINE u == [copy.src EXCEPT !.pend = {}]
<1>9. u \in Bev /\ EndRun(copy.src) = u
  BY <1>7 DEF Bev, EndRun
<1>. HIDE DEF u
<1>10. bev' = [bev EXCEPT ![c] = Pair(copy.dst, u)]
  BY <1>8, <1>9
<1>11. PairMoves(c, copy.dst, u, "live")
  BY <1>1, <1>2, <1>3, <1>7, <1>8, <1>9, <1>10, PairIntro
<1>. QED
  BY <1>3, <1>6, <1>8, <1>11 DEF u, copy

LEMMA AcceptMoves ==
  ASSUME LifeInv, NEW c \in Conn, Accept(c)
  PROVE  /\ client[c] = "none" /\ proc' = proc
         /\ PairMoves(c, NewBev("open", local_cbs),
                      NewBev("connecting", remote_cbs), "live")
<1>1. TypeOK /\ proc \in ProcState /\ "live" \in ClientState
  BY SideAssumption DEF LifeInv, TypeOK, LibEventTypeOK, ClientState
<1>. DEFINE l == NewBev("open", local_cbs)
            r == NewBev("connecting", remote_cbs)
<1>2. local_cbs \in SUBSET {"read", "event"} /\ remote_cbs \in SUBSET {"read", "event"}
  BY DEF local_cbs, remote_cbs
<1>3. l \in Bev /\ r \in Bev
  BY <1>2, NewBevType
<1>. HIDE DEF l, r
<1>4. bev' = [bev EXCEPT ![c] = Pair(l, r)] /\ client' = [client EXCEPT ![c] = "live"]
      /\ proc' = proc /\ peer' = peer /\ client[c] = "none"
  BY DEF Accept, l, r
<1>5. PairMoves(c, l, r, "live")
  BY <1>1, <1>3, <1>4, PairIntro
<1>. QED
  BY <1>4, <1>5 DEF l, r

LEMMA AcceptDialFailsMoves ==
  ASSUME LifeInv, NEW c \in Conn, AcceptDialFails(c)
  PROVE  /\ client[c] = "none" /\ proc' = proc
         /\ PairMoves(c, Destroyed, Destroyed, "leaked")
<1>1. TypeOK /\ proc \in ProcState /\ "leaked" \in ClientState
  BY DEF LifeInv, TypeOK, LibEventTypeOK, ClientState
<1>2. bufferevent_clear_free(NoBev) = Destroyed /\ Destroyed \in Bev
  BY DestroyedType DEF bufferevent_clear_free, Released, NoBev
<1>3. /\ bev' = [bev EXCEPT ![c] = Pair(Destroyed, Destroyed)]
      /\ client' = [client EXCEPT ![c] = "leaked"]
      /\ proc' = proc /\ peer' = peer /\ client[c] = "none"
  BY <1>2 DEF AcceptDialFails
<1>4. PairMoves(c, Destroyed, Destroyed, "leaked")
  BY <1>1, <1>2, <1>3, PairIntro
<1>. QED
  BY <1>3, <1>4

LEMMA CopiedTied ==
  ASSUME NEW x \in Table, NEW dst \in Bev, NEW src \in Bev,
         NEW s \in Side, NEW t \in Side, src.input # <<>>,
         Tied("live", s, src), Tied("live", t, dst)
  PROVE  LET copy == encode_copy(x, dst, src) IN
         /\ Tied("live", s, [copy.src EXCEPT !.pend = {}])
         /\ Tied("live", t, copy.dst)
<1>. DEFINE copy == encode_copy(x, dst, src)
            e == encode_data(src.input, x)
<1>0. Copied(x, dst, src, copy)
  BY CopyType
<1>1. copy.src = [src EXCEPT !.input = <<>>]
  BY <1>0 DEF Copied
<1>2. PICK wr : copy.dst = [dst EXCEPT !.output = dst.output \o e, !.wr = wr]
  BY <1>0 DEF Copied
<1>. HIDE DEF copy, e
<1>. DEFINE out == dst.output \o e
<1>3. copy.dst = [dst EXCEPT !.output = out, !.wr = wr]
  BY <1>2
<1>. HIDE DEF out
<1>4. Tied("live", t, copy.dst)
  BY <1>3 DEF Tied, Bev
<1>5. Tied("live", s, [copy.src EXCEPT !.pend = {}])
  BY <1>1 DEF Tied, Bev
<1>. QED
  BY <1>4, <1>5 DEF copy

LEMMA LifeInit == Init => LifeInv
<1>. SUFFICES ASSUME Init PROVE LifeInv
  OBVIOUS
<1>1. NoBev \in Bev /\ NewPeer \in Peer
  BY NewBevType
<1>2. TypeOK
  BY <1>1 DEF Init, LibEventInit, TypeOK, LibEventTypeOK, ProcState, ClientState
<1>3. \A c \in Conn, s \in Side :
        client[c] = "none" /\ bev[c][s] = NoBev /\ proc = "running"
  BY DEF Init, LibEventInit
<1>4. \A c \in Conn, s \in Side : Tied(client[c], s, bev[c][s])
  <2>1. \A s \in Side : Tied("none", s, NoBev)
    BY DEF Tied, NoBev
  <2>. QED
    BY <1>3, <2>1
<1>5. NoUseAfterFree
  BY DEF Init, LibEventInit, NoUseAfterFree
<1>. QED
  BY <1>2, <1>4, <1>5 DEF LifeInv

(* The steps that touch no connection.                                      *)
LEMMA QuietLife ==
  ASSUME LifeInv, bev' = bev, peer' = peer, client' = client,
         proc' \in ProcState, NoUseAfterFree'
  PROVE  LifeInv'
<1>1. TypeOK'
  BY DEF LifeInv, TypeOK, LibEventTypeOK
<1>. QED
  BY <1>1 DEF LifeInv

LEMMA LifeStep == LifeInv /\ [Next]_vars => LifeInv'
<1>. SUFFICES ASSUME LifeInv, [Next]_vars PROVE LifeInv'
  OBVIOUS
<1>0. /\ TypeOK /\ proc \in ProcState /\ proc # "undefined"
      /\ \A c \in Conn :
           /\ bev[c]["local"] \in Bev /\ bev[c]["remote"] \in Bev
           /\ Tied(client[c], "local", bev[c]["local"])
           /\ Tied(client[c], "remote", bev[c]["remote"])
  BY SideAssumption, ClientEntries
     DEF LifeInv, NoUseAfterFree, TypeOK, LibEventTypeOK
<1>1. ASSUME NEW c \in Conn, Accept(c) PROVE LifeInv'
  <2>. DEFINE l == NewBev("open", local_cbs)
              r == NewBev("connecting", remote_cbs)
  <2>1. PairMoves(c, l, r, "live") /\ proc' = proc
    BY <1>1, AcceptMoves
  <2>2. Tied("live", "local", l) /\ Tied("live", "remote", r)
    BY DEF Tied, NewBev, NoBev, Callbacks
  <2>. HIDE DEF l, r
  <2>. QED
    BY <1>0, <2>1, <2>2, PairLife DEF NoUseAfterFree
<1>2. ASSUME NEW c \in Conn, AcceptDialFails(c) PROVE LifeInv'
  <2>1. PairMoves(c, Destroyed, Destroyed, "leaked") /\ proc' = proc
    BY <1>2, AcceptDialFailsMoves
  <2>2. Tied("leaked", "local", Destroyed) /\ Tied("leaked", "remote", Destroyed)
    BY DestroyedTied, SideAssumption
  <2>. QED
    BY <1>0, <2>1, <2>2, PairLife DEF NoUseAfterFree
<1>3. ASSUME NEW c \in Conn, AcceptSetupFails(c) PROVE LifeInv'
  BY <1>3, QuietLife DEF AcceptSetupFails, ProcState, NoUseAfterFree
<1>4. ASSUME NEW c \in Conn, RunLocal(c) PROVE LifeInv'
  <2>. DEFINE l == bev[c]["local"]
              r == bev[c]["remote"]
              copy == encode_copy(password, r, l)
              u == [copy.src EXCEPT !.pend = {}]
  <2>1. client[c] = "live" /\ proc' = proc
    BY <1>4, RunLocalMoves
  <2>2. /\ Tied("freed", "local", Destroyed)
        /\ Tied("live", "remote", r)
    BY <1>0, <2>1, DestroyedTied, SideAssumption
  <2>3. CASE PairMoves(c, Destroyed, bufferevent_clear_free(r), "freed")
    <3>1. Tied("freed", "remote", bufferevent_clear_free(r))
      BY <1>0, <2>2, ReleasedTied
    <3>. QED
      BY <1>0, <2>1, <2>2, <2>3, <3>1, PairLife DEF NoUseAfterFree
  <2>4. CASE l.input # <<>>
             /\ \/ PairMoves(c, Destroyed, bufferevent_clear_free(copy.dst), "freed")
                \/ PairMoves(c, u, copy.dst, "live")
    <3>1. Tied("live", "local", u) /\ Tied("live", "remote", copy.dst)
      BY <1>0, <2>1, <2>4, CopiedTied, SideAssumption, PasswordAssumption
    <3>2. copy.dst \in Bev
      BY <1>0, <2>4, CopyType, PasswordAssumption DEF Copied
    <3>3. Tied("freed", "remote", bufferevent_clear_free(copy.dst))
      BY <3>1, <3>2, ReleasedTied
    <3>. HIDE DEF u, copy
    <3>. QED
      BY <1>0, <2>1, <2>2, <2>4, <3>1, <3>3, PairLife DEF NoUseAfterFree
  <2>. QED
    BY <1>4, <2>3, <2>4, RunLocalMoves
<1>5. ASSUME NEW c \in Conn, RunRemote(c) PROVE LifeInv'
  <2>. DEFINE l == bev[c]["local"]
              r == bev[c]["remote"]
              copy == encode_copy(DecodeTable(password), l, r)
              u == [copy.src EXCEPT !.pend = {}]
  <2>1. /\ client[c] = "live" /\ proc' = proc /\ r.input # <<>>
        /\ PairMoves(c, copy.dst, u, "live")
    BY <1>5, RunRemoteMoves
  <2>2. DecodeTable(password) \in Table
    BY PasswordAssumption, DecodeTableType
  <2>3. Tied("live", "remote", u) /\ Tied("live", "local", copy.dst)
    BY <1>0, <2>1, <2>2, CopiedTied, SideAssumption
  <2>. HIDE DEF u, copy
  <2>. QED
    BY <1>0, <2>1, <2>3, PairLife DEF NoUseAfterFree
<1>6. ASSUME NEW c \in Conn, NEW s \in Side, NetworkStep(c, s) PROVE LifeInv'
  BY <1>6, NetworkLife
<1>9. ASSUME NEW c \in Conn, NEW s \in Side, DecrefStep(c, s) PROVE LifeInv'
  BY <1>9, DecrefLife
<1>7. CASE listener_errorcb \/ signal_cb \/ LoopExit
  BY <1>7, QuietLife
     DEF listener_errorcb, AcceptError, signal_cb, SigInt, LoopExit, LoopTimer,
         ProcState, NoUseAfterFree
<1>8. CASE UNCHANGED vars
  BY <1>0, <1>8, QuietLife DEF vars, NoUseAfterFree
<1>. QED
  BY <1>1, <1>2, <1>3, <1>4, <1>5, <1>6, <1>7, <1>8, <1>9 DEF Next

LEMMA LifeHolds == Spec => []LifeInv
BY LifeInit, LifeStep, PTL DEF Spec

(* The program never leaves its types.                                      *)
THEOREM ClientTypeOK == Spec => []TypeOK
<1>1. LifeInv => TypeOK
  BY DEF LifeInv
<1>. QED
  BY LifeHolds, <1>1, PTL

(* The two bufferevents of a connection are freed together, whichever side  *)
(* ends first and also when dialling fails, and no callback stays set on a  *)
(* bufferevent whose Client is gone (client.c:42-46, 56-60, 63-72,          *)
(* 116-128).  The memory of the Client of a failed dial is not freed        *)
(* (client.c:94, 124-127), and nothing is said of it.                       *)
THEOREM ClientLifecycle == Spec => []Lifecycle
<1>1. LifeInv => Lifecycle
  <2>. SUFFICES ASSUME LifeInv, NEW c \in Conn, NEW s \in Side
                PROVE  LET b == bev[c][s] IN
                       /\ client[c] \in {"none", "live"} => b.st = client[c]
                       /\ client[c] \in {"freed", "leaked"} =>
                            b.st = "freed" \/ (b.st = "held" /\ b.pend # {})
                       /\ b.cbs # {} => client[c] = "live"
    BY DEF Lifecycle
  <2>1. Tied(client[c], s, bev[c][s]) /\ client[c] \in ClientState
    BY ClientEntries DEF LifeInv
  <2>. QED
    BY <2>1 DEF Tied, ClientState
<1>. QED
  BY LifeHolds, <1>1, PTL

(* No callback dereferences a freed Client or uses a bufferevent that has   *)
(* been destroyed, its own included, which local_eventcb still asks for its *)
(* descriptor after freeing it (client.c:34-75): the deferred run that      *)
(* called it holds it.                                                      *)
THEOREM ClientNoUseAfterFree == Spec => []NoUseAfterFree
<1>1. LifeInv => NoUseAfterFree
  BY DEF LifeInv
<1>. QED
  BY LifeHolds, <1>1, PTL

(* A read callback is owed exactly while there is something to copy, so the *)
(* "close all" paths of the copy routines are never taken.                  *)
THEOREM ClientReadOwed == Spec => []ReadOwedIffInput
<1>1. LifeInv => ReadOwedIffInput
  BY DEF LifeInv, Tied, ReadOwedIffInput
<1>. QED
  BY LifeHolds, <1>1, PTL

(* What a step does to the life of one connection.                          *)
LEMMA LifeOfClient ==
  ASSUME LifeInv, [Next]_vars, NEW c \in Conn, client[c] = "live"
  PROVE  client'[c] \in {"live", "freed"}
<1>0. client \in [Conn -> ClientState]
  BY DEF LifeInv, TypeOK
<1>1. ASSUME NEW d \in Conn, Accept(d) PROVE client'[c] \in {"live", "freed"}
  BY <1>0, <1>1 DEF Accept
<1>2. ASSUME NEW d \in Conn, AcceptDialFails(d)
      PROVE  client'[c] \in {"live", "freed"}
  BY <1>0, <1>2 DEF AcceptDialFails
<1>3. ASSUME NEW d \in Conn, AcceptSetupFails(d)
      PROVE  client'[c] \in {"live", "freed"}
  BY <1>3 DEF AcceptSetupFails
<1>4. ASSUME NEW d \in Conn, RunLocal(d) PROVE client'[c] \in {"live", "freed"}
  <2>1. client'[d] \in {"live", "freed"} /\ (c # d => client'[c] = client[c])
    BY <1>4, RunLocalMoves DEF PairMoves
  <2>. QED
    BY <2>1
<1>5. ASSUME NEW d \in Conn, RunRemote(d) PROVE client'[c] \in {"live", "freed"}
  <2>1. client'[d] = "live" /\ (c # d => client'[c] = client[c])
    BY <1>5, RunRemoteMoves DEF PairMoves
  <2>. QED
    BY <2>1
<1>6. ASSUME NEW d \in Conn, NEW s \in Side, NetworkStep(d, s)
      PROVE  client'[c] \in {"live", "freed"}
  BY <1>6 DEF NetworkStep
<1>8. ASSUME NEW d \in Conn, NEW s \in Side, DecrefStep(d, s)
      PROVE  client'[c] \in {"live", "freed"}
  BY <1>8 DEF DecrefStep
<1>7. CASE listener_errorcb \/ signal_cb \/ LoopExit \/ UNCHANGED vars
  BY <1>7 DEF listener_errorcb, signal_cb, LoopExit, vars
<1>. QED
  BY <1>1, <1>2, <1>3, <1>4, <1>5, <1>6, <1>7, <1>8 DEF Next

(* Only local_eventcb ends a Client that has been set up, and it frees it   *)
(* (client.c:44-46, 58-60, 63-72).                                          *)
THEOREM ClientIsFreed == Spec => SetUpClientIsFreed
<1>1. LifeInv /\ [Next]_vars =>
        [\A c \in Conn : client[c] = "live" => client'[c] \in {"live", "freed"}]_vars
  BY LifeOfClient
<1>. QED
  BY LifeHolds, <1>1, PTL DEF Spec, SetUpClientIsFreed
-----------------------------------------------------------------------------
(* Output waits for a write event that is pending, or for nothing because   *)
(* its socket has failed.  Writing is off only where an error has been      *)
(* reported.                                                                *)
Flushing(b) ==
  /\ b.wr = "armed" => b.output # <<>>
  /\ b.output # <<>> /\ b.wr # "armed" => b.sock \in {"broken", "failed"}
  /\ b.st \in {"live", "held"} /\ b.wr = "off" => b.sock = "broken"

FlushInv ==
  /\ LifeInv
  /\ \A c \in Conn, s \in Side : Flushing(bev[c][s])

LEMMA MovesFlush ==
  ASSUME FlushInv, NEW c \in Conn, NEW s \in Side, NEW nb, NEW np,
         Moves(c, s, nb, np), Flushing(nb), LifeInv'
  PROVE  FlushInv'
<1>1. \A d \in Conn, t \in Side : Flushing(bev'[d][t])
  BY DEF FlushInv, Moves
<1>. QED
  BY <1>1 DEF FlushInv, Flushing

LEMMA PairFlush ==
  ASSUME FlushInv, NEW c \in Conn, NEW l, NEW r, NEW cl,
         PairMoves(c, l, r, cl), Flushing(l), Flushing(r), LifeInv'
  PROVE  FlushInv'
<1>1. \A d \in Conn, t \in Side : Flushing(bev'[d][t])
  BY SideAssumption DEF FlushInv, PairMoves
<1>. QED
  BY <1>1 DEF FlushInv, Flushing

LEMMA NetworkFlush ==
  ASSUME FlushInv, LifeInv', NEW c \in Conn, NEW s \in Side, NetworkStep(c, s)
  PROVE  FlushInv'
<1>. DEFINE b == bev[c][s]
            p == peer[c][s]
<1>0. LibEventTypeOK /\ b \in Bev /\ Flushing(b) /\ Network(c, s)
  BY ClientEntries DEF FlushInv, LifeInv, NetworkStep
<1>. HIDE DEF b, p
<1>1. CASE PeerSend(c, s)
  <2>1. PICK np : Moves(c, s, b, np)
    BY <1>0, <1>1, PeerSendMoves DEF b
  <2>. QED
    BY <1>0, <2>1, MovesFlush
<1>2. CASE PeerFinish(c, s)
  <2>1. PICK np : Moves(c, s, b, np)
    BY <1>0, <1>2, PeerFinishMoves DEF b
  <2>. QED
    BY <1>0, <2>1, MovesFlush
<1>3. CASE PeerReset(c, s)
  <2>. DEFINE u == [b EXCEPT !.sock = "broken"]
  <2>1. PICK np : Moves(c, s, u, np)
    BY <1>0, <1>3, PeerResetMoves DEF b
  <2>2. Flushing(u)
    BY <1>0 DEF Flushing, Bev
  <2>. HIDE DEF u
  <2>. QED
    BY <2>1, <2>2, MovesFlush
<1>4. CASE SockRead(c, s)
  <2>. DEFINE u(k) == [b EXCEPT !.input = @ \o SubSeq(p.wire, 1, k),
                                !.pend = Owe(b, "read")]
  <2>1. PICK k : Moves(c, s, u(k), [p EXCEPT !.wire = Drop(@, k)])
    BY <1>0, <1>4, SockReadMoves DEF b, p
  <2>. DEFINE input == b.input \o SubSeq(p.wire, 1, k)
              owed == Owe(b, "read")
              v == [b EXCEPT !.input = input, !.pend = owed]
  <2>2. v = u(k)
    OBVIOUS
  <2>. HIDE DEF input, owed, u
  <2>3. Flushing(v)
    BY <1>0 DEF Flushing, Bev
  <2>. HIDE DEF v
  <2>. QED
    BY <2>1, <2>2, <2>3, MovesFlush, SMTT(30)
<1>5. CASE SockEof(c, s)
  <2>. DEFINE owed == Owe(b, "event")
              u == [b EXCEPT !.rd = FALSE, !.pend = owed]
  <2>1. Moves(c, s, u, p)
    BY <1>0, <1>5, SockEofMoves DEF b, p
  <2>. HIDE DEF owed
  <2>2. Flushing(u)
    BY <1>0 DEF Flushing, Bev
  <2>. HIDE DEF u
  <2>. QED
    BY <2>1, <2>2, MovesFlush
<1>6. CASE SockWrite(c, s)
  <2>1. PICK k \in 1 .. Len(b.output), wr \in {"idle", "armed"},
             sock \in {"open", "broken"}, got \in Seq(Byte) :
          /\ wr = "armed" <=> Drop(b.output, k) # <<>>
          /\ Moves(c, s, [b EXCEPT !.output = Drop(@, k), !.wr = wr,
                                   !.sock = sock],
                   [p EXCEPT !.got = got])
    BY <1>0, <1>6, SockWriteMoves, Zenon DEF b, p
  <2>. DEFINE rest == Drop(b.output, k)
              u == [b EXCEPT !.output = rest, !.wr = wr, !.sock = sock]
              np == [p EXCEPT !.got = got]
  <2>2. Moves(c, s, u, np) /\ (wr = "armed" <=> rest # <<>>)
    BY <2>1
  <2>. HIDE DEF rest
  <2>3. Flushing(u)
    BY <1>0, <2>1, <2>2 DEF Flushing, Bev
  <2>. HIDE DEF u, np
  <2>. QED
    BY <2>2, <2>3, MovesFlush
<1>7. CASE SockWriteFail(c, s)
  <2>. DEFINE owed == Owe(b, "event")
              u == [b EXCEPT !.wr = "off", !.pend = owed]
  <2>1. Moves(c, s, b, p) \/ (b.sock = "broken" /\ Moves(c, s, u, p))
    BY <1>0, <1>7, SockWriteFailMoves DEF b, p
  <2>. HIDE DEF owed
  <2>2. b.sock = "broken" => Flushing(u)
    BY <1>0 DEF Flushing, Bev
  <2>. HIDE DEF u
  <2>. QED
    BY <1>0, <2>1, <2>2, MovesFlush
<1>8. CASE ConnectDone(c, s)
  <2>. DEFINE u == [b EXCEPT !.sock = "open"]
              v(wr) == [b EXCEPT !.sock = "failed", !.rd = FALSE, !.wr = wr]
  <2>1. /\ b.sock = "connecting" /\ b.st \in {"live", "held"}
        /\ \/ Moves(c, s, u, p)
           \/ \E wr \in {"idle", b.wr} : Moves(c, s, v(wr), p)
    BY <1>0, <1>8, ConnectDoneMoves, NetworkProc DEF b, p
  <2>2. Flushing(u)
    BY <1>0, <2>1 DEF Flushing, Bev
  <2>3. \A wr \in {"idle", b.wr} : Flushing(v(wr))
    BY <1>0, <2>1 DEF Flushing, Bev
  <2>. HIDE DEF u, v
  <2>. QED
    BY <2>1, <2>2, <2>3, MovesFlush, SMTT(30)
<1>. QED
  BY <1>0, <1>1, <1>2, <1>3, <1>4, <1>5, <1>6, <1>7, <1>8 DEF Network

LEMMA CopiedLive ==
  ASSUME NEW x \in Table, NEW dst \in Bev, NEW src \in Bev, src.input # <<>>,
         dst.st = "live"
  PROVE  LET copy == encode_copy(x, dst, src) IN
         copy.dst \in Bev /\ copy.dst.st = "live"
<1>. DEFINE copy == encode_copy(x, dst, src)
            out == dst.output \o encode_data(src.input, x)
<1>1. Copied(x, dst, src, copy)
  BY CopyType
<1>. HIDE DEF copy
<1>2. copy.dst \in Bev /\ \E wr : copy.dst = [dst EXCEPT !.output = out, !.wr = wr]
  BY <1>1 DEF Copied
<1>. HIDE DEF out
<1>3. copy.dst.st = "live"
  BY <1>2 DEF Bev
<1>. QED
  BY <1>2, <1>3 DEF copy

(* bufferevent_write arms an idle ev_write, and it always has data.         *)
LEMMA CopiedFlush ==
  ASSUME NEW x \in Table, NEW dst \in Bev, NEW src \in Bev, src.input # <<>>,
         dst.st = "live", Flushing(src), Flushing(dst)
  PROVE  LET copy == encode_copy(x, dst, src) IN
         Flushing([copy.src EXCEPT !.pend = {}]) /\ Flushing(copy.dst)
<1>. DEFINE copy == encode_copy(x, dst, src)
            out == dst.output \o encode_data(src.input, x)
<1>1. Copied(x, dst, src, copy)
  BY CopyType
<1>. HIDE DEF copy
<1>2. out # <<>>
  BY Fields, EncodeSeq, EncodeNotEmpty, JoinedNotEmpty DEF Bev
<1>3. PICK wr \in {"off", "idle", "armed"} :
        /\ wr = IF dst.wr = "idle" THEN "armed" ELSE dst.wr
        /\ copy.dst = [dst EXCEPT !.output = out, !.wr = wr]
  BY <1>1 DEF Copied
<1>4. copy.src = [src EXCEPT !.input = <<>>]
  BY <1>1 DEF Copied
<1>. HIDE DEF out
<1>5. Flushing(copy.dst)
  BY <1>2, <1>3 DEF Flushing, Bev
<1>6. Flushing([copy.src EXCEPT !.pend = {}])
  BY <1>4 DEF Flushing, Bev
<1>. QED
  BY <1>5, <1>6 DEF copy

LEMMA DestroyedFlush == Flushing(Destroyed)
BY DEF Flushing, Destroyed, NoBev

LEMMA ReleasedFlush ==
  ASSUME NEW b \in Bev, b.st = "live", Flushing(b)
  PROVE  Flushing(bufferevent_clear_free(b))
<1>1. \A fb : (/\ fb.st = "held" /\ fb.wr = b.wr
               /\ fb.output = b.output /\ fb.sock = b.sock)
             => Flushing(fb)
  BY DEF Flushing
<1>. QED
  BY <1>1, ReleasedIs, DestroyedFlush

LEMMA FlushInit == Init => FlushInv
<1>1. Flushing(NoBev)
  BY DEF Flushing, NoBev
<1>2. Init => \A c \in Conn, s \in Side : Flushing(bev[c][s])
  BY <1>1 DEF Init, LibEventInit
<1>. QED
  BY <1>2, LifeInit DEF FlushInv

LEMMA FlushStep == FlushInv /\ [Next]_vars => FlushInv'
<1>. SUFFICES ASSUME FlushInv, [Next]_vars PROVE FlushInv'
  OBVIOUS
<1>0. /\ LifeInv /\ LifeInv'
      /\ \A c \in Conn :
           /\ bev[c]["local"] \in Bev /\ bev[c]["remote"] \in Bev
           /\ Tied(client[c], "local", bev[c]["local"])
           /\ Tied(client[c], "remote", bev[c]["remote"])
           /\ Flushing(bev[c]["local"]) /\ Flushing(bev[c]["remote"])
  BY LifeStep, SideAssumption, ClientEntries DEF FlushInv, LifeInv
<1>1. ASSUME NEW c \in Conn, Accept(c) PROVE FlushInv'
  <2>. DEFINE l == NewBev("open", local_cbs)
              r == NewBev("connecting", remote_cbs)
  <2>1. PairMoves(c, l, r, "live")
    BY <1>0, <1>1, AcceptMoves
  <2>2. Flushing(l) /\ Flushing(r)
    BY DEF Flushing, NewBev, NoBev
  <2>. HIDE DEF l, r
  <2>. QED
    BY <1>0, <2>1, <2>2, PairFlush
<1>2. ASSUME NEW c \in Conn, AcceptDialFails(c) PROVE FlushInv'
  BY <1>0, <1>2, AcceptDialFailsMoves, DestroyedFlush, PairFlush
<1>3. ASSUME NEW c \in Conn, RunLocal(c) PROVE FlushInv'
  <2>. DEFINE l == bev[c]["local"]
              r == bev[c]["remote"]
              copy == encode_copy(password, r, l)
              u == [copy.src EXCEPT !.pend = {}]
  <2>1. client[c] = "live" /\ r.st = "live"
    BY <1>0, <1>3, RunLocalMoves DEF Tied
  <2>2. CASE PairMoves(c, Destroyed, bufferevent_clear_free(r), "freed")
    BY <1>0, <2>1, <2>2, DestroyedFlush, ReleasedFlush, PairFlush
  <2>3. CASE l.input # <<>>
             /\ \/ PairMoves(c, Destroyed, bufferevent_clear_free(copy.dst), "freed")
                \/ PairMoves(c, u, copy.dst, "live")
    <3>1. Flushing(u) /\ Flushing(copy.dst)
      BY <1>0, <2>1, <2>3, CopiedFlush, PasswordAssumption
    <3>2. copy.dst \in Bev /\ copy.dst.st = "live"
      BY <1>0, <2>1, <2>3, CopiedLive, PasswordAssumption
    <3>3. Flushing(bufferevent_clear_free(copy.dst))
      BY <3>1, <3>2, ReleasedFlush
    <3>. HIDE DEF u, copy
    <3>. QED
      BY <1>0, <2>3, <3>1, <3>3, DestroyedFlush, PairFlush
  <2>. QED
    BY <1>0, <1>3, <2>2, <2>3, RunLocalMoves
<1>4. ASSUME NEW c \in Conn, RunRemote(c) PROVE FlushInv'
  <2>. DEFINE l == bev[c]["local"]
              r == bev[c]["remote"]
              copy == encode_copy(DecodeTable(password), l, r)
              u == [copy.src EXCEPT !.pend = {}]
  <2>1. /\ client[c] = "live" /\ r.input # <<>>
        /\ PairMoves(c, copy.dst, u, "live")
    BY <1>0, <1>4, RunRemoteMoves
  <2>2. l.st = "live" /\ DecodeTable(password) \in Table
    BY <1>0, <2>1, PasswordAssumption, DecodeTableType DEF Tied
  <2>3. Flushing(u) /\ Flushing(copy.dst)
    BY <1>0, <2>1, <2>2, CopiedFlush
  <2>. HIDE DEF u, copy
  <2>. QED
    BY <1>0, <2>1, <2>3, PairFlush
<1>5. ASSUME NEW c \in Conn, NEW s \in Side, NetworkStep(c, s) PROVE FlushInv'
  BY <1>0, <1>5, NetworkFlush
<1>9. ASSUME NEW c \in Conn, NEW s \in Side, DecrefStep(c, s) PROVE FlushInv'
  BY <1>0, <1>9, DecrefMoves, ClientEntries, DestroyedFlush, MovesFlush
     DEF DecrefStep, LifeInv
<1>6. CASE bev' = bev
  BY <1>0, <1>6 DEF FlushInv, Flushing
<1>7. ASSUME NEW c \in Conn, AcceptSetupFails(c) PROVE bev' = bev
  BY <1>7 DEF AcceptSetupFails
<1>8. CASE listener_errorcb \/ signal_cb \/ LoopExit \/ UNCHANGED vars
  BY <1>6, <1>8
     DEF listener_errorcb, AcceptError, signal_cb, SigInt, LoopExit, LoopTimer,
         vars
<1>. QED
  BY <1>1, <1>2, <1>3, <1>4, <1>5, <1>6, <1>7, <1>8, <1>9 DEF Next

(* Output never waits for a write event that nobody will deliver, unless    *)
(* the socket has failed (client.c:119-125, securesocket.c:55, 85).         *)
THEOREM ClientNoStalledOutput == Spec => []NoStalledOutput
<1>1. FlushInv => NoStalledOutput
  BY DEF FlushInv, Flushing, NoStalledOutput
<1>2. Spec => []FlushInv
  BY FlushInit, FlushStep, PTL DEF Spec
<1>. QED
  BY <1>1, <1>2, PTL
-----------------------------------------------------------------------------
(* The two byte streams of a connection.                                    *)
Tab(s) == IF s = "local" THEN password ELSE DecodeTable(password)

LEMMA TabType ==
  ASSUME NEW s \in Side
  PROVE  Tab(s) \in Table
BY PasswordAssumption, DecodeTableType DEF Tab

LEMMA CodedIs ==
  ASSUME NEW s, NEW bytes
  PROVE  Coded(s, bytes) = encode_data(bytes, Tab(s))
BY DEF Coded, Tab, decode_data

InOrder(c, s) ==
  /\ Ordered(Tab(s), client[c], bev[c][s], peer[c][s],
             bev[c][Other(s)], peer[c][Other(s)])
  /\ Heads(Tab(s), peer[c][s], bev[c][Other(s)], peer[c][Other(s)])

StreamInv ==
  /\ LifeInv
  /\ \A c \in Conn, s \in Side :
       /\ client[c] = "none" => peer[c][s] = NewPeer
       /\ InOrder(c, s)
-----------------------------------------------------------------------------
(* A step at side s of connection c: what s says and what s hears are all   *)
(* that must be looked at.                                                  *)
LEMMA MovesStream ==
  ASSUME StreamInv, LifeInv', NEW c \in Conn, NEW s \in Side, NEW nb, NEW np,
         client[c] # "none", Moves(c, s, nb, np), client' = client,
         Ordered(Tab(s), client[c], nb, np, bev[c][Other(s)], peer[c][Other(s)]),
         Heads(Tab(s), np, bev[c][Other(s)], peer[c][Other(s)]),
         Ordered(Tab(Other(s)), client[c], bev[c][Other(s)], peer[c][Other(s)],
                 nb, np),
         Heads(Tab(Other(s)), peer[c][Other(s)], nb, np)
  PROVE  StreamInv'
<1>1. /\ Other(s) \in Side /\ Other(s) # s /\ Other(Other(s)) = s
      /\ \A t \in Side : t = s \/ t = Other(s)
  BY SideAssumption DEF Other
<1>2. /\ bev'[c][s] = nb /\ peer'[c][s] = np
      /\ bev'[c][Other(s)] = bev[c][Other(s)]
      /\ peer'[c][Other(s)] = peer[c][Other(s)]
      /\ client' = client
  BY <1>1 DEF Moves
<1>3. InOrder(c, s)'
  BY <1>1, <1>2 DEF InOrder
<1>4. InOrder(c, Other(s))'
  BY <1>1, <1>2 DEF InOrder
<1>5. ASSUME NEW d \in Conn, NEW t \in Side
      PROVE  (client[d] = "none" => peer[d][t] = NewPeer)' /\ InOrder(d, t)'
  <2>1. CASE d = c
    BY <1>1, <1>2, <1>3, <1>4, <2>1
  <2>2. CASE d # c
    <3>1. Other(t) \in Side
      BY SideAssumption DEF Other
    <3>2. /\ bev'[d][t] = bev[d][t] /\ peer'[d][t] = peer[d][t]
          /\ bev'[d][Other(t)] = bev[d][Other(t)]
          /\ peer'[d][Other(t)] = peer[d][Other(t)]
      BY <2>2, <3>1 DEF Moves
    <3>. QED
      BY <1>2, <3>2 DEF StreamInv, InOrder
  <2>. QED
    BY <2>1, <2>2
<1>. QED
  BY <1>5 DEF StreamInv

(* A step of a callback on connection c.                                    *)
LEMMA PairStream ==
  ASSUME StreamInv, LifeInv', NEW c \in Conn, NEW l, NEW r, NEW cl,
         cl # "none", PairMoves(c, l, r, cl),
         Ordered(Tab("local"), cl, l, peer[c]["local"], r, peer[c]["remote"]),
         Heads(Tab("local"), peer[c]["local"], r, peer[c]["remote"]),
         Ordered(Tab("remote"), cl, r, peer[c]["remote"], l, peer[c]["local"]),
         Heads(Tab("remote"), peer[c]["remote"], l, peer[c]["local"])
  PROVE  StreamInv'
<1>1. Other("local") = "remote" /\ Other("remote") = "local"
  BY DEF Other
<1>2. /\ bev'[c]["local"] = l /\ bev'[c]["remote"] = r
      /\ peer' = peer /\ client'[c] = cl
  BY DEF PairMoves
<1>3. InOrder(c, "local")' /\ InOrder(c, "remote")'
  BY <1>1, <1>2 DEF InOrder
<1>4. ASSUME NEW d \in Conn, NEW t \in Side
      PROVE  (client[d] = "none" => peer[d][t] = NewPeer)' /\ InOrder(d, t)'
  <2>1. CASE d = c
    BY <1>2, <1>3, <2>1, SideAssumption
  <2>2. CASE d # c
    <3>1. Other(t) \in Side
      BY SideAssumption DEF Other
    <3>2. /\ bev'[d][t] = bev[d][t] /\ bev'[d][Other(t)] = bev[d][Other(t)]
          /\ client'[d] = client[d]
      BY <2>2, <3>1 DEF PairMoves
    <3>. QED
      BY <1>2, <3>2 DEF StreamInv, InOrder
  <2>. QED
    BY <2>1, <2>2
<1>. QED
  BY <1>4 DEF StreamInv

(* What is known of side s of a connection and of the side across.          *)
LEMMA StreamAt ==
  ASSUME StreamInv, NEW c \in Conn, NEW s \in Side
  PROVE  /\ TypeOK /\ LibEventTypeOK
         /\ Tab(s) \in Table /\ Tab(Other(s)) \in Table
         /\ bev[c][s] \in Bev /\ peer[c][s] \in Peer
         /\ bev[c][Other(s)] \in Bev /\ peer[c][Other(s)] \in Peer
         /\ Ordered(Tab(s), client[c], bev[c][s], peer[c][s],
                    bev[c][Other(s)], peer[c][Other(s)])
         /\ Heads(Tab(s), peer[c][s], bev[c][Other(s)], peer[c][Other(s)])
         /\ Ordered(Tab(Other(s)), client[c], bev[c][Other(s)],
                    peer[c][Other(s)], bev[c][s], peer[c][s])
         /\ Heads(Tab(Other(s)), peer[c][Other(s)], bev[c][s], peer[c][s])
<1>1. Other(s) \in Side /\ Other(Other(s)) = s
  BY SideAssumption DEF Other
<1>2. TypeOK
  BY DEF StreamInv, LifeInv
<1>3. InOrder(c, s) /\ InOrder(c, Other(s))
  BY <1>1 DEF StreamInv
<1>. QED
  BY <1>1, <1>2, <1>3, TabType, ClientEntries DEF InOrder

(* Of a connection that is not up only what has been heard counts.          *)
LEMMA OrderedOver ==
  ASSUME NEW x, NEW cl, NEW b, NEW p, NEW ob, NEW op, cl # "live",
         Heads(x, p, ob, op)
  PROVE  Ordered(x, cl, b, p, ob, op)
BY DEF Heads, Ordered

LEMMA NetworkStream ==
  ASSUME StreamInv, LifeInv', NEW c \in Conn, NEW s \in Side,
         NetworkStep(c, s)
  PROVE  StreamInv'
<1>. DEFINE b == bev[c][s]
            p == peer[c][s]
            ob == bev[c][Other(s)]
            op == peer[c][Other(s)]
<1>1. Network(c, s) /\ client' = client
  BY DEF NetworkStep
<1>2. client[c] # "none"
  BY <1>1, NetworkGuard DEF StreamInv
<1>3. /\ b \in Bev /\ p \in Peer /\ ob \in Bev /\ op \in Peer
      /\ Tab(s) \in Table /\ Tab(Other(s)) \in Table /\ LibEventTypeOK
      /\ Ordered(Tab(s), client[c], b, p, ob, op) /\ Heads(Tab(s), p, ob, op)
      /\ Ordered(Tab(Other(s)), client[c], ob, op, b, p)
      /\ Heads(Tab(Other(s)), op, b, p)
  BY StreamAt
<1>4. PICK nb \in Bev, np \in Peer : Moves(c, s, nb, np) /\ Effect(b, p, nb, np)
  BY <1>1, <1>3, NetworkEffect
<1>. HIDE DEF b, p, ob, op
<1>5. Heads(Tab(s), np, ob, op) /\ Heads(Tab(Other(s)), op, nb, np)
  BY <1>3, <1>4, HeadsSpeaker, HeadsHearer
<1>6. /\ Ordered(Tab(s), client[c], nb, np, ob, op)
      /\ Ordered(Tab(Other(s)), client[c], ob, op, nb, np)
  <2>1. CASE client[c] = "live"
    BY <1>3, <1>4, <2>1, OrderedSpeaker, OrderedHearer
  <2>2. CASE client[c] # "live"
    BY <1>5, <2>2, OrderedOver
  <2>. QED
    BY <2>1, <2>2
<1>. QED
  BY <1>1, <1>2, <1>4, <1>5, <1>6, MovesStream DEF ob, op

LEMMA DecrefStream ==
  ASSUME StreamInv, LifeInv', NEW c \in Conn, NEW s \in Side, DecrefStep(c, s)
  PROVE  StreamInv'
<1>. DEFINE b == bev[c][s]
            p == peer[c][s]
            ob == bev[c][Other(s)]
            op == peer[c][Other(s)]
<1>1. Decref(c, s) /\ client' = client
  BY DEF DecrefStep
<1>2. /\ p \in Peer /\ op \in Peer /\ LibEventTypeOK
      /\ Heads(Tab(s), p, ob, op) /\ Heads(Tab(Other(s)), op, b, p)
  BY StreamAt
<1>3. b.st = "held" /\ Moves(c, s, Destroyed, p)
  BY <1>1, <1>2, DecrefMoves
<1>4. client[c] # "none" /\ client[c] # "live"
  <2>1. Tied(client[c], s, b)
    BY DEF StreamInv, LifeInv
  <2>. QED
    BY <1>3, <2>1 DEF Tied
<1>5. Heads(Tab(Other(s)), op, Destroyed, p)
  BY <1>2, DestroyedType, HeadsDropped
<1>. QED
  BY <1>1, <1>2, <1>3, <1>4, <1>5, OrderedOver, MovesStream
-----------------------------------------------------------------------------
(* The callbacks.  A released pair keeps what has been heard.               *)
LEMMA ReleasedStream ==
  ASSUME StreamInv, LifeInv', NEW c \in Conn, NEW l, NEW r,
         NEW cl \in {"freed", "leaked"}, PairMoves(c, l, r, cl),
         Heads(Tab("local"), peer[c]["local"], r, peer[c]["remote"]),
         Heads(Tab("remote"), peer[c]["remote"], l, peer[c]["local"])
  PROVE  StreamInv'
<1>1. cl # "live" /\ cl # "none"
  OBVIOUS
<1>2. /\ Ordered(Tab("local"), cl, l, peer[c]["local"], r, peer[c]["remote"])
      /\ Ordered(Tab("remote"), cl, r, peer[c]["remote"],
                 l, peer[c]["local"])
  BY <1>1, OrderedOver
<1>. QED
  BY <1>1, <1>2, PairStream

(* Both directions of connection c, seen from both sides.                   *)
LEMMA BothHeads ==
  ASSUME StreamInv, NEW c \in Conn
  PROVE  /\ bev[c]["local"] \in Bev /\ bev[c]["remote"] \in Bev
         /\ peer[c]["local"] \in Peer /\ peer[c]["remote"] \in Peer
         /\ Heads(Tab("local"), peer[c]["local"],
                  bev[c]["remote"], peer[c]["remote"])
         /\ Heads(Tab("remote"), peer[c]["remote"],
                  bev[c]["local"], peer[c]["local"])
<1>1. Other("local") = "remote" /\ "local" \in Side
  BY SideAssumption DEF Other
<1>. QED
  BY <1>1, StreamAt

LEMMA HeadsReleased ==
  ASSUME NEW x, NEW p, NEW b \in Bev, NEW op \in Peer, Heads(x, p, b, op)
  PROVE  /\ Heads(x, p, bufferevent_clear_free(b), op)
         /\ Heads(x, p, Destroyed, op)
<1>1. /\ Destroyed.output = <<>>
      /\ \/ bufferevent_clear_free(b) = Destroyed
         \/ bufferevent_clear_free(b).output = b.output
  BY ReleasedIs, DestroyedType
<1>. QED
  BY <1>1, HeadsDropped

LEMMA DialFailsStream ==
  ASSUME StreamInv, LifeInv', NEW c \in Conn, AcceptDialFails(c)
  PROVE  StreamInv'
<1>1. PairMoves(c, Destroyed, Destroyed, "leaked")
  BY AcceptDialFailsMoves DEF StreamInv
<1>. QED
  BY <1>1, BothHeads, HeadsReleased, ReleasedStream

LEMMA AcceptStream ==
  ASSUME StreamInv, LifeInv', NEW c \in Conn, Accept(c)
  PROVE  StreamInv'
<1>. DEFINE l == NewBev("open", local_cbs)
            r == NewBev("connecting", remote_cbs)
<1>1. client[c] = "none" /\ PairMoves(c, l, r, "live")
  BY AcceptMoves DEF StreamInv
<1>2. peer[c]["local"] = NewPeer /\ peer[c]["remote"] = NewPeer
  BY <1>1, SideAssumption DEF StreamInv
<1>3. /\ l.input = <<>> /\ l.output = <<>>
      /\ r.input = <<>> /\ r.output = <<>>
  BY DEF NewBev, NoBev
<1>4. Tab("local") \in Table /\ Tab("remote") \in Table
  BY TabType, SideAssumption
<1>7. l \in Bev /\ r \in Bev /\ NewPeer \in Peer
  BY NewBevType DEF local_cbs, remote_cbs
<1>. HIDE DEF l, r
<1>5. /\ Ordered(Tab("local"), "live", l, NewPeer, r, NewPeer)
      /\ Ordered(Tab("remote"), "live", r, NewPeer, l, NewPeer)
  BY <1>3, <1>4, OrderedNew
<1>6. /\ Heads(Tab("local"), NewPeer, r, NewPeer)
      /\ Heads(Tab("remote"), NewPeer, l, NewPeer)
  BY <1>4, <1>5, <1>7, OrderedHeads
<1>. QED
  BY <1>1, <1>2, <1>5, <1>6, PairStream

LEMMA CopyStream ==
  ASSUME NEW x \in Table, NEW y \in Table, NEW b \in Bev, NEW p \in Peer,
         NEW ob \in Bev, NEW op \in Peer, b.input # <<>>,
         Ordered(x, "live", b, p, ob, op), Ordered(y, "live", ob, op, b, p)
  PROVE  LET copy == encode_copy(x, ob, b)
             u == [copy.src EXCEPT !.pend = {}] IN
         /\ Ordered(x, "live", u, p, copy.dst, op)
         /\ Ordered(y, "live", copy.dst, op, u, p)
         /\ Heads(x, p, copy.dst, op) /\ Heads(y, op, u, p)
         /\ copy.dst \in Bev
<1>. DEFINE copy == encode_copy(x, ob, b)
            u == [copy.src EXCEPT !.pend = {}]
            d == copy.dst
<1>1. Copied(x, ob, b, copy)
  BY CopyType
<1>. HIDE DEF copy
<1>2. u.input = <<>> /\ u.output = b.output /\ u \in Bev
  BY <1>1 DEF Copied, Bev
<1>3. /\ d.output = ob.output \o encode_data(b.input, x) /\ d.input = ob.input
      /\ d \in Bev
  BY <1>1 DEF Copied, Bev
<1>. HIDE DEF u, d
<1>4. Ordered(x, "live", u, p, d, op)
  BY <1>2, <1>3, OrderedCopy
<1>5. Ordered(y, "live", d, op, u, p)
  BY <1>2, <1>3, OrderedKept
<1>6. Heads(x, p, d, op) /\ Heads(y, op, u, p)
  BY <1>2, <1>3, <1>4, <1>5, OrderedHeads
<1>. QED
  BY <1>3, <1>4, <1>5, <1>6 DEF u, d, copy

LEMMA RunLocalStream ==
  ASSUME StreamInv, LifeInv', NEW c \in Conn, RunLocal(c)
  PROVE  StreamInv'
<1>. DEFINE l == bev[c]["local"]
            r == bev[c]["remote"]
            copy == encode_copy(password, r, l)
            u == [copy.src EXCEPT !.pend = {}]
<1>0. LifeInv
  BY DEF StreamInv
<1>1. client[c] = "live" /\ "local" \in Side /\ password \in Table
  BY <1>0, RunLocalMoves, SideAssumption, PasswordAssumption
<1>2. /\ Tab("local") = password /\ Other("local") = "remote"
  BY DEF Tab, Other
<1>3. /\ Tab("remote") \in Table /\ l \in Bev /\ r \in Bev
      /\ peer[c]["local"] \in Peer /\ peer[c]["remote"] \in Peer
      /\ Ordered(password, "live", l, peer[c]["local"],
                 r, peer[c]["remote"])
      /\ Ordered(Tab("remote"), "live", r, peer[c]["remote"],
                 l, peer[c]["local"])
  BY <1>1, <1>2, StreamAt
<1>4. Heads(Tab("remote"), peer[c]["remote"], Destroyed, peer[c]["local"])
  BY BothHeads, HeadsReleased
<1>5. CASE PairMoves(c, Destroyed, bufferevent_clear_free(r), "freed")
  BY <1>4, <1>5, BothHeads, HeadsReleased, ReleasedStream
<1>6. CASE l.input # <<>>
           /\ \/ PairMoves(c, Destroyed, bufferevent_clear_free(copy.dst), "freed")
              \/ PairMoves(c, u, copy.dst, "live")
  <2>. HIDE DEF l, r
  <2>1. /\ Ordered(password, "live", u, peer[c]["local"],
                   copy.dst, peer[c]["remote"])
        /\ Ordered(Tab("remote"), "live", copy.dst, peer[c]["remote"],
                   u, peer[c]["local"])
        /\ Heads(password, peer[c]["local"], copy.dst, peer[c]["remote"])
        /\ Heads(Tab("remote"), peer[c]["remote"], u, peer[c]["local"])
        /\ copy.dst \in Bev
    BY <1>1, <1>3, <1>6, CopyStream
  <2>2. Heads(password, peer[c]["local"], bufferevent_clear_free(copy.dst),
              peer[c]["remote"])
    BY <1>3, <2>1, HeadsReleased
  <2>. HIDE DEF u, copy
  <2>. QED
    BY <1>2, <1>4, <1>6, <2>1, <2>2, PairStream, ReleasedStream
<1>. QED
  BY <1>0, <1>5, <1>6, RunLocalMoves

LEMMA RunRemoteStream ==
  ASSUME StreamInv, LifeInv', NEW c \in Conn, RunRemote(c)
  PROVE  StreamInv'
<1>. DEFINE l == bev[c]["local"]
            r == bev[c]["remote"]
            copy == encode_copy(Tab("remote"), l, r)
            u == [copy.src EXCEPT !.pend = {}]
<1>0. LifeInv
  BY DEF StreamInv
<1>1. Tab("remote") = DecodeTable(password) /\ Other("remote") = "local"
  BY DEF Tab, Other
<1>2. /\ client[c] = "live" /\ r.input # <<>>
      /\ PairMoves(c, copy.dst, u, "live")
  BY <1>0, <1>1, RunRemoteMoves
<1>3. /\ Tab("remote") \in Table /\ Tab("local") \in Table
      /\ l \in Bev /\ r \in Bev
      /\ peer[c]["local"] \in Peer /\ peer[c]["remote"] \in Peer
      /\ Ordered(Tab("local"), "live", l, peer[c]["local"],
                 r, peer[c]["remote"])
      /\ Ordered(Tab("remote"), "live", r, peer[c]["remote"],
                 l, peer[c]["local"])
  BY <1>1, <1>2, StreamAt, SideAssumption
<1>. HIDE DEF l, r
<1>4. /\ Ordered(Tab("remote"), "live", u, peer[c]["remote"],
                 copy.dst, peer[c]["local"])
      /\ Ordered(Tab("local"), "live", copy.dst, peer[c]["local"],
                 u, peer[c]["remote"])
      /\ Heads(Tab("remote"), peer[c]["remote"], copy.dst, peer[c]["local"])
      /\ Heads(Tab("local"), peer[c]["local"], u, peer[c]["remote"])
  BY <1>2, <1>3, CopyStream
<1>. HIDE DEF u, copy
<1>. QED
  BY <1>2, <1>4, PairStream
-----------------------------------------------------------------------------
LEMMA StreamInit == Init => StreamInv
<1>. SUFFICES ASSUME Init PROVE StreamInv
  OBVIOUS
<1>1. LifeInv
  BY LifeInit
<1>2. ASSUME NEW c \in Conn, NEW s \in Side
      PROVE  peer[c][s] = NewPeer /\ InOrder(c, s)
  <2>1. Other(s) \in Side /\ Tab(s) \in Table
    BY SideAssumption, TabType DEF Other
  <2>2. /\ bev[c][s] = NoBev /\ bev[c][Other(s)] = NoBev
        /\ peer[c][s] = NewPeer /\ peer[c][Other(s)] = NewPeer
    BY <2>1 DEF Init, LibEventInit
  <2>3. NoBev.input = <<>> /\ NoBev.output = <<>>
    BY DEF NoBev
  <2>4. /\ Ordered(Tab(s), client[c], NoBev, NewPeer, NoBev, NewPeer)
        /\ Ordered(Tab(s), "live", NoBev, NewPeer, NoBev, NewPeer)
    BY <2>1, <2>3, OrderedNew
  <2>5. NoBev \in Bev /\ NewPeer \in Peer
    BY NewBevType
  <2>6. Heads(Tab(s), NewPeer, NoBev, NewPeer)
    BY <2>1, <2>4, <2>5, OrderedHeads
  <2>. QED
    BY <2>2, <2>4, <2>6 DEF InOrder
<1>. QED
  BY <1>1, <1>2 DEF StreamInv

(* The steps that touch no connection.                                      *)
LEMMA QuietStep ==
  ASSUME StreamInv, LifeInv', bev' = bev, peer' = peer, client' = client
  PROVE  StreamInv'
BY DEF StreamInv, InOrder

LEMMA StreamStep == StreamInv /\ [Next]_vars => StreamInv'
<1>. SUFFICES ASSUME StreamInv, [Next]_vars PROVE StreamInv'
  OBVIOUS
<1>0. LifeInv /\ LifeInv'
  BY LifeStep DEF StreamInv
<1>1. ASSUME NEW c \in Conn, Accept(c) PROVE StreamInv'
  BY <1>0, <1>1, AcceptStream
<1>2. ASSUME NEW c \in Conn, AcceptDialFails(c) PROVE StreamInv'
  BY <1>0, <1>2, DialFailsStream
<1>3. ASSUME NEW c \in Conn, AcceptSetupFails(c) PROVE StreamInv'
  BY <1>0, <1>3, QuietStep DEF AcceptSetupFails
<1>4. ASSUME NEW c \in Conn, RunLocal(c) PROVE StreamInv'
  BY <1>0, <1>4, RunLocalStream
<1>5. ASSUME NEW c \in Conn, RunRemote(c) PROVE StreamInv'
  BY <1>0, <1>5, RunRemoteStream
<1>6. ASSUME NEW c \in Conn, NEW s \in Side, NetworkStep(c, s) PROVE StreamInv'
  BY <1>0, <1>6, NetworkStream
<1>8. ASSUME NEW c \in Conn, NEW s \in Side, DecrefStep(c, s) PROVE StreamInv'
  BY <1>0, <1>8, DecrefStream
<1>7. CASE listener_errorcb \/ signal_cb \/ LoopExit \/ UNCHANGED vars
  BY <1>0, <1>7, QuietStep
     DEF listener_errorcb, AcceptError, signal_cb, SigInt, LoopExit, LoopTimer,
         vars
<1>. QED
  BY <1>1, <1>2, <1>3, <1>4, <1>5, <1>6, <1>7, <1>8 DEF Next

LEMMA StreamHolds == Spec => []StreamInv
BY StreamInit, StreamStep, PTL DEF Spec

(* Each peer hears a prefix of what the other said, through the cipher, in  *)
(* every state (client.c:41-42, 55-56).                                     *)
THEOREM ClientStreamIntegrity == Spec => []StreamIntegrity
<1>1. StreamInv => StreamIntegrity
  BY CodedIs, SMTT(30) DEF StreamInv, InOrder, Ordered, StreamIntegrity
<1>. QED
  BY StreamHolds, <1>1, PTL

(* While a connection is up no byte is lost, doubled or reordered, however   *)
(* reads, writes and callbacks interleave (client.c:41-42, 55-56).          *)
THEOREM ClientLosesNothing == Spec => []NothingLostWhileUp
<1>1. ASSUME StreamInv, NEW c \in Conn, NEW s \in Side, client[c] = "live",
             peer[c][s].st # "reset", peer[c][Other(s)].st # "closed"
      PROVE  peer[c][Other(s)].got \o InFlight(c, s)
               = Coded(s, peer[c][s].sent)
  <2>1. Pipe(Tab(s), peer[c][Other(s)].got, bev[c][Other(s)].output,
             bev[c][s].input, peer[c][s].wire)
          = encode_data(peer[c][s].sent, Tab(s))
    BY <1>1 DEF StreamInv, InOrder, Ordered
  <2>2. InFlight(c, s) = bev[c][Other(s)].output
                           \o encode_data(bev[c][s].input, Tab(s))
                           \o encode_data(peer[c][s].wire, Tab(s))
    BY CodedIs DEF InFlight
  <2>. QED
    BY <2>1, <2>2, CodedIs DEF Pipe
<1>2. StreamInv => NothingLostWhileUp
  BY <1>1 DEF NothingLostWhileUp
<1>. QED
  BY StreamHolds, <1>2, PTL
-----------------------------------------------------------------------------
(* The refinement.  What Client shows of itself to Relay:                   *)
Open(b) == b.st \in {"live", "held"}

phase == [c \in Conn |->
            IF client[c] = "none" THEN "idle"
            ELSE IF \E s \in Side : bev[c][s].st \in {"live", "held"}
              THEN "up" ELSE "over"]
said == [c \in Conn |-> [s \in Side |-> peer[c][s].sent]]
heard == [c \in Conn |-> [s \in Side |-> peer[c][s].got]]

Phase(cl, l, r) ==
  IF cl = "none" THEN "idle" ELSE IF Open(l) \/ Open(r) THEN "up" ELSE "over"

LEMMA PhaseIs ==
  ASSUME NEW c \in Conn
  PROVE  phase[c] = Phase(client[c], bev[c]["local"], bev[c]["remote"])
BY SideAssumption DEF phase, Phase, Open

LEMMA PhaseKept ==
  ASSUME client' = client,
         \A c \in Conn, s \in Side : Open(bev'[c][s]) <=> Open(bev[c][s])
  PROVE  phase' = phase
<1>1. \A c \in Conn :
        (\E s \in Side : bev'[c][s].st \in {"live", "held"})
          <=> (\E s \in Side : bev[c][s].st \in {"live", "held"})
  BY DEF Open
<1>2. \A c \in Conn : phase'[c] = phase[c]
  BY <1>1 DEF phase
<1>. QED
  BY <1>2, Zenon DEF phase

LEMMA RelayVars == R!vars = <<phase, said, heard>>
BY DEF R!vars, phase, said, heard

LEMMA RelayVarsKept ==
  ASSUME phase' = phase, said' = said, heard' = heard
  PROVE  UNCHANGED R!vars
BY DEF R!vars, phase, said, heard

LEMMA RelayOpen ==
  ASSUME NEW c \in Conn, NEW p \in {"up", "over"}, phase[c] = "idle",
         phase' = [phase EXCEPT ![c] = p], said' = said, heard' = heard
  PROVE  R!Next
<1>1. R!Open(c)
  BY DEF R!Open, phase, said, heard
<1>. QED
  BY <1>1 DEF R!Next

LEMMA RelayRelease ==
  ASSUME NEW c \in Conn, phase[c] = "up",
         phase' = [phase EXCEPT ![c] = "over"], said' = said, heard' = heard
  PROVE  R!Next
<1>1. R!Release(c)
  BY DEF R!Release, phase, said, heard
<1>. QED
  BY <1>1 DEF R!Next

LEMMA RelaySay ==
  ASSUME NEW c \in Conn, NEW s \in Side, NEW b \in Byte, phase[c] = "up",
         said' = [said EXCEPT ![c][s] = Append(@, b)],
         phase' = phase, heard' = heard
  PROVE  R!Next
<1>1. R!Say(c, s)
  BY DEF R!Say, R!Byte, Byte, phase, said, heard
<1>. QED
  BY <1>1, SideAssumption DEF R!Next, R!End

LEMMA RelayCoded ==
  ASSUME NEW s, NEW bytes
  PROVE  R!Coded(s, bytes) = Coded(s, bytes)
<1>1. \A x : R!encode_data(bytes, x) = encode_data(bytes, x)
  BY DEF R!encode_data, encode_data
<1>2. R!DecodeTable(password) = DecodeTable(password)
  BY DEF R!DecodeTable, DecodeTable, R!Byte, Byte
<1>. QED
  BY <1>1, <1>2 DEF R!Coded, Coded, R!decode_data, decode_data

LEMMA RelayHear ==
  ASSUME NEW c \in Conn, NEW s \in Side, phase[c] = "up",
         NEW n \in Len(heard[c][s]) + 1 .. Len(said[c][Other(s)]),
         heard' = [heard EXCEPT ![c][s] =
                     Coded(Other(s), SubSeq(said[c][Other(s)], 1, n))],
         phase' = phase, said' = said
  PROVE  R!Next
<1>1. R!Other(s) = Other(s)
  BY DEF R!Other, Other
<1>2. \A bytes : R!Coded(Other(s), bytes) = Coded(Other(s), bytes)
  BY RelayCoded
<1>. DEFINE bytes == said[c][Other(s)]
            hears == R!Coded(R!Other(s), SubSeq(bytes, 1, n))
<1>4. heard' = [heard EXCEPT ![c][s] = hears]
  BY <1>1, <1>2
<1>5. R!Hear(c, s) <=>
        /\ phase[c] = "up"
        /\ \E m \in Len(heard[c][s]) + 1 .. Len(said[c][R!Other(s)]) :
             heard' = [heard EXCEPT ![c][s] =
                         R!Coded(R!Other(s), SubSeq(said[c][R!Other(s)], 1, m))]
        /\ phase' = phase /\ said' = said
  BY DEF R!Hear, phase, said, heard
<1>3. R!Hear(c, s)
  BY <1>1, <1>4, <1>5
<1>. QED
  BY <1>3, SideAssumption DEF R!Next, R!End

LEMMA RelayInit == Init => R!Init
<1>. SUFFICES ASSUME Init PROVE R!Init
  OBVIOUS
<1>1. \A c \in Conn : client[c] = "none"
  BY DEF Init
<1>2. \A c \in Conn, s \in Side : peer[c][s].sent = <<>> /\ peer[c][s].got = <<>>
  BY DEF Init, LibEventInit, NewPeer
<1>. QED
  BY <1>1, <1>2, SideAssumption DEF R!Init, R!End

(* A step at one side says or hears something there, or nothing.            *)
LEMMA MovesRelay ==
  ASSUME TypeOK, NEW c \in Conn, NEW s \in Side, NEW nb, NEW np,
         Moves(c, s, nb, np), client' = client
  PROVE  /\ said' = [said EXCEPT ![c][s] = np.sent]
         /\ heard' = [heard EXCEPT ![c][s] = np.got]
         /\ np.sent = peer[c][s].sent => said' = said
         /\ np.got = peer[c][s].got => heard' = heard
<1>1. \A d \in Conn, t \in Side :
        /\ said'[d][t] = IF d = c /\ t = s THEN np.sent ELSE said[d][t]
        /\ heard'[d][t] = IF d = c /\ t = s THEN np.got ELSE heard[d][t]
  BY DEF Moves, said, heard
<1>3. /\ said' = [d \in Conn |-> [t \in Side |-> said'[d][t]]]
      /\ heard' = [d \in Conn |-> [t \in Side |-> heard'[d][t]]]
      /\ said = [d \in Conn |-> [t \in Side |-> said[d][t]]]
      /\ heard = [d \in Conn |-> [t \in Side |-> heard[d][t]]]
  BY DEF said, heard
<1>4. said' = [said EXCEPT ![c][s] = np.sent]
  BY <1>1, <1>3
<1>5. heard' = [heard EXCEPT ![c][s] = np.got]
  BY <1>1, <1>3
<1>6. said[c][s] = peer[c][s].sent /\ heard[c][s] = peer[c][s].got
  BY DEF said, heard
<1>7. ASSUME np.sent = peer[c][s].sent PROVE said' = said
  <2>1. \A d \in Conn, t \in Side : said'[d][t] = said[d][t]
    BY <1>1, <1>6, <1>7
  <2>. QED
    BY <2>1, Zenon DEF said
<1>8. ASSUME np.got = peer[c][s].got PROVE heard' = heard
  <2>1. \A d \in Conn, t \in Side : heard'[d][t] = heard[d][t]
    BY <1>1, <1>6, <1>8
  <2>. QED
    BY <2>1, Zenon DEF heard
<1>. QED
  BY <1>4, <1>5, <1>7, <1>8

(* No step of the network ends a connection.                                *)
LEMMA NetworkPhase ==
  ASSUME LifeInv, NEW c \in Conn, NEW s \in Side, NetworkStep(c, s)
  PROVE  phase' = phase /\ phase[c] = "up"
<1>1. Network(c, s) /\ client' = client /\ LibEventTypeOK
  BY ClientEntries DEF NetworkStep, LifeInv
<1>2. PICK nb \in Bev, np \in Peer :
        Moves(c, s, nb, np) /\ Effect(bev[c][s], peer[c][s], nb, np)
  BY <1>1, NetworkEffect
<1>3. /\ Open(nb) <=> Open(bev[c][s])
      /\ bev'[c][s] = nb
      /\ \A d \in Conn, t \in Side : d # c \/ t # s => bev'[d][t] = bev[d][t]
  BY <1>2 DEF Effect, Open, Moves
<1>4. phase' = phase
  BY <1>1, <1>3, PhaseKept
<1>5. client[c] # "none" /\ bev[c][s].st \in {"live", "held"}
  BY <1>1, NetworkGuard
<1>6. phase[c] = "up"
  BY <1>5 DEF phase
<1>. QED
  BY <1>4, <1>6

(* A callback changes the phase of one connection.                          *)
LEMMA PairRelay ==
  ASSUME TypeOK, NEW c \in Conn, NEW l, NEW r, NEW cl, PairMoves(c, l, r, cl)
  PROVE  /\ phase' = [phase EXCEPT ![c] = Phase(cl, l, r)]
         /\ Phase(cl, l, r) = phase[c] => phase' = phase
         /\ said' = said /\ heard' = heard
<1>1. peer' = peer
  BY DEF PairMoves
<1>2. \A d \in Conn : phase'[d] = IF d = c THEN Phase(cl, l, r) ELSE phase[d]
  <2>1. ASSUME NEW d \in Conn, d # c PROVE phase'[d] = phase[d]
    BY <2>1 DEF PairMoves, phase
  <2>2. phase'[c] = Phase(cl, l, r)
    BY SideAssumption DEF PairMoves, phase, Phase, Open
  <2>. QED
    BY <2>1, <2>2
<1>3. /\ phase' = [d \in Conn |-> phase'[d]]
      /\ phase = [d \in Conn |-> phase[d]]
  BY DEF phase
<1>4. phase' = [phase EXCEPT ![c] = Phase(cl, l, r)]
  BY <1>2, <1>3
<1>5. Phase(cl, l, r) = phase[c] => phase' = phase
  <2>1. ASSUME Phase(cl, l, r) = phase[c] PROVE \A d \in Conn : phase'[d] = phase[d]
    BY <1>2, <2>1
  <2>. QED
    BY <2>1, Zenon DEF phase
<1>. QED
  BY <1>1, <1>4, <1>5 DEF said, heard

(* The end of a held bufferevent may end its connection.                    *)
LEMMA DecrefRelay ==
  ASSUME LifeInv, NEW c \in Conn, NEW s \in Side, DecrefStep(c, s)
  PROVE  R!Next \/ UNCHANGED R!vars
<1>1. /\ Decref(c, s) /\ client' = client /\ LibEventTypeOK
      /\ Tied(client[c], s, bev[c][s])
  BY ClientEntries DEF DecrefStep, LifeInv
<1>2. bev[c][s].st = "held" /\ Moves(c, s, Destroyed, peer[c][s])
  BY <1>1, DecrefMoves
<1>3. client[c] # "none" /\ phase[c] = "up"
  BY <1>1, <1>2 DEF Tied, phase
<1>4. peer' = peer
  BY <1>1 DEF Decref
<1>5. said' = said /\ heard' = heard
  BY <1>4 DEF said, heard
<1>6. phase'[c] \in {"up", "over"}
  BY <1>1, <1>3 DEF phase
<1>7. \A d \in Conn : d # c => phase'[d] = phase[d]
  BY <1>1, <1>2 DEF phase, Moves
<1>8. /\ phase' = [d \in Conn |-> phase'[d]]
      /\ phase = [d \in Conn |-> phase[d]]
  BY DEF phase
<1>9. phase' = [phase EXCEPT ![c] = phase'[c]]
  BY <1>7, <1>8
<1>10. CASE phase'[c] = "over"
  BY <1>3, <1>5, <1>9, <1>10, RelayRelease
<1>11. CASE phase'[c] = "up"
  <2>1. \A d \in Conn : phase'[d] = phase[d]
    BY <1>3, <1>7, <1>11
  <2>2. phase' = phase
    BY <2>1, Zenon DEF phase
  <2>. QED
    BY <1>5, <2>2, RelayVarsKept
<1>. QED
  BY <1>6, <1>10, <1>11

LEMMA QuietRelay ==
  ASSUME bev' = bev, peer' = peer, client' = client
  PROVE  UNCHANGED R!vars
<1>1. phase' = phase /\ said' = said /\ heard' = heard
  BY DEF phase, said, heard
<1>. QED
  BY <1>1, RelayVarsKept

(* What is heard is what is said up to some byte, through the cipher.       *)
LEMMA HeardIs ==
  ASSUME NEW x \in Table, NEW got \in Seq(Byte), NEW sent \in Seq(Byte),
         IsPrefix(got, encode_data(sent, x))
  PROVE  /\ Len(got) \in 0 .. Len(sent)
         /\ got = encode_data(SubSeq(sent, 1, Len(got)), x)
<1>. DEFINE e == encode_data(sent, x)
<1>1. e \in Seq(Byte) /\ Len(e) = Len(sent)
  BY EncodeData
<1>. HIDE DEF e
<1>2. IsPrefix(got, e)
  BY DEF e
<1>3. /\ Len(got) \in Nat /\ Len(got) <= Len(sent) /\ Len(sent) \in Nat
      /\ SubSeq(got, 1, Len(got)) = SubSeq(e, 1, Len(got))
  BY <1>1, <1>2, LenProperties DEF IsPrefix
<1>4. SubSeq(got, 1, Len(got)) = got
  BY SubSeqFull
<1>5. Len(got) \in 0 .. Len(sent)
  BY <1>3
<1>. QED
  BY <1>3, <1>4, <1>5, EncodePart DEF e

LEMMA SockWriteRelay ==
  ASSUME StreamInv, StreamInv', NEW c \in Conn, NEW s \in Side,
         SockWrite(c, s), client' = client, phase' = phase, phase[c] = "up"
  PROVE  R!Next \/ UNCHANGED R!vars
<1>. DEFINE b == bev[c][s]
            p == peer[c][s]
            sent == peer[c][Other(s)].sent
            x == Tab(Other(s))
<1>1. /\ TypeOK /\ LibEventTypeOK /\ b \in Bev /\ p \in Peer /\ x \in Table
      /\ sent \in Seq(Byte) /\ p.got \in Seq(Byte) /\ b.output \in Seq(Byte)
  BY StreamAt, Fields
<1>2. /\ Other(s) \in Side /\ Other(s) # s /\ Other(Other(s)) = s
  BY SideAssumption DEF Other
<1>. HIDE DEF b, p, x
<1>3. PICK k \in 1 .. Len(b.output), wr \in {"idle", "armed"},
           sock \in {"open", "broken"}, got \in Seq(Byte) :
        /\ \/ got = p.got \o SubSeq(b.output, 1, k)
           \/ got = p.got
        /\ Moves(c, s, [b EXCEPT !.output = Drop(@, k), !.wr = wr,
                                 !.sock = sock],
                 [p EXCEPT !.got = got])
  BY <1>1, SockWriteMoves, Zenon DEF b, p
<1>. DEFINE nb == [b EXCEPT !.output = Drop(@, k), !.wr = wr, !.sock = sock]
            np == [p EXCEPT !.got = got]
<1>4. np.sent = p.sent /\ np.got = got
  BY <1>1 DEF Peer
<1>5. Moves(c, s, nb, np)
  BY <1>3
<1>. HIDE DEF nb, np
<1>6. /\ said' = said
      /\ heard' = [heard EXCEPT ![c][s] = got]
      /\ got = p.got => heard' = heard
  BY <1>1, <1>4, <1>5, MovesRelay DEF p
<1>7. CASE got = p.got
  BY <1>6, <1>7, RelayVarsKept
<1>8. CASE got = p.got \o SubSeq(b.output, 1, k)
  <2>1. /\ SubSeq(b.output, 1, k) \in Seq(Byte)
        /\ Len(SubSeq(b.output, 1, k)) = k /\ k > 0
    BY <1>1, <1>3, Split, LenProperties
  <2>2. Len(got) = Len(p.got) + k /\ Len(p.got) \in Nat
    BY <1>1, <1>8, <2>1, ConcatProperties, LenProperties
  <2>3. IsPrefix(got, encode_data(sent, x))
    <3>1. InOrder(c, Other(s))'
      BY <1>2 DEF StreamInv
    <3>2. /\ peer'[c][s] = np /\ peer'[c][Other(s)] = peer[c][Other(s)]
      BY <1>2, <1>5 DEF Moves
    <3>3. Heads(x, peer'[c][Other(s)], bev'[c][s], peer'[c][s])
      BY <1>2, <3>1 DEF InOrder, x
    <3>. QED
      BY <1>4, <3>2, <3>3 DEF Heads
  <2>. HIDE DEF sent
  <2>4. /\ Len(got) \in 0 .. Len(sent)
        /\ got = encode_data(SubSeq(sent, 1, Len(got)), x)
    BY <1>1, <2>3, HeardIs
  <2>5. Len(got) \in Len(p.got) + 1 .. Len(sent)
    BY <2>1, <2>2, <2>4
  <2>6. /\ said[c][Other(s)] = sent /\ heard[c][s] = p.got
    BY <1>2 DEF said, heard, sent, p
  <2>7. got = Coded(Other(s), SubSeq(sent, 1, Len(got)))
    BY <2>4, CodedIs DEF x
  <2>. QED
    BY <1>6, <2>5, <2>6, <2>7, RelayHear
<1>. QED
  BY <1>3, <1>7, <1>8

LEMMA NetworkRelay ==
  ASSUME StreamInv, StreamInv', NEW c \in Conn, NEW s \in Side,
         NetworkStep(c, s)
  PROVE  R!Next \/ UNCHANGED R!vars
<1>. DEFINE b == bev[c][s]
            p == peer[c][s]
<1>1. Network(c, s) /\ client' = client
  BY DEF NetworkStep
<1>2. phase' = phase /\ phase[c] = "up"
  BY NetworkPhase DEF StreamInv
<1>3. TypeOK /\ LibEventTypeOK /\ p \in Peer
  BY StreamAt
<1>. HIDE DEF b, p
<1>4. ASSUME NEW nb, NEW np, Moves(c, s, nb, np),
             np.sent = p.sent, np.got = p.got
      PROVE  UNCHANGED R!vars
  <2>1. said' = said /\ heard' = heard
    BY <1>1, <1>3, <1>4, MovesRelay DEF p
  <2>. QED
    BY <1>2, <2>1, RelayVarsKept
<1>5. CASE PeerSend(c, s)
  <2>1. PICK byte \in Byte :
          Moves(c, s, b, [p EXCEPT !.sent = Append(@, byte),
                                   !.wire = Append(@, byte)])
    BY <1>3, <1>5, PeerSendMoves DEF b, p
  <2>. DEFINE np == [p EXCEPT !.sent = Append(@, byte),
                              !.wire = Append(@, byte)]
  <2>2. np.sent = Append(p.sent, byte) /\ np.got = p.got
    BY <1>3 DEF Peer
  <2>6. Moves(c, s, b, np)
    BY <2>1
  <2>. HIDE DEF np
  <2>3. /\ heard' = heard
        /\ said' = [said EXCEPT ![c][s] = Append(p.sent, byte)]
    BY <1>1, <1>3, <2>2, <2>6, MovesRelay DEF p
  <2>4. said[c][s] = p.sent
    BY DEF said, p
  <2>5. said' = [said EXCEPT ![c][s] = Append(@, byte)]
    BY <2>3, <2>4
  <2>. QED
    BY <1>2, <2>3, <2>5, RelaySay
<1>6. CASE PeerFinish(c, s)
  <2>1. PICK st : Moves(c, s, b, [p EXCEPT !.st = st])
    BY <1>3, <1>6, PeerFinishMoves DEF b, p
  <2>. DEFINE np == [p EXCEPT !.st = st]
  <2>2. np.sent = p.sent /\ np.got = p.got
    BY <1>3 DEF Peer
  <2>. QED
    BY <1>4, <2>1, <2>2
<1>7. CASE PeerReset(c, s)
  <2>. DEFINE np(k) == [p EXCEPT !.st = "reset", !.wire = SubSeq(@, 1, k)]
  <2>1. PICK k : Moves(c, s, [b EXCEPT !.sock = "broken"], np(k))
    BY <1>3, <1>7, PeerResetMoves DEF b, p
  <2>2. np(k).sent = p.sent /\ np(k).got = p.got
    BY <1>3 DEF Peer
  <2>. QED
    BY <1>4, <2>1, <2>2
<1>8. CASE SockRead(c, s)
  <2>. DEFINE np(k) == [p EXCEPT !.wire = Drop(@, k)]
  <2>1. PICK k : Moves(c, s, [b EXCEPT !.input = @ \o SubSeq(p.wire, 1, k),
                                       !.pend = Owe(b, "read")], np(k))
    BY <1>3, <1>8, SockReadMoves DEF b, p
  <2>2. np(k).sent = p.sent /\ np(k).got = p.got
    BY <1>3 DEF Peer
  <2>. QED
    BY <1>4, <2>1, <2>2
<1>9. CASE SockEof(c, s)
  BY <1>3, <1>4, <1>9, SockEofMoves DEF b, p
<1>10. CASE SockWrite(c, s)
  BY <1>1, <1>2, <1>10, SockWriteRelay
<1>11. CASE SockWriteFail(c, s)
  BY <1>3, <1>4, <1>11, SockWriteFailMoves, ZenonT(30) DEF b, p
<1>12. CASE ConnectDone(c, s)
  BY <1>3, <1>4, <1>12, ConnectDoneMoves DEF b, p
<1>. QED
  BY <1>1, <1>5, <1>6, <1>7, <1>8, <1>9, <1>10, <1>11, <1>12 DEF Network

LEMMA RelayStep ==
  StreamInv /\ StreamInv' /\ [Next]_vars => [R!Next]_(R!vars)
<1>. SUFFICES ASSUME StreamInv, StreamInv', [Next]_vars
              PROVE  R!Next \/ UNCHANGED R!vars
  OBVIOUS
<1>0. LifeInv /\ TypeOK /\ LifeInv'
  BY DEF StreamInv, LifeInv
<1>1. ASSUME NEW c \in Conn, NEW l, NEW r, NEW cl \in {"live", "leaked"},
             client[c] = "none", PairMoves(c, l, r, cl)
      PROVE  R!Next
  <2>1. Phase(cl, l, r) \in {"up", "over"} /\ phase[c] = "idle"
    BY <1>1 DEF phase, Phase
  <2>. QED
    BY <1>0, <1>1, <2>1, PairRelay, RelayOpen
<1>11. ASSUME NEW c \in Conn, client[c] = "live"
       PROVE  phase[c] = "up"
  <2>1. bev[c]["local"].st = "live" /\ "local" \in Side
    BY <1>0, <1>11, SideAssumption DEF LifeInv, Tied
  <2>. QED
    BY <1>11, <2>1 DEF phase
<1>2. ASSUME NEW c \in Conn, NEW l, NEW r,
             client[c] = "live", PairMoves(c, l, r, "live")
      PROVE  UNCHANGED R!vars
  <2>1. bev'[c]["local"].st = "live" /\ bev'[c]["local"] = l
    BY <1>0, <1>2, SideAssumption DEF LifeInv, Tied, PairMoves
  <2>2. Phase("live", l, r) = "up"
    BY <2>1 DEF Phase, Open
  <2>. QED
    BY <1>0, <1>2, <1>11, <2>2, PairRelay, RelayVarsKept
<1>3. ASSUME NEW c \in Conn, NEW l, NEW r,
             client[c] = "live", PairMoves(c, l, r, "freed")
      PROVE  R!Next \/ UNCHANGED R!vars
  <2>1. Phase("freed", l, r) \in {"up", "over"}
    BY DEF Phase
  <2>2. CASE Phase("freed", l, r) = "over"
    BY <1>0, <1>3, <1>11, <2>2, PairRelay, RelayRelease
  <2>3. CASE Phase("freed", l, r) = "up"
    BY <1>0, <1>3, <1>11, <2>3, PairRelay, RelayVarsKept
  <2>. QED
    BY <2>1, <2>2, <2>3
<1>4. ASSUME NEW c \in Conn, Accept(c) PROVE R!Next
  BY <1>0, <1>1, <1>4, AcceptMoves
<1>5. ASSUME NEW c \in Conn, AcceptDialFails(c) PROVE R!Next
  BY <1>0, <1>1, <1>5, AcceptDialFailsMoves
<1>12. ASSUME NEW c \in Conn, NEW s \in Side, DecrefStep(c, s)
       PROVE  R!Next \/ UNCHANGED R!vars
  BY <1>0, <1>12, DecrefRelay
<1>6. ASSUME NEW c \in Conn, RunLocal(c) PROVE R!Next \/ UNCHANGED R!vars
  BY <1>0, <1>2, <1>3, <1>6, RunLocalMoves
<1>7. ASSUME NEW c \in Conn, RunRemote(c) PROVE UNCHANGED R!vars
  BY <1>0, <1>2, <1>7, RunRemoteMoves
<1>8. ASSUME NEW c \in Conn, NEW s \in Side, NetworkStep(c, s)
      PROVE  R!Next \/ UNCHANGED R!vars
  BY <1>8, NetworkRelay
<1>9. ASSUME NEW c \in Conn, AcceptSetupFails(c) PROVE UNCHANGED R!vars
  BY <1>9, QuietRelay DEF AcceptSetupFails
<1>10. CASE listener_errorcb \/ signal_cb \/ LoopExit \/ UNCHANGED vars
  BY <1>10, QuietRelay
     DEF listener_errorcb, AcceptError, signal_cb, SigInt, LoopExit, LoopTimer,
         vars
<1>. QED
  BY <1>4, <1>5, <1>6, <1>7, <1>8, <1>9, <1>10, <1>12 DEF Next

(* The client program implements the abstract relay: its initial states and *)
(* every step of it, callbacks, socket operations and peers included, are   *)
(* those of Relay or leave what Relay speaks of as it is.                   *)
THEOREM ClientImplementsRelay == Spec => ImplementsRelay
BY RelayInit, RelayStep, StreamHolds, PTL DEF Spec, ImplementsRelay, R!Spec
=============================================================================
