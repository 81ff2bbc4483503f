------------------------------- MODULE Server -------------------------------
(***************************************************************************)
(* server/server.c: the proxy that is to speak SOCKS5 with the application *)
(* through the tunnel and to dial the address it asks for.  Bytes are      *)
(* modelled one by one here, because what the server does depends on how   *)
(* the bytes it is sent are split over its reads.                          *)
(*                                                                         *)
(* The dialled sides are "remote" and "again": once a connection relays,   *)
(* its next local data goes through parse_socks5 again and may dial a      *)
(* second time.                                                            *)
(***************************************************************************)
EXTENDS SecureSocket

CONSTANTS password,    \* global_password->x
          SOCKS_BUF,   \* 257 in the code
          Await        \* what the peers wait for, see MayTalk

Dialled == Side \ {"local"}

ASSUME ServerAssumption ==
  /\ password \in Table
  /\ PASS_LENGTH > 5  \* the replies are bytes
  /\ SOCKS_BUF \in Nat /\ SOCKS_BUF >= 8
  /\ Side = {"local", "remote", "again"}
  /\ \A s \in Side : Await[s] \in [1 .. Len(Stream[s]) -> Nat]

VARIABLES server,      \* [Conn -> ...]: the LsServer struct
          remote_bev,  \* [Conn -> Dialled \cup {"null"}]: server->remote_bev
          remote_addr  \* [Conn -> [Dialled -> Seq(Byte)]]: the address dialled

serverVars == <<server, remote_bev, remote_addr>>

vars == <<proc, bev, peer, server, remote_bev, remote_addr>>

ServerState == {"none", "live", "freed", "leaked"}

Init ==
  /\ LibEventInit
  /\ server = [c \in Conn |-> "none"]
  /\ remote_bev = [c \in Conn |-> "null"]
  /\ remote_addr = [c \in Conn |-> [s \in Dialled |-> <<>>]]

local_cbs == {"read", "event"}
remote_cbs == {"read"}
-----------------------------------------------------------------------------
(* decode_read into a buffer of SOCKS_BUF bytes: what was in it beyond the  *)
(* bytes read stays there.                                                  *)
decode_read(b, buf) ==
  LET n == IF Len(b.input) < SOCKS_BUF THEN Len(b.input) ELSE SOCKS_BUF
      bytes == decode_data(SubSeq(b.input, 1, n), password) IN
  [n |-> n,
   buf |-> [k \in 0 .. SOCKS_BUF - 1 |-> IF k < n THEN bytes[k + 1] ELSE buf[k]],
   bev |-> [b EXCEPT !.input = Drop(@, n)]]

(* Mutant of sin_port: the bytes are swapped.                               *)
sin_port_swapped(n, buf) ==
  LET At(k) == IF k < 0 THEN 0 ELSE buf[k] IN <<At(n - 1), At(n - 2)>>

(* The port is taken from the end of a read of n bytes.  That is before buf *)
(* if n is less than 2: a value of the stack that no property looks at.     *)
sin_port(n, buf) ==
  LET At(k) == IF k < 0 THEN 0 ELSE buf[k] IN <<At(n - 2), At(n - 1)>>

(* parse_socks5: one read for the greeting, one for the request, neither of *)
(* which waits for anything, with the reply to the greeting in between.     *)
(* ATYP 3 is never a success.                                               *)
parse_socks5(b) ==
  LET greeting == decode_read(b, [k \in 0 .. SOCKS_BUF - 1 |-> 0])
      reply == AddOutput(greeting.bev, encode_data(<<5, 0>>, password))
      request == decode_read(reply, greeting.buf)
      buf == request.buf IN
  IF greeting.buf[0] # 5 THEN [ret |-> -1, bev |-> greeting.bev, addr |-> <<>>]
  ELSE IF buf[1] # 1 \/ buf[3] # 1
    THEN [ret |-> -1, bev |-> request.bev, addr |-> <<>>]
  ELSE [ret |-> 0, bev |-> request.bev,
        addr |-> <<buf[4], buf[5], buf[6], buf[7]>> \o sin_port(request.n, buf)]

socks5_reply == <<5, 0, 0, 1, 0, 0, 0, 0, 0, 0>>

(* A callback of side s of c frees that bufferevent and side t of d, and    *)
(* the deferred run that called it ends.  Its own bufferevent is used after *)
(* that: local_eventcb asks it for its descriptor (server.c:214), and the   *)
(* run still looks for other callbacks it owes.  Only the reference of that *)
(* run makes this harmless; had free destroyed the bufferevent, it would be *)
(* a use after free.                                                        *)
FreeBoth(c, s, d, t) ==
  IF bufferevent_clear_free(bev[c][s]).st = "freed" THEN
    /\ proc' = "undefined"
    /\ UNCHANGED bev
  ELSE
    /\ bev' = [bev EXCEPT ![c][s] = EndRun(bufferevent_clear_free(@)),
                          ![d][t] = bufferevent_clear_free(@)]
    /\ UNCHANGED proc
-----------------------------------------------------------------------------
(* local_listener_cb                                                        *)
Accept(c) ==
  /\ Running /\ server[c] = "none" /\ FdsInUse + 1 <= MaxFds
  /\ bev' = [bev EXCEPT ![c]["local"] = NewBev("open", local_cbs)]
  /\ server' = [server EXCEPT ![c] = "live"]
  /\ UNCHANGED <<proc, peer, remote_bev, remote_addr>>

(* The error path frees local_bev and ls_server before they are assigned.   *)
AcceptSetupFails(c) ==
  /\ Running /\ server[c] = "none" /\ FdsInUse + 1 <= MaxFds
  /\ proc' = "crashed"
  /\ UNCHANGED <<bev, peer, server, remote_bev, remote_addr>>

(* parse_socks5 has failed: bev is freed and so is remote_bev, which has    *)
(* not been assigned (server.c:154, 198-199).  Its stack slot may hold      *)
(* anything: no address at all; bev itself, memory that is not a            *)
(* bufferevent, or one that has been freed; or a bufferevent in use, most   *)
(* likely the one that an earlier call of local_readcb dialled, but that of *)
(* another connection or another side of this one as well.                  *)
ParseFails(c) ==
  /\ \/ /\ proc' \in {"crashed", "undefined"}
        /\ UNCHANGED <<bev, server>>
     \/ \E d \in Conn, s \in Side :
          /\ <<d, s>> # <<c, "local">> /\ bev[d][s].st = "live"
          /\ FreeBoth(c, "local", d, s)
          /\ server' = [server EXCEPT ![c] = "leaked"]
  /\ UNCHANGED <<remote_bev, remote_addr>>

(* bufferevent_socket_connect returns -1 or SO_LINGER cannot be set: both   *)
(* bufferevents are freed, of which the new one has owed nothing yet.       *)
DialFails(c) ==
  /\ bev' = [bev EXCEPT ![c]["local"] = EndRun(bufferevent_clear_free(@))]
  /\ server' = [server EXCEPT ![c] = "leaked"]
  /\ UNCHANGED <<proc, remote_bev, remote_addr>>

(* Mutants of Dial: the reply is written without being encoded, or          *)
(* server->remote_bev is set to bev or not at all.                          *)
DialAs(c, parsed, s, reply, dialled) ==
  LET replied == AddOutput(parsed.bev, reply)
      copy == decode_copy(password, NewBev("connecting", remote_cbs), replied) IN
  /\ FdsInUse + 1 <= MaxFds
  /\ copy.ret = 0
  /\ remote_bev' = [remote_bev EXCEPT ![c] = dialled]
  /\ remote_addr' = [remote_addr EXCEPT ![c][s] = parsed.addr]
  /\ bev' = [bev EXCEPT ![c]["local"] = EndRun(copy.src), ![c][s] = copy.dst]
  /\ UNCHANGED <<proc, server>>

DialPlainReply(c, parsed, s) == DialAs(c, parsed, s, socks5_reply, s)

DialKeepsBev(c, parsed, s) ==
  DialAs(c, parsed, s, encode_data(socks5_reply, password), "local")

DialForgets(c, parsed, s) ==
  DialAs(c, parsed, s, encode_data(socks5_reply, password), "null")

(* The destination is being dialled: reply, then relay what follows the     *)
(* request.  If nothing does, decode_copy_pass returns -1 and both          *)
(* bufferevents are freed.  If local_eventcb is owed too, it runs next, in  *)
(* the same deferred run, and frees everything.                             *)
Dial(c, parsed, s) ==
  LET replied == AddOutput(parsed.bev, encode_data(socks5_reply, password))
      copy == decode_copy(password, NewBev("connecting", remote_cbs), replied) IN
  /\ FdsInUse + 1 <= MaxFds
  /\ remote_bev' = [remote_bev EXCEPT ![c] = s]
  /\ remote_addr' = [remote_addr EXCEPT ![c][s] = parsed.addr]
  /\ IF copy.ret = -1 \/ "event" \in parsed.bev.pend THEN
       /\ FreeBoth(c, "local", c, s)
       /\ server' = [server EXCEPT ![c] =
                       IF copy.ret = -1 THEN "leaked" ELSE "freed"]
     ELSE
       /\ bev' = [bev EXCEPT ![c]["local"] = EndRun(copy.src), ![c][s] = copy.dst]
       /\ UNCHANGED <<proc, server>>

(* There are two dialled sides: a third exchange on a connection can only    *)
(* fail to dial.                                                            *)
local_readcb(c) ==
  LET parsed == parse_socks5(bev[c]["local"]) IN
  /\ LiveBev(c, "local") /\ "read" \in bev[c]["local"].pend
  /\ IF parsed.ret = -1 THEN ParseFails(c)
     ELSE \/ DialFails(c)
          \/ \E s \in Dialled :
               /\ s = "again" <=> bev[c]["remote"].st # "none"
               /\ bev[c][s].st = "none"
               /\ Dial(c, parsed, s)
  /\ UNCHANGED peer

(* Mutant of local_eventcb: only bev is freed.                              *)
local_eventcb_local(c) ==
  /\ LiveBev(c, "local") /\ bev[c]["local"].pend = {"event"}
  /\ bev' = [bev EXCEPT ![c]["local"] = EndRun(bufferevent_clear_free(@))]
  /\ server' = [server EXCEPT ![c] = "freed"]
  /\ UNCHANGED <<proc, peer, remote_bev, remote_addr>>

(* The deferred run when local_readcb is not owed.  Without a dial           *)
(* server->remote_bev is NULL, which bufferevent_setcb dereferences; one    *)
(* that has been freed before is freed again.                               *)
local_eventcb(c) ==
  LET s == remote_bev[c] IN
  /\ LiveBev(c, "local") /\ bev[c]["local"].pend = {"event"}
  /\ IF s = "null" THEN
       /\ proc' = "crashed"
       /\ UNCHANGED <<bev, server>>
     ELSE IF bev[c][s].st # "live" \/ server[c] # "live" THEN
       /\ proc' = "undefined"
       /\ UNCHANGED <<bev, server>>
     ELSE
       /\ FreeBoth(c, "local", c, s)
       /\ server' = [server EXCEPT ![c] = "freed"]
  /\ UNCHANGED <<peer, remote_bev, remote_addr>>

(* The context of a bufferevent that a second dial has replaced may be gone. *)
(* A local bufferevent that has been freed but is held may still be written *)
(* to, but not freed again.                                                 *)
remote_readcb(c, s) ==
  LET local == bev[c]["local"]
      copy == encode_copy(password, local, bev[c][s]) IN
  /\ s \in Dialled /\ LiveBev(c, s) /\ bev[c][s].pend # {}
  /\ IF \/ server[c] = "freed" \/ local.st = "freed"
        \/ copy.ret = -1 /\ local.st # "live" THEN
       /\ proc' = "undefined"
       /\ UNCHANGED <<bev, server>>
     ELSE IF copy.ret = -1 THEN
       /\ FreeBoth(c, s, c, "local")
       /\ server' = [server EXCEPT ![c] = "leaked"]
     ELSE
       /\ bev' = [bev EXCEPT ![c]["local"] = copy.dst, ![c][s] = EndRun(copy.src)]
       /\ UNCHANGED <<proc, server>>
  /\ UNCHANGED <<peer, remote_bev, remote_addr>>
-----------------------------------------------------------------------------
listener_errorcb == AcceptError /\ UNCHANGED serverVars

signal_cb == SigInt /\ UNCHANGED serverVars

LoopExit == LoopTimer /\ UNCHANGED serverVars

(* A peer says its n-th byte only after it has heard Await[s][n] bytes: a   *)
(* SOCKS client waits for the answer to its greeting and to its request,    *)
(* unless it sends ahead of them.                                           *)
MayTalk(c, s) ==
  LET n == Len(peer[c][s].sent) + 1 IN
  n <= Len(Stream[s]) => Len(peer[c][s].got) >= Await[s][n]

NetworkStep(c, s) ==
  \/ PeerSend(c, s) /\ MayTalk(c, s) /\ UNCHANGED serverVars
  \/ (PeerFinish(c, s) \/ PeerReset(c, s)) /\ UNCHANGED serverVars
  \/ (SockRead(c, s) \/ SockEof(c, s)) /\ UNCHANGED serverVars
  \/ (SockWrite(c, s) \/ SockWriteFail(c, s)) /\ UNCHANGED serverVars
  \/ ConnectDone(c, s) /\ UNCHANGED serverVars

DecrefStep(c, s) == Decref(c, s) /\ UNCHANGED serverVars

Next ==
  \/ \E c \in Conn :
       \/ Accept(c)
       \/ AcceptSetupFails(c)
       \/ local_readcb(c)
       \/ local_eventcb(c)
       \/ \E s \in Side :
            remote_readcb(c, s) \/ NetworkStep(c, s) \/ DecrefStep(c, s)
  \/ listener_errorcb
  \/ signal_cb
  \/ LoopExit

Spec == Init /\ [][Next]_vars

Fairness ==
  /\ \A c \in Conn :
       /\ WF_vars(local_readcb(c))
       /\ WF_vars(local_eventcb(c))
       /\ \A s \in Side :
            /\ WF_vars(remote_readcb(c, s))
            /\ WF_vars(SockRead(c, s) /\ UNCHANGED serverVars)
            /\ WF_vars(SockEof(c, s) /\ UNCHANGED serverVars)
            /\ WF_vars(SockWrite(c, s) /\ UNCHANGED serverVars)
            /\ WF_vars(SockWriteFail(c, s) /\ UNCHANGED serverVars)
            /\ WF_vars(ConnectDone(c, s) /\ UNCHANGED serverVars)
            /\ WF_vars(DecrefStep(c, s))
  /\ WF_vars(LoopExit)

FairSpec == Spec /\ Fairness

(* A client that has something to say and need not wait for an answer says  *)
(* it.                                                                      *)
Talk(c) ==
  PeerSend(c, "local") /\ MayTalk(c, "local") /\ UNCHANGED serverVars

TalkingSpec == FairSpec /\ \A c \in Conn : WF_vars(Talk(c))
-----------------------------------------------------------------------------
(* server->remote_bev is NULL or a dialled bufferevent, buffers hold bytes   *)
(* (server.c:31-35, 177).                                                   *)
TypeOK ==
  /\ LibEventTypeOK
  /\ server \in [Conn -> ServerState]
  /\ remote_bev \in [Conn -> Dialled \cup {"null"}]
  /\ remote_addr \in [Conn -> [Dialled -> Seq(Byte)]]

(* What a client that has said bytes has said in the clear.                 *)
Said(c) == decode_data(peer[c]["local"].sent, password)

(* Whatever a destination hears is a piece of what the client said, in      *)
(* order and without gaps: the part that the second read of parse_socks5    *)
(* swallows is lost, but nothing after it (server.c:82, 194).               *)
DestinationHearsAPiece ==
  \A c \in Conn, s \in Dialled :
    LET n == Len(peer[c][s].got)
        said == Said(c) IN
    n > 0 => \E k \in 0 .. Len(said) - n :
               peer[c][s].got = SubSeq(said, k + 1, k + n)

(* What the client hears first is the answer to its greeting, then the      *)
(* answer to its request, and only then what the destination says           *)
(* (server.c:70-72, 188-190, 141).                                          *)
AnswersInOrder ==
  \A c \in Conn :
    remote_bev[c] # "again" =>
      IsPrefix(peer[c]["local"].got,
               encode_data(<<5, 0>> \o socks5_reply
                             \o peer[c]["remote"].sent, password))

(* The callback that is owed frees a remote_bev that it has not assigned     *)
(* (server.c:154, 159, 199).                                                *)
FreesUnassigned(c) ==
  LET local == bev[c]["local"] IN
  /\ local.st = "live" /\ "read" \in local.pend
  /\ parse_socks5(local).ret = -1

(* A dialled bufferevent does not outlive the local one, whose LsServer and *)
(* output buffer its callback uses, and nothing is used or freed after it   *)
(* has been freed (server.c:141, 144-146, 207-214), with one exception: the *)
(* unassigned pointer that is freed when parse_socks5 fails (server.c:199)  *)
(* may have any effect, and what the process does after that is left out.   *)
(* Through a connection with a second exchange it is not true.              *)
NoOrphan ==
  /\ proc = "undefined" => \E c \in Conn : FreesUnassigned(c)
  /\ \A c \in Conn, s \in Dialled :
       bev[c][s].st = "live" => bev[c]["local"].st = "live"

Relays(c) == server[c] = "live" /\ remote_bev[c] = "remote"

(* A connection is only relayed if both reads of parse_socks5 were full, so *)
(* that something was left to copy: the address is the one in the second    *)
(* read, the port what that read happens to end with (server.c:95, 103,     *)
(* 194).                                                                    *)
DialledAddress ==
  \A c \in Conn :
    Relays(c) =>
      remote_addr[c]["remote"]
        = SubSeq(Said(c), SOCKS_BUF + 5, SOCKS_BUF + 8)
            \o SubSeq(Said(c), 2 * SOCKS_BUF - 1, 2 * SOCKS_BUF)

(* Once something has been dialled, only what the client says can make the  *)
(* server crash; that either side goes away cannot (server.c:177, 202-210). *)
CrashesUndialledOrOnData ==
  proc = "crashed" =>
    \E c \in Conn :
      \/ \A s \in Dialled : bev[c][s].st = "none"
      \/ "read" \in bev[c]["local"].pend

(* "parse SOCKS5 to get remote addr" (server.c:41): a connection is relayed *)
(* to the address and the port of the request that follows the greeting.    *)
DialsWhatIsAsked ==
  \A c \in Conn :
    LET request == 2 + Said(c)[2] IN
    Relays(c) =>
      remote_addr[c]["remote"] = SubSeq(Said(c), request + 5, request + 10)

(* "SOCKS5 FINISH, START TRANSMIT" (server.c:192): a connection goes        *)
(* through one SOCKS5 exchange; what the client says later is relayed.      *)
OneExchange ==
  [][\A c \in Conn :
       remote_bev[c] # "null" => remote_bev'[c] = remote_bev[c]]_vars

(* The greeting of a client is in the input buffer, whole and alone.        *)
GreetingIsRead(c) ==
  LET bytes == decode_data(bev[c]["local"].input, password) IN
  /\ server[c] = "live" /\ bytes # <<>> /\ bytes = Said(c)
  /\ bytes[1] = 5 /\ Len(bytes) > 1 /\ Len(bytes) = 2 + bytes[2]

(* "parse SOCKS5 to get remote addr, and response" (server.c:41): once its  *)
(* greeting has arrived whole, a client that goes on with its request as    *)
(* soon as it is answered has its destination dialled, unless it goes away, *)
(* the dial fails or the process is told to stop.                           *)
ExchangeIsServed ==
  \A c \in Conn :
    GreetingIsRead(c)
      ~> \/ \E s \in Dialled : bev[c][s].st # "none"
         \/ peer[c]["local"].st # "open"
         \/ server[c] = "leaked"
         \/ proc \in {"exiting", "stopped"}
=============================================================================
