------------------------------ MODULE LibEvent ------------------------------
(***************************************************************************)
(* What the proxy relies on outside src/: libevent's event loop and its    *)
(* socket bufferevents (created with BEV_OPT_DEFER_CALLBACKS), the TCP     *)
(* stack below them and the programs at the far ends.  A connection c that *)
(* the program accepts has a bufferevent for each Side: the "local" one is *)
(* the accepted socket, the others are those the program dials for it.     *)
(*                                                                         *)
(* A callback of the program runs only from the event loop, so a callback  *)
(* is one step; what the loop does between two callbacks (read a socket,   *)
(* flush an output buffer, learn how a connect ended) is one step each.    *)
(***************************************************************************)
EXTENDS Password, FiniteSets, SequencesExt

CONSTANTS Conn,    \* the connections that may be opened to the program
          Side,    \* "local" and the dialled sides
          Stream,  \* [Side -> Seq(Byte)]: what each peer has to say
          MaxFds   \* how many descriptors the process may still open

ASSUME StreamAssumption == Stream \in [Side -> Seq(Byte)]

ASSUME MaxFdsAssumption == MaxFds \in Nat

VARIABLES proc,    \* the life of the process
          bev,     \* [Conn -> [Side -> Bev]]: struct bufferevent and its socket
          peer     \* [Conn -> [Side -> Peer]]: the program at the other end

(* "exiting": event_base_loopexit has been called and its timer runs.      *)
(* "killed": by SIGPIPE, which nothing ignores.  "crashed": an              *)
(* uninitialised pointer was passed to bufferevent_clear_free.              *)
(* "undefined": freed memory was used, or freed again.                      *)
ProcState == {"running", "exiting", "stopped", "killed", "crashed", "undefined"}

Running == proc \in {"running", "exiting"}

(* st: "held" once bufferevent_free has been called while a deferred run,   *)
(* queued or in progress, still has its reference to the bufferevent.       *)
(* rd: EV_READ is enabled.  wr: "off" when EV_WRITE is disabled, "armed"    *)
(* when ev_write is pending, "idle" otherwise.  pend: the callbacks the     *)
(* deferred run owes.  cbs: the callbacks that are set.                     *)
Bev == [st     : {"none", "live", "held", "freed"},
        cbs    : SUBSET {"read", "event"},
        pend   : SUBSET {"read", "event"},
        rd     : BOOLEAN,
        wr     : {"off", "idle", "armed"},
        sock   : {"closed", "connecting", "open", "broken", "failed"},
        input  : Seq(Byte),
        output : Seq(Byte)]

(* "shut": the peer has ended its sending side only.  "closed": it has     *)
(* closed its socket.  "reset": it has aborted the connection.  wire holds *)
(* the bytes the peer has sent and the proxy's loop has not yet read.      *)
Peer == [st   : {"open", "shut", "closed", "reset"},
         wire : Seq(Byte),
         sent : Seq(Byte),
         got  : Seq(Byte)]

NoBev == [st |-> "none", cbs |-> {}, pend |-> {}, rd |-> FALSE, wr |-> "off",
          sock |-> "closed", input |-> <<>>, output |-> <<>>]

NewPeer == [st |-> "open", wire |-> <<>>, sent |-> <<>>, got |-> <<>>]

(* bufferevent_socket_new, bufferevent_setcb and                            *)
(* bufferevent_enable(EV_READ | EV_WRITE) on a socket in state sock.        *)
NewBev(sock, cbs) ==
  [NoBev EXCEPT !.st = "live", !.cbs = cbs, !.rd = TRUE, !.wr = "idle",
                !.sock = sock]

(* The last reference is gone: the socket is closed and what the buffers    *)
(* still hold is dropped.  libevent 2.1 does this in the next round of the  *)
(* loop; here the memory is gone at once, which only makes using it easier  *)
(* to go wrong.                                                             *)
Destroyed == [NoBev EXCEPT !.st = "freed"]

(* bufferevent_setcb(NULL) and bufferevent_free: no callback is called      *)
(* again.  A callback is owed exactly when the deferred run is queued, and  *)
(* the queued run has a reference that it keeps until it has ended; free    *)
(* disables nothing, so the socket is served until then.                    *)
Released(b) ==
  IF b.pend = {} THEN Destroyed ELSE [b EXCEPT !.st = "held", !.cbs = {}]

(* The run that has called b's callbacks gives up its reference.            *)
EndRun(b) == IF b.st = "held" THEN Destroyed ELSE [b EXCEPT !.pend = {}]

(* bufferevent_write: the data joins the output buffer; ev_write is armed   *)
(* again unless EV_WRITE is disabled.                                       *)
AddOutput(b, data) ==
  [b EXCEPT !.output = @ \o data, !.wr = IF @ = "idle" THEN "armed" ELSE @]

(* bufferevent_run_readcb_ and bufferevent_run_eventcb_ only mark the       *)
(* callback as owed, and do nothing when it is not set.                     *)
Owe(b, cb) == b.pend \cup ({cb} \cap b.cbs)

Drop(s, k) == SubSeq(s, k + 1, Len(s))

(* BEV_OPT_CLOSE_ON_FREE: a bufferevent owns its descriptor until it is     *)
(* destroyed.                                                               *)
FdsInUse ==
  Cardinality({h \in Conn \X Side : bev[h[1]][h[2]].st \in {"live", "held"}})

(* Callbacks may be called.                                                 *)
LiveBev(c, s) == Running /\ bev[c][s].st = "live"

(* The socket is served.                                                    *)
OpenBev(c, s) == Running /\ bev[c][s].st \in {"live", "held"}
-----------------------------------------------------------------------------
(* The programs at the far ends.                                            *)

PeerSend(c, s) ==
  LET n == Len(peer[c][s].sent) + 1 IN
  /\ OpenBev(c, s) /\ bev[c][s].sock = "open" /\ peer[c][s].st = "open"
  /\ n <= Len(Stream[s])
  /\ peer' = [peer EXCEPT ![c][s].sent = Append(@, Stream[s][n]),
                          ![c][s].wire = Append(@, Stream[s][n])]
  /\ UNCHANGED <<proc, bev>>

PeerFinish(c, s) ==
  /\ OpenBev(c, s) /\ bev[c][s].sock = "open"
  /\ \E st \in {"shut", "closed"} :
       /\ peer[c][s].st = "open" \/ (peer[c][s].st = "shut" /\ st = "closed")
       /\ peer' = [peer EXCEPT ![c][s].st = st]
  /\ UNCHANGED <<proc, bev>>

(* Bytes the proxy has not read when the reset arrives may be lost.         *)
PeerReset(c, s) ==
  /\ OpenBev(c, s) /\ bev[c][s].sock = "open"
  /\ peer[c][s].st \in {"open", "shut"}
  /\ \E k \in 0 .. Len(peer[c][s].wire) :
       peer' = [peer EXCEPT ![c][s].st = "reset",
                            ![c][s].wire = SubSeq(@, 1, k)]
  /\ bev' = [bev EXCEPT ![c][s].sock = "broken"]
  /\ UNCHANGED proc
-----------------------------------------------------------------------------
(* bufferevent_readcb: some of the waiting bytes reach the input buffer.    *)
SockRead(c, s) ==
  /\ OpenBev(c, s) /\ bev[c][s].rd
  /\ \E k \in 1 .. Len(peer[c][s].wire) :
       /\ bev' = [bev EXCEPT
                    ![c][s].input = @ \o SubSeq(peer[c][s].wire, 1, k),
                    ![c][s].pend = Owe(bev[c][s], "read")]
       /\ peer' = [peer EXCEPT ![c][s].wire = Drop(@, k)]
  /\ UNCHANGED proc

(* bufferevent_readcb at end of file or on an error: reading is disabled    *)
(* and the event callback is owed, if there is one; the read callback is    *)
(* not.                                                                     *)
SockEof(c, s) ==
  /\ OpenBev(c, s) /\ bev[c][s].rd /\ peer[c][s].wire = <<>>
  /\ peer[c][s].st \in {"shut", "closed"} \/ bev[c][s].sock = "broken"
  /\ bev' = [bev EXCEPT ![c][s].rd = FALSE,
                        ![c][s].pend = Owe(bev[c][s], "event")]
  /\ UNCHANGED <<proc, peer>>

(* bufferevent_writecb: the kernel takes some of the output.  A peer that   *)
(* has closed its socket answers with a reset instead of reading.           *)
SockWrite(c, s) ==
  /\ OpenBev(c, s) /\ bev[c][s].wr = "armed" /\ bev[c][s].sock = "open"
  /\ \E k \in 1 .. Len(bev[c][s].output) :
       LET rest == Drop(bev[c][s].output, k)
           hears == peer[c][s].st # "closed" IN
       /\ bev' = [bev EXCEPT
                    ![c][s].output = rest,
                    ![c][s].wr = IF rest = <<>> THEN "idle" ELSE "armed",
                    ![c][s].sock = IF hears THEN "open" ELSE "broken"]
       /\ peer' = IF hears
                    THEN [peer EXCEPT ![c][s].got =
                            @ \o SubSeq(bev[c][s].output, 1, k)]
                    ELSE peer
  /\ UNCHANGED proc

(* bufferevent_writecb on a socket without a connection: the write raises   *)
(* SIGPIPE, unless the error of the reset has not been reported yet and is  *)
(* what the write returns; then writing is disabled and the event callback  *)
(* owed, if there is one.                                                   *)
SockWriteFail(c, s) ==
  /\ OpenBev(c, s) /\ bev[c][s].wr = "armed"
  /\ \/ /\ bev[c][s].sock \in {"broken", "failed"}
        /\ proc' = "killed"
        /\ UNCHANGED bev
     \/ /\ bev[c][s].sock = "broken"
        /\ bev' = [bev EXCEPT ![c][s].wr = "off",
                              ![c][s].pend = Owe(bev[c][s], "event")]
        /\ UNCHANGED proc
  /\ UNCHANGED peer

(* bufferevent_writecb completes a connect.  On failure both events are     *)
(* deleted but EV_WRITE stays enabled, so the next bufferevent_write arms   *)
(* ev_write again; when the read side has already consumed the error,       *)
(* writecb takes the connect for a success and ev_write stays armed.        *)
ConnectDone(c, s) ==
  /\ OpenBev(c, s) /\ bev[c][s].sock = "connecting"
  /\ \/ bev' = [bev EXCEPT ![c][s].sock = "open"]
     \/ \E wr \in {"idle", bev[c][s].wr} :
          bev' = [bev EXCEPT ![c][s].sock = "failed", ![c][s].rd = FALSE,
                             ![c][s].wr = wr]
  /\ UNCHANGED <<proc, peer>>

(* The deferred run of a bufferevent freed meanwhile: there is no callback  *)
(* left to call.                                                            *)
Decref(c, s) ==
  /\ Running /\ bev[c][s].st = "held"
  /\ bev' = [bev EXCEPT ![c][s] = Destroyed]
  /\ UNCHANGED <<proc, peer>>

(* SIGINT is delivered, and one second later the loop ends.  Until then     *)
(* everything goes on.                                                      *)
SigInt ==
  /\ proc = "running"
  /\ proc' = "exiting"
  /\ UNCHANGED <<bev, peer>>

LoopTimer ==
  /\ proc = "exiting"
  /\ proc' = "stopped"
  /\ UNCHANGED <<bev, peer>>

(* accept fails for want of a descriptor and the listener's error callback  *)
(* runs.                                                                    *)
AcceptError ==
  /\ Running /\ FdsInUse >= MaxFds
  /\ proc' = "stopped"
  /\ UNCHANGED <<bev, peer>>

Network(c, s) ==
  \/ PeerSend(c, s)
  \/ PeerFinish(c, s)
  \/ PeerReset(c, s)
  \/ SockRead(c, s)
  \/ SockEof(c, s)
  \/ SockWrite(c, s)
  \/ SockWriteFail(c, s)
  \/ ConnectDone(c, s)

LibEventInit ==
  /\ proc = "running"
  /\ bev = [c \in Conn |-> [s \in Side |-> NoBev]]
  /\ peer = [c \in Conn |-> [s \in Side |-> NewPeer]]

LibEventTypeOK ==
  /\ proc \in ProcState
  /\ bev \in [Conn -> [Side -> Bev]]
  /\ peer \in [Conn -> [Side -> Peer]]
=============================================================================
