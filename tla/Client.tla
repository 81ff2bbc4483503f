------------------------------- MODULE Client -------------------------------
(***************************************************************************)
(* client/client.c: the proxy beside the application.  It listens, dials   *)
(* the other proxy once per accepted connection and relays: what the       *)
(* application says is encoded, what the other proxy says is decoded.      *)
(***************************************************************************)
EXTENDS SecureSocket

CONSTANT password   \* ss->password->x, fixed before the listener exists

ASSUME PasswordAssumption == password \in Table

ASSUME SideAssumption == Side = {"local", "remote"}

VARIABLE client   \* [Conn -> ...]: the Client struct of each connection

vars == <<proc, bev, peer, client>>

(* "leaked": no bufferevent refers to the struct any more, yet it has not   *)
(* been freed.                                                              *)
ClientState == {"none", "live", "freed", "leaked"}

Init ==
  /\ LibEventInit
  /\ client = [c \in Conn |-> "none"]

(* Mutant of local_cbs: no event callback.                                  *)
local_cbs_without_event == {"read"}

local_cbs == {"read", "event"}
remote_cbs == {"read"}        \* remote_bev is given no event callback

Other(s) == IF s = "local" THEN "remote" ELSE "local"

(* The two bufferevents of a connection.                                    *)
Pair(local, remote) ==
  [s \in Side |-> IF s = "local" THEN local ELSE remote]

(* Mutant of ReleasePair: only bev.                                         *)
ReleaseOwn(c, s, pair) ==
  /\ bev' = [bev EXCEPT ![c] =
                [pair EXCEPT ![s] = EndRun(bufferevent_clear_free(@))]]
  /\ UNCHANGED proc

(* A callback of side s frees both bufferevents, and the deferred run that  *)
(* called it ends.  The callback's own bufferevent is used after that:      *)
(* local_eventcb asks it for its descriptor (client.c:75), and the run      *)
(* still looks for other callbacks it owes.  Only the reference of that run *)
(* makes this harmless; had free destroyed the bufferevent, it would be a   *)
(* use after free.                                                          *)
ReleasePair(c, s, pair) ==
  LET left == [t \in Side |-> bufferevent_clear_free(pair[t])] IN
  IF left[s].st = "freed" THEN
    /\ proc' = "undefined"
    /\ UNCHANGED bev
  ELSE
    /\ bev' = [bev EXCEPT ![c] = [left EXCEPT ![s] = EndRun(@)]]
    /\ UNCHANGED proc
-----------------------------------------------------------------------------
(* Mutants of Accept.  remote_bev may not write until it is connected, and  *)
(* nobody enables it then.                                                  *)
AcceptWriteOff(c) ==
  /\ Running /\ client[c] = "none"
  /\ FdsInUse + 2 <= MaxFds
  /\ bev' = [bev EXCEPT ![c] =
       Pair(NewBev("open", local_cbs),
            [NewBev("connecting", remote_cbs) EXCEPT !.wr = "off"])]
  /\ client' = [client EXCEPT ![c] = "live"]
  /\ UNCHANGED <<proc, peer>>

(* remote_bev is not enabled for reading.                                   *)
AcceptReadOff(c) ==
  /\ Running /\ client[c] = "none"
  /\ FdsInUse + 2 <= MaxFds
  /\ bev' = [bev EXCEPT ![c] =
       Pair(NewBev("open", local_cbs),
            [NewBev("connecting", remote_cbs) EXCEPT !.rd = FALSE])]
  /\ client' = [client EXCEPT ![c] = "live"]
  /\ UNCHANGED <<proc, peer>>

(* local_listener_cb.  accept has succeeded, so one descriptor is left; the *)
(* socket of remote_bev needs a second one.  A connect that ends at once,   *)
(* well or badly, is a ConnectDone that follows immediately.                *)
Accept(c) ==
  /\ Running /\ client[c] = "none"
  /\ FdsInUse + 2 <= MaxFds
  /\ bev' = [bev EXCEPT ![c] =
       Pair(NewBev("open", local_cbs), NewBev("connecting", remote_cbs))]
  /\ client' = [client EXCEPT ![c] = "live"]
  /\ UNCHANGED <<proc, peer>>

(* rc = -1: no descriptor for the socket, no route, ...; or SO_LINGER fails *)
(* on it.  Both bufferevents are freed, the Client that calloc returned is  *)
(* not (client.c:94, 124-127).                                              *)
AcceptDialFails(c) ==
  /\ Running /\ client[c] = "none"
  /\ FdsInUse + 1 <= MaxFds
  /\ bev' = [bev EXCEPT ![c] =
       Pair(bufferevent_clear_free(NoBev), bufferevent_clear_free(NoBev))]
  /\ client' = [client EXCEPT ![c] = "leaked"]
  /\ UNCHANGED <<proc, peer>>

(* fcntl or setsockopt fails on the accepted socket (some systems refuse    *)
(* SO_LINGER once the peer has reset it): the error path frees bufev and    *)
(* remote_bev before either has been assigned.                              *)
AcceptSetupFails(c) ==
  /\ Running /\ client[c] = "none"
  /\ FdsInUse + 1 <= MaxFds
  /\ proc' = "crashed"
  /\ UNCHANGED <<bev, peer, client>>

(* listener_errorcb breaks the loop and main returns 0.                     *)
listener_errorcb == AcceptError /\ UNCHANGED client
-----------------------------------------------------------------------------
(* A callback reaches the other bufferevent through the Client struct.      *)
ContextAlive(c) ==
  /\ client[c] = "live"
  /\ \A s \in Side : bev[c][s].st = "live"

(* The deferred run of the local bufferevent: local_readcb if it is owed,   *)
(* then local_eventcb if it is owed and local_readcb has not freed the      *)
(* bufferevents.  local_eventcb acts on any event, for `events && (...)` is *)
(* true of every non-zero events; it frees the Client, local_readcb never.  *)
RunLocal(c) ==
  LET due  == bev[c]["local"].pend
      copy == encode_copy(password, bev[c]["remote"], bev[c]["local"])
      readFails == "read" \in due /\ copy.ret = -1
      after == IF "read" \in due THEN Pair(copy.src, copy.dst) ELSE bev[c] IN
  /\ LiveBev(c, "local") /\ due # {}
  /\ IF ~ContextAlive(c) THEN
       /\ proc' = "undefined"
       /\ UNCHANGED <<bev, client>>
     ELSE IF readFails \/ "event" \in due THEN
       /\ ReleasePair(c, "local", after)
       /\ client' = [client EXCEPT ![c] =
                       IF readFails THEN "leaked" ELSE "freed"]
     ELSE
       /\ bev' = [bev EXCEPT ![c] = [after EXCEPT !["local"] = EndRun(@)]]
       /\ UNCHANGED <<proc, client>>
  /\ UNCHANGED peer

(* The deferred run of the remote bufferevent: remote_readcb.               *)
RunRemote(c) ==
  LET copy == decode_copy(password, bev[c]["local"], bev[c]["remote"]) IN
  /\ LiveBev(c, "remote") /\ bev[c]["remote"].pend # {}
  /\ IF ~ContextAlive(c) THEN
       /\ proc' = "undefined"
       /\ UNCHANGED <<bev, client>>
     ELSE IF copy.ret = -1 THEN
       /\ ReleasePair(c, "remote", bev[c])
       /\ client' = [client EXCEPT ![c] = "leaked"]
     ELSE
       /\ bev' = [bev EXCEPT ![c] = Pair(copy.dst, EndRun(copy.src))]
       /\ UNCHANGED <<proc, client>>
  /\ UNCHANGED peer
-----------------------------------------------------------------------------
(* signal_cb: event_base_loopexit with a delay of one second.               *)
signal_cb == SigInt /\ UNCHANGED client

LoopExit == LoopTimer /\ UNCHANGED client

NetworkStep(c, s) == Network(c, s) /\ UNCHANGED client

DecrefStep(c, s) == Decref(c, s) /\ UNCHANGED client

Next ==
  \/ \E c \in Conn :
       \/ Accept(c)
       \/ AcceptDialFails(c)
       \/ AcceptSetupFails(c)
       \/ RunLocal(c)
       \/ RunRemote(c)
       \/ \E s \in Side : NetworkStep(c, s) \/ DecrefStep(c, s)
  \/ listener_errorcb
  \/ signal_cb
  \/ LoopExit

Spec == Init /\ [][Next]_vars

(* What the loop does of its own accord: a ready socket is served, an owed  *)
(* callback runs, a connect ends (TCP gives up after its retries), a timer  *)
(* fires.  Nothing is assumed of the peers or of the listener.              *)
Fairness ==
  /\ \A c \in Conn :
       /\ WF_vars(RunLocal(c))
       /\ WF_vars(RunRemote(c))
       /\ \A s \in Side :
            /\ WF_vars(SockRead(c, s) /\ UNCHANGED client)
            /\ WF_vars(SockEof(c, s) /\ UNCHANGED client)
            /\ WF_vars(SockWrite(c, s) /\ UNCHANGED client)
            /\ WF_vars(SockWriteFail(c, s) /\ UNCHANGED client)
            /\ WF_vars(ConnectDone(c, s) /\ UNCHANGED client)
            /\ WF_vars(DecrefStep(c, s))
  /\ WF_vars(LoopExit)

FairSpec == Spec /\ Fairness
-----------------------------------------------------------------------------
(* How bytes that side s says must reach the other side.                    *)
Coded(s, bytes) ==
  IF s = "local" THEN encode_data(bytes, password)
                 ELSE decode_data(bytes, password)

(* What side s has said and the other side may still hear, oldest first.    *)
InFlight(c, s) ==
  bev[c][Other(s)].output
    \o Coded(s, bev[c][s].input) \o Coded(s, peer[c][s].wire)

(* A Client is in one state of its life, buffers and wires hold bytes       *)
(* (client.c:28-31).                                                        *)
TypeOK ==
  /\ LibEventTypeOK
  /\ client \in [Conn -> ClientState]

(* The two bufferevents of a connection are freed together, whichever side   *)
(* ends first and also when dialling fails: a descriptor outlives its       *)
(* connection at most until the deferred run that is still queued for it    *)
(* has ended, and no callback stays set on a bufferevent whose Client is    *)
(* gone (client.c:42-46, 56-60, 63-72, 116-128).  Nothing is said of the    *)
(* memory of the Client: that of a connection whose dial failed is leaked   *)
(* (client.c:94, 124-127).                                                  *)
Lifecycle ==
  \A c \in Conn, s \in Side :
    LET b == bev[c][s] IN
    /\ client[c] \in {"none", "live"} => b.st = client[c]
    /\ client[c] \in {"freed", "leaked"} =>
         b.st = "freed" \/ (b.st = "held" /\ b.pend # {})
    /\ b.cbs # {} => client[c] = "live"

(* No callback ever dereferences a freed Client or uses a bufferevent that   *)
(* has been destroyed, neither another one's (client.c:38, 56) nor its own  *)
(* after freeing it (client.c:68, 75): whenever a callback frees its own    *)
(* bufferevent, the deferred run that called it still holds it.             *)
NoUseAfterFree == proc # "undefined"

(* The read callbacks always find data: that is what keeps the "close all"  *)
(* path of the copy routines (securesocket.c:49-52, 78-81) from freeing a   *)
(* healthy connection; and no byte waits in an input buffer without a       *)
(* callback that is owed to it.                                             *)
ReadOwedIffInput ==
  \A c \in Conn, s \in Side :
    "read" \in bev[c][s].pend <=> bev[c][s].input # <<>>

(* Output never waits for a write event that nobody will deliver, unless    *)
(* the socket has failed.                                                   *)
NoStalledOutput ==
  \A c \in Conn, s \in Side :
    /\ bev[c][s].wr = "armed" => bev[c][s].output # <<>>
    /\ bev[c][s].output # <<>> /\ bev[c][s].wr # "armed" =>
         bev[c][s].sock \in {"broken", "failed"}

(* Each peer hears a prefix of what the other said, through the cipher, in   *)
(* every state, the aborted ones included (client.c:41-42, 55-56).          *)
StreamIntegrity ==
  \A c \in Conn, s \in Side :
    IsPrefix(peer[c][Other(s)].got, Coded(s, peer[c][s].sent))

(* While a connection is up every byte said is either heard or accounted    *)
(* for in a buffer, unless its sender aborted or its hearer stopped         *)
(* listening: however the reads, writes and callbacks interleave, nothing   *)
(* is lost, doubled or reordered.                                           *)
NothingLostWhileUp ==
  \A c \in Conn, s \in Side :
    (client[c] = "live" /\ peer[c][s].st # "reset"
       /\ peer[c][Other(s)].st # "closed")
      => peer[c][Other(s)].got \o InFlight(c, s) = Coded(s, peer[c][s].sent)

(* A Client that has been set up is never leaked: only local_eventcb ends   *)
(* it, although both read callbacks have an error path that would forget    *)
(* it (client.c:44-46, 58-60).                                              *)
SetUpClientIsFreed ==
  [][\A c \in Conn : client[c] = "live" => client'[c] \in {"live", "freed"}]_vars

(* The client program implements the abstract relay.  A connection is over  *)
(* when its last bufferevent has been destroyed: one that a deferred run    *)
(* still holds may flush some of its output yet.                            *)
R == INSTANCE Relay WITH
       phase <- [c \in Conn |->
                   IF client[c] = "none" THEN "idle"
                   ELSE IF \E s \in Side : bev[c][s].st \in {"live", "held"}
                     THEN "up" ELSE "over"],
       said  <- [c \in Conn |-> [s \in Side |-> peer[c][s].sent]],
       heard <- [c \in Conn |-> [s \in Side |-> peer[c][s].got]]

ImplementsRelay == R!Spec

(* Once the application has closed, half-closed or aborted its connection,  *)
(* both sockets are closed and both bufferevents destroyed                  *)
(* (client.c:63-72), unless the process ends first.                         *)
LocalEndReleases ==
  \A c \in Conn :
    (client[c] = "live" /\ peer[c]["local"].st # "open")
      ~> ((\A s \in Side : bev[c][s].st = "freed") \/ ~Running)

(* What a peer has said is heard in full by the other one, unless one of    *)
(* the two stops, the dial fails, the connection is released or the process *)
(* ends.                                                                    *)
Delivery ==
  \A c \in Conn, s \in Side :
    (client[c] = "live" /\ peer[c][s].sent = Stream[s])
      ~> \/ peer[c][Other(s)].got = Coded(s, Stream[s])
         \/ client[c] # "live"
         \/ ~Running
         \/ bev[c]["remote"].sock = "failed"
         \/ \E t \in Side : peer[c][t].st \in {"closed", "reset"}

(* What the comment "close all" (securesocket.c:50) and the message         *)
(* "close all connection" (client.c:42) say: when the other proxy ends the  *)
(* connection and no more data comes, the application's side is closed too. *)
RemoteEndReleases ==
  \A c \in Conn :
    (client[c] = "live" /\ peer[c]["remote"].st # "open")
      ~> (client[c] # "live" \/ ~Running)
=============================================================================
