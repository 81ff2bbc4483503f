------------------------------- MODULE Relay -------------------------------
(***************************************************************************)
(* What one proxy promises, without buffers, sockets or callbacks: two     *)
(* byte streams per connection, each passed on in order, without gaps and  *)
(* transformed by the cipher; what the local side says is encoded, what    *)
(* the remote side says is decoded; nothing is heard once the connection   *)
(* is over, and a connection that is over never comes back.                *)
(***************************************************************************)
EXTENDS Password

CONSTANTS Conn, password

VARIABLES phase,   \* [Conn -> {"idle", "up", "over"}]
          said,    \* [Conn -> [End -> Seq(Byte)]], by the peer of that side
          heard    \* [Conn -> [End -> Seq(Byte)]], by the peer of that side

vars == <<phase, said, heard>>

End == {"local", "remote"}

Other(s) == IF s = "local" THEN "remote" ELSE "local"

(* What the other side must hear when side s says bytes.                    *)
Coded(s, bytes) ==
  IF s = "local" THEN encode_data(bytes, password)
                 ELSE decode_data(bytes, password)

Init ==
  /\ phase = [c \in Conn |-> "idle"]
  /\ said = [c \in Conn |-> [s \in End |-> <<>>]]
  /\ heard = [c \in Conn |-> [s \in End |-> <<>>]]

Open(c) ==
  /\ phase[c] = "idle"
  /\ \E p \in {"up", "over"} : phase' = [phase EXCEPT ![c] = p]
  /\ UNCHANGED <<said, heard>>

Say(c, s) ==
  /\ phase[c] = "up"
  /\ \E b \in Byte : said' = [said EXCEPT ![c][s] = Append(@, b)]
  /\ UNCHANGED <<phase, heard>>

Hear(c, s) ==
  LET bytes == said[c][Other(s)] IN
  /\ phase[c] = "up"
  /\ \E n \in Len(heard[c][s]) + 1 .. Len(bytes) :
       heard' = [heard EXCEPT ![c][s] = Coded(Other(s), SubSeq(bytes, 1, n))]
  /\ UNCHANGED <<phase, said>>

Release(c) ==
  /\ phase[c] = "up"
  /\ phase' = [phase EXCEPT ![c] = "over"]
  /\ UNCHANGED <<said, heard>>

Next ==
  \E c \in Conn :
    \/ Open(c)
    \/ Release(c)
    \/ \E s \in End : Say(c, s) \/ Hear(c, s)

Spec == Init /\ [][Next]_vars
=============================================================================
