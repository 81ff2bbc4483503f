------------------------------ MODULE MCServer ------------------------------
(* Instances of Server for TLC.  Bytes are 0 .. 10, so that VER, CMD, ATYP   *)
(* and NMETHODS fit; SOCKS_BUF = 11 is, as 257 is in the code, the length   *)
(* of the longest greeting and more than a request of ATYP 1.               *)
EXTENDS Server

MCPassword == [b \in Byte |-> (b + 1) % PASS_LENGTH]

Encoded(local, remote) ==
  [s \in Side |-> IF s = "local" THEN encode_data(local, MCPassword)
                  ELSE IF s = "remote" THEN remote ELSE <<>>]

ShortGreeting == <<5, 1, 0>>

LongGreeting == <<5, 9, 0, 2, 2, 2, 2, 2, 2, 2, 2>>

Request == <<5, 1, 0, 1, 7, 8, 9, 6, 3, 4>>

(* A client that waits for each answer.                                     *)
Waiting == Encoded(ShortGreeting \o Request \o <<9>>, <<>>)

AwaitAnswers ==
  [s \in Side |->
     [n \in 1 .. Len(Waiting[s]) |->
        IF s # "local" \/ n <= 3 THEN 0 ELSE IF n <= 13 THEN 2 ELSE 12]]

(* A client that sends everything at once, three bytes of payload included,  *)
(* to a destination that answers with one byte.                             *)
Ahead == Encoded(LongGreeting \o Request \o <<9, 10, 8>>, <<3>>)

AwaitNothing(stream) == [s \in Side |-> [n \in 1 .. Len(stream[s]) |-> 0]]

AheadAwait == AwaitNothing(Ahead)

(* Its payload is a second exchange.                                        *)
Twice == Encoded(LongGreeting \o Request \o <<9, 10>>
                   \o LongGreeting \o Request \o <<9, 10>>, <<3>>)

TwiceAwait ==
  [s \in Side |-> [n \in 1 .. Len(Twice[s]) |->
     IF s = "local" /\ n > 23 THEN 12 ELSE 0]]
=============================================================================
