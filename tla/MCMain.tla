------------------------------- MODULE MCMain -------------------------------
(* The two programs side by side for TLC, and the texts that the            *)
(* configuration file of the client may hold.  Ports have two bits and ints *)
(* four, addresses three; numbers are in halves.                            *)
EXTENDS ClientConfig, ServerMain

VARIABLE program

Init ==
  \/ /\ program = "client" /\ ClientInit /\ x = << >>
  \/ /\ program = "server" /\ ServerInit
     /\ file = << >> /\ config = NULL /\ conf = NoConf
     /\ ports = [local |-> 0, remote |-> 0] /\ s_addr = 0

ClientStep == program = "client" /\ ClientNext /\ UNCHANGED <<program, x>>

ServerStep == program = "server" /\ ServerNext /\ unconfigured
                /\ UNCHANGED program

Next == ClientStep \/ ServerStep

vars ==
  <<main, mem, proc, code, file, config, conf, ports, s_addr, x, program>>

Spec == Init /\ [][Next]_vars

Config(local, addr, remote, pass) ==
  ObjectText(Member("local_port", local) \o Comma
               \o Member("server_addr", addr) \o Comma
               \o Member("server_port", remote) \o Comma
               \o Member("password", pass))

Good == Config(JSONNumber(5), JSONString("addr"), JSONNumber(2),
               JSONString("good"))

Numbers == {0, 2, 5, 7, 8, 11, 15, 100, -1, -4}

(* The address of a server, and the one that is also the error; "host" is   *)
(* not here.                                                                *)
MCNumeric == [cp \in {"addr", "broadcast"} |-> IF cp = "addr" THEN 1 ELSE 7]

(* Files whose numbers and strings differ.                                  *)
Values ==
  {Config(JSONNumber(local), JSONString("addr"), JSONNumber(remote),
          JSONString("good")) : local \in Numbers, remote \in {2, 9, 100}}
  \cup {Config(JSONNumber(5), JSONString(addr), JSONNumber(2),
               JSONString(pass)) : addr \in {"addr", "broadcast", "host"},
                                   pass \in {"good", "short", "lone"}}

Tokens ==
  Punctuation \cup {Other, Minus, JSONString("password"), JSONString("addr"),
                    JSONNumber(2), JSONBoolean(TRUE), JSONNull}

(* Files that differ from a good one by one token.                          *)
Edited ==
  UNION {{SubSeq(Good, 1, k - 1) \o SubSeq(Good, k + 1, Len(Good))}
           \cup {[Good EXCEPT ![k] = token] : token \in Tokens}
           \cup {SubSeq(Good, 1, k) \o <<token>>
                   \o SubSeq(Good, k + 1, Len(Good)) : token \in Tokens} :
         k \in DOMAIN Good}

(* Files with one more member, or one member another value.                 *)
Inserted ==
  LET more == {<<JSONNumber(2)>>,
               <<[type |-> "["], [type |-> "]"]>>,
               <<[type |-> "["], JSONNumber(2), [type |-> "]"]>>,
               <<[type |-> "{"], [type |-> "}"]>>,
               <<[type |-> "{"]>> \o Member("password", JSONString("good"))
                  \o <<[type |-> "}"]>>}
  IN  {SubSeq(Good, 1, 16) \o Comma
         \o <<JSONString(name), [type |-> ":"]>> \o value \o <<[type |-> "}"]>> :
         name \in {"password", "addr"}, value \in more}
      \cup {SubSeq(Good, 1, 15) \o value \o <<[type |-> "}"]>> : value \in more}

(* Short files: what starts with a bracket and has up to five tokens, each  *)
(* a string or punctuation, and all of up to three.                         *)
Few == Punctuation \cup {JSONString("password")}

Short ==
  UNION {[1 .. n -> Few] : n \in 0 .. 3}
    \cup {<<open>> \o rest : open \in [type : {"{", "["}],
                            rest \in UNION {[1 .. n -> Few] : n \in 3 .. 4}}

MCFiles == Values \cup Edited \cup Inserted \cup Short
             \cup {<<Minus>>, <<Minus, JSONNumber(2)>>}
=============================================================================
