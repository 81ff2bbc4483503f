----------------------------- MODULE MainProofs -----------------------------
(***************************************************************************)
(* What main of the client and main of the server own at every statement,  *)
(* for every configuration file, every range of ports and integers, and    *)
(* whatever parson makes of a text, as long as json_validate finds the     *)
(* strings that it is asked for.                                           *)
(***************************************************************************)
EXTENDS ClientMain, ServerMain, TLAPS

(* The statements of main of the client, in their order.                    *)
Early == {"check(argc)", "ss=calloc()"}

Parses == {"data=json_parse_file()", "check(data)", "get",
           "ss->password=gen_password_by_string()"}

Connects == {"addresses", "base=event_base_new()"}

Listens == {"listener=evconnlistener_new_bind()",
            "evconnlistener_set_error_cb(listener)"}

Drops == {"password_string(password)", "json_value_free(schema)",
          "json_value_free(data)", "signal_event=evsignal_new()",
          "event_base_dispatch(base)"}

Setup == Parses \cup Connects \cup Listens \cup Drops

FreesJson == {"if(schema)", "if(data)"}

Ending == {"securesocket_free(ss)", "if(listener)", "if(signal_event)",
         "event_base_free(base)", "return"}

(* Nothing has been allocated; the automatic variables hold anything.       *)
Fresh == mem = [p \in Pointer |-> IF p \in Automatic THEN "garbage" ELSE "null"]

Are(pointers, state) == \A p \in pointers : mem[p] = state

(* The password is there exactly if the string has decoded to one.          *)
PasswordDecoded ==
  IF conf.password_str \in Passwords
    THEN mem["password"] = "live" ELSE mem["password"] = "null"

(* What main owns on the way to the loop.                                   *)
SetupOwns ==
  /\ code = 0 /\ mem["ss"] = "live"
  /\ mem["password"] = "null" \/ main \notin Parses
  /\ main \in Connects \cup Listens \cup {"password_string(password)"} =>
       PasswordDecoded
  /\ main \in Drops \ {"password_string(password)"} => mem["password"] = "live"
  /\ mem["schema"] = IF main \in {"json_value_free(data)",
                                  "signal_event=evsignal_new()",
                                  "event_base_dispatch(base)"}
                       THEN "freed" ELSE "live"
  /\ CASE main = "data=json_parse_file()" -> mem["data"] = "null"
       [] main = "check(data)" -> mem["data"] \in {"null", "live"}
       [] main \in {"signal_event=evsignal_new()",
                    "event_base_dispatch(base)"} -> mem["data"] = "freed"
       [] OTHER -> mem["data"] = "live"
  /\ mem["base"] = IF main \in Listens \cup Drops THEN "live" ELSE "null"
  /\ CASE main = "evconnlistener_set_error_cb(listener)" ->
            mem["listener"] \in {"null", "live"}
       [] main \in Drops -> mem["listener"] = "live"
       [] OTHER -> mem["listener"] = "null"
  /\ mem["signal_event"] =
       IF main = "event_base_dispatch(base)" THEN "live" ELSE "null"

(* What is left after a failure that came before there was a base.          *)
FailedOwns ==
  /\ Are({"base", "listener", "signal_event"}, "null")
  /\ mem["ss"] = IF main \in FreesJson \cup {"securesocket_free(ss)"}
                   THEN "live" ELSE "freed"
  /\ mem["password"] \in {"null", mem["ss"]}
  /\ mem["schema"] = IF main = "if(schema)" THEN "live" ELSE "freed"
  /\ mem["data"] \in {"null", IF main \in FreesJson THEN "live" ELSE "freed"}

(* What is left after the loop.                                             *)
EndedOwns ==
  /\ main \in Ending
  /\ Are({"schema", "data"}, "freed")
  /\ Are({"ss", "password"},
         IF main = "securesocket_free(ss)" THEN "live" ELSE "freed")
  /\ mem["listener"] = IF main \in {"securesocket_free(ss)", "if(listener)"}
                         THEN "live" ELSE "freed"
  /\ mem["signal_event"] =
       IF main \in {"securesocket_free(ss)", "if(listener)",
                    "if(signal_event)"} THEN "live" ELSE "freed"
  /\ mem["base"] = IF main = "return" THEN "freed" ELSE "live"

(* What main owns at each of its statements.                                *)
ClientOwns ==
  /\ main \in Early \cup Setup \cup FreesJson \cup Ending
  /\ main \in Early => Fresh /\ code = 0
  /\ main \in Setup => SetupOwns
  /\ main \in FreesJson \cup Ending =>
       \/ code = 0 /\ EndedOwns
       \/ code = -1 /\ FailedOwns
       \/ code = -1 /\ Fresh /\ main \in FreesJson \cup {"securesocket_free(ss)"}
       \/ /\ code = -1 /\ main = "if(schema)"
          /\ mem["schema"] = "freed" /\ mem["ss"] = "live"

(* What main has read is what json_validate has accepted.                   *)
ConfValid ==
  /\ main \in Early \cup {"data=json_parse_file()"} =>
       file = << >> /\ conf = NoConf
  /\ main \in {"check(data)", "get"} => file \in Files /\ config = Parsed(file)
  /\ main = "get" => Validates(schema, config)
  /\ main \in {"ss->password=gen_password_by_string()", "addresses"} =>
       conf.password_str # "NULL" /\ conf.server_addr # "NULL"
  /\ {conf.local_port, conf.server_port} \subseteq Int

ClientInv ==
  /\ ClientTypeOK /\ ClientOwns /\ ConfValid
  /\ OnlyTheseFailuresCrash
  /\ proc = "exited" => main = "return"

(* A double that is converted becomes some int, whatever it is.             *)
LEMMA IntsType ==
  ASSUME NEW number PROVE Ints(number) \subseteq Int
BY ClientMainAssumption DEF Ints

LEMMA Htons ==
  ASSUME NEW port \in Int PROVE htons(port) \in 0 .. PORTS - 1
BY ClientMainAssumption DEF htons

LEMMA InetAddr ==
  ASSUME NEW cp PROVE inet_addr(cp) \in 0 .. INADDR_NONE
BY ClientMainAssumption DEF inet_addr

LEMMA ConfInts ==
  ASSUME ConfValid PROVE conf.local_port \in Int /\ conf.server_port \in Int
BY DEF ConfValid

LEMMA ClientInitOwns == ClientInit => ClientInv
BY ClientMainAssumption, SMTT(30)
   DEF ClientInit, ClientInv, ClientTypeOK, ClientOwns, ConfValid,
       OnlyTheseFailuresCrash, Fresh, Early, Setup, Parses, Connects, Listens,
       Drops, FreesJson, Ending, NoConf, Pointer, PointerState, ProcState,
       Automatic

LEMMA ClientStep == ClientInv /\ [ClientNext]_clientVars => ClientInv'
<1>. SUFFICES ASSUME ClientInv, [ClientNext]_clientVars PROVE ClientInv'
  OBVIOUS
<1>. USE DEF ClientInv, ClientTypeOK, ClientOwns, ConfValid,
       OnlyTheseFailuresCrash, SetupOwns, FailedOwns, EndedOwns, Fresh, Are,
       PasswordDecoded, Early, Setup, Parses, Connects, Listens,
       Drops, FreesJson, Ending, Pointer, PointerState, ProcState,
       Automatic, At, Goto, Set, Ends, BadUse, Uses, Frees, Detaches, IfSet, Fail,
       Valid, unconfigured
<1>1. CASE CheckArgs
  BY <1>1, SMTT(30) DEF CheckArgs
<1>2. CASE Allocate
  BY <1>2, SMTT(30) DEF Allocate
<1>3. CASE ParseFile
  BY <1>3, SMTT(30) DEF ParseFile
<1>4. CASE CheckData
  BY <1>4, SMTT(30) DEF CheckData
<1>5. CASE GetConf
  <2>1. PICK local_port \in Ints(json_object_get_number(config, "local_port")),
              server_port \in Ints(json_object_get_number(config, "server_port")) :
          conf' = [local_port |-> local_port,
                   server_addr |-> json_object_get_string(config, "server_addr"),
                   server_port |-> server_port,
                   password_str |-> json_object_get_string(config, "password")]
    BY <1>5 DEF GetConf
  <2>2. local_port \in Int /\ server_port \in Int
    BY IntsType
  <2>3. /\ json_object_get_string(config, "server_addr") # "NULL"
        /\ json_object_get_string(config, "password") # "NULL"
    BY <1>5, ValidatesAssumption DEF GetConf
  <2>. QED
    BY <1>5, <2>1, <2>2, <2>3, SMTT(30) DEF GetConf, NoConf
<1>6. CASE GenPassword
  BY <1>6, ClientMainAssumption, SMTT(30) DEF GenPassword
<1>7. CASE SetAddresses
  <2>1. /\ htons(conf.local_port) \in 0 .. PORTS - 1
        /\ htons(conf.server_port) \in 0 .. PORTS - 1
        /\ inet_addr(conf.server_addr) \in 0 .. INADDR_NONE
    BY Htons, ConfInts, InetAddr
  <2>. QED
    BY <1>7, <2>1, SMTT(30) DEF SetAddresses
<1>8. CASE NewBase
  BY <1>8, SMTT(30) DEF NewBase
<1>9. CASE Listen
  BY <1>9, SMTT(30) DEF Listen
<1>10. CASE SetErrorCb
  BY <1>10, SMTT(30) DEF SetErrorCb
<1>11. CASE LogConf
  BY <1>11, SMTT(30) DEF LogConf
<1>12. CASE FreeSchema
  BY <1>12, SMTT(30) DEF FreeSchema
<1>13. CASE FreeData
  BY <1>13, SMTT(30) DEF FreeData
<1>14. CASE AddSignal
  BY <1>14, SMTT(30) DEF AddSignal
<1>15. CASE Dispatch
  BY <1>15, SMTT(30) DEF Dispatch
<1>16. CASE ErrorFreeSchema
  BY <1>16, SMTT(30) DEF ErrorFreeSchema
<1>17. CASE ErrorFreeData
  BY <1>17, SMTT(30) DEF ErrorFreeData
<1>18. CASE securesocket_free
  BY <1>18, SMTT(30) DEF securesocket_free
<1>19. CASE FreeListener
  BY <1>19, SMTT(30) DEF FreeListener
<1>20. CASE FreeSignal
  BY <1>20, SMTT(30) DEF FreeSignal
<1>21. CASE FreeBase
  BY <1>21, SMTT(30) DEF FreeBase
<1>22. CASE Returns /\ unconfigured
  BY <1>22, SMTT(30) DEF Returns
<1>23. CASE SigIntKills /\ unconfigured
  BY <1>23, SMTT(30) DEF SigIntKills
<1>24. CASE UNCHANGED clientVars
  BY <1>24, SMTT(30) DEF clientVars
<1>. QED
  BY <1>1, <1>2, <1>3, <1>4, <1>5, <1>6, <1>7, <1>8, <1>9, <1>10, <1>11, <1>12, <1>13, <1>14, <1>15, <1>16, <1>17, <1>18, <1>19, <1>20, <1>21, <1>22, <1>23, <1>24 DEF ClientNext

(* Types hold: no pointer is in two states, and what goes to the sockets    *)
(* are ports (client.c:147-239).                                            *)
THEOREM ClientTypes == ClientSpec => []ClientTypeOK
<1>1. ClientInv => ClientTypeOK
  BY DEF ClientInv
<1>. QED
  BY ClientInitOwns, ClientStep, <1>1, PTL DEF ClientSpec

(* Nothing but a wrong number of arguments, a port that cannot be listened  *)
(* on, a password that does not decode and a signal event that cannot be    *)
(* added makes main use what it may not use (client.c:147-239).             *)
THEOREM ClientCrashesOnlyThen == ClientSpec => []OnlyTheseFailuresCrash
<1>1. ClientInv => OnlyTheseFailuresCrash
  BY DEF ClientInv
<1>. QED
  BY ClientInitOwns, ClientStep, <1>1, PTL DEF ClientSpec

LEMMA ReleasedAtExit == ClientInv => ExitReleases
<1>. SUFFICES ASSUME ClientInv PROVE ExitReleases
  OBVIOUS
<1>. USE DEF ClientInv, ClientOwns, Early, Setup, Parses, Connects, Listens,
       Drops, FreesJson, Ending
<1>1. ASSUME proc = "exited"
      PROVE  Held = {} /\ (code = 0 <=> mem["listener"] = "freed")
  <2>1. main = "return" /\ (\/ code = 0 /\ EndedOwns
                            \/ code = -1 /\ FailedOwns)
    BY <1>1
  <2>2. \A p \in Pointer : mem[p] \in {"null", "freed"}
    BY <2>1 DEF EndedOwns, FailedOwns, Are, Pointer
  <2>. QED
    BY <2>1, <2>2 DEF Held, Valid, EndedOwns, FailedOwns, Are
<1>2. ASSUME mem["ss"] = "freed", mem["base"] = "freed"
      PROVE  Held \cap {"listener", "signal_event"} = {}
  <2>1. main \notin Early /\ main \notin Setup
    BY <1>2 DEF SetupOwns, Fresh, Pointer, Automatic
  <2>2. ~Fresh
    BY <1>2 DEF Fresh, Pointer, Automatic
  <2>3. \A p \in {"listener", "signal_event"} : mem[p] = "freed"
    BY <1>2, <2>1, <2>2 DEF EndedOwns, FailedOwns, Are
  <2>. QED
    BY <2>3 DEF Held, Valid
<1>. QED
  BY <1>1, <1>2 DEF ExitReleases

(* When main returns it has released what the pointers it keeps point to,   *)
(* whichever statement failed (client.c:212-239).                           *)
THEOREM ClientExitReleases == ClientSpec => []ExitReleases
BY ClientInitOwns, ClientStep, ReleasedAtExit, PTL DEF ClientSpec

-----------------------------------------------------------------------------
(* The table in server.c: every byte stands in it.                          *)
LEMMA TableIsPermutation ==
  {table[i] : i \in 1 .. PASS_LENGTH} = 0 .. PASS_LENGTH - 1
<1>1. {table[i] : i \in 1 .. 256} = 0 .. 255
  BY SMTT(120) DEF table
<1>2. PASS_LENGTH = 256 /\ PASS_LENGTH - 1 = 255
  BY SMT DEF PASS_LENGTH
<1>. QED
  BY <1>1, <1>2

Copied == x \in {<< >>, [i \in 1 .. PASS_LENGTH |-> table[i]]}

LEMMA ServerCopies == ServerInit => Copied
BY DEF ServerInit, Copied

LEMMA ServerKeepsCopy == Copied /\ [ServerNext]_serverVars => Copied'
BY DEF Copied, ServerNext, serverVars, FillPassword, NewServerBase,
       ListenServer, AddServerSignal, DispatchServer, FreePassword,
       FreeServerBase, FreeServerListener, FreeServerSignal

(* The table of the server is a permutation of the bytes                    *)
(* (server.c:271-292).                                                      *)
THEOREM ServerPasswordIsPermutation == ServerSpec => []ServerPasswordDecodes
<1>1. Copied => ServerPasswordDecodes
  <2>. SUFFICES ASSUME Copied, x # << >>
                PROVE  {x[i] : i \in DOMAIN x} = 0 .. PASS_LENGTH - 1
    BY DEF ServerPasswordDecodes
  <2>1. x = [i \in 1 .. PASS_LENGTH |-> table[i]]
    BY DEF Copied
  <2>2. {x[i] : i \in DOMAIN x} = {table[i] : i \in 1 .. PASS_LENGTH}
    BY <2>1
  <2>. QED
    BY <2>2, TableIsPermutation
<1>. QED
  BY ServerCopies, ServerKeepsCopy, <1>1, PTL DEF ServerSpec
=============================================================================
