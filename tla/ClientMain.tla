----------------------------- MODULE ClientMain -----------------------------
(***************************************************************************)
(* main of client/client.c, one action per statement that can fail, own or *)
(* release something: the configuration is read and checked, the listener  *)
(* is bound, the loop runs (module Client) and everything is released, by  *)
(* one of two tails.                                                       *)
(*                                                                         *)
(* Numbers of the configuration are doubles; they are counted in halves    *)
(* here, so that 161 stands for 80.5.                                      *)
(*                                                                         *)
(* What parson makes of a text is a parameter here, with what main relies  *)
(* on; module ClientConfig has what main makes of it with module Parson.   *)
(***************************************************************************)
EXTENDS Startup, JsonValue

CONSTANTS Files,          \* the texts that the configuration file may hold
          PORTS,          \* 2^16: htons takes an unsigned short
          INT_MAX,        \* the largest int
          Numeric,        \* the strings that are Internet addresses in numbers,
                          \* each with its address
          INADDR_NONE,    \* 255.255.255.255, the largest address
          Passwords,      \* the strings that decode to PASS_LENGTH bytes
          LonePasswords,  \* those whose size b64_decode_ex leaves unset
          Parsed(_),      \* json_parse_string, of a text
          Validates(_, _) \* json_validate, of a schema and a value

ASSUME ClientMainAssumption ==
  /\ PORTS \in Nat \ {0}
  /\ INT_MAX \in Nat
  /\ INADDR_NONE \in Nat
  /\ \A cp \in DOMAIN Numeric : Numeric[cp] \in 0 .. INADDR_NONE
  /\ Passwords \cap LonePasswords = {}

VARIABLES file,   \* the text of the configuration file, << >> if it cannot be read
          config, \* what data points to
          conf,   \* local_port, server_addr, server_port and password_str
          ports,  \* local.sin_port and remote.sin_port
          s_addr  \* remote.sin_addr.s_addr

clientVars == <<main, mem, proc, code, file, config, conf, ports, s_addr>>

Member(name, value) ==
  <<JSONString(name), [type |-> ":"], value>>

Comma == <<[type |-> ","]>>

ObjectText(members) == <<[type |-> "{"]>> \o members \o <<[type |-> "}"]>>

schema == Parsed(
  ObjectText(Member("local_port", JSONNumber(0)) \o Comma
               \o Member("server_addr", JSONString("")) \o Comma
               \o Member("server_port", JSONNumber(0)) \o Comma
               \o Member("password", JSONString(""))))

\* main asks for no string that json_validate has not found.
ASSUME ValidatesAssumption ==
  \A text \in Files : Validates(schema, Parsed(text)) =>
    \A name \in {"server_addr", "password"} :
      json_object_get_string(Parsed(text), name) # "NULL"

NoConf == [local_port |-> 0, server_addr |-> "NULL", server_port |-> 0,
           password_str |-> "NULL"]

Automatic == {"schema", "data", "listener", "signal_event"}

ClientInit ==
  /\ main = "check(argc)"
  /\ mem = [p \in Pointer |-> IF p \in Automatic THEN "garbage" ELSE "null"]
  /\ proc = "running"
  /\ code = 0
  /\ file = << >>
  /\ config = NULL
  /\ conf = NoConf
  /\ ports = [local |-> 0, remote |-> 0]
  /\ s_addr = 0

unconfigured == UNCHANGED <<file, config, conf, ports, s_addr>>

\* goto error
Fail == main' = "if(schema)" /\ code' = -1 /\ UNCHANGED proc

-----------------------------------------------------------------------------
(* The configuration.                                                      *)

\* The jump to error passes over the initialisers of the automatic variables.
CheckArgs ==
  /\ At("check(argc)")
  /\ Goto("ss=calloc()") \/ Fail
  /\ UNCHANGED mem
  /\ unconfigured

Allocate ==
  /\ At("ss=calloc()")
  /\ mem' = [mem EXCEPT !["ss"] = "live", !["signal_event"] = "null",
                        !["listener"] = "null", !["schema"] = "live",
                        !["data"] = "null"]
  /\ Goto("data=json_parse_file()")
  /\ unconfigured

ParseFile ==
  /\ At("data=json_parse_file()")
  /\ file' \in Files
  /\ config' = Parsed(file')
  /\ Set("data", IF config' = NULL THEN "null" ELSE "live")
  /\ Goto("check(data)")
  /\ UNCHANGED <<conf, ports, s_addr>>

CheckData ==
  /\ At("check(data)")
  /\ \/ Valid("data") /\ Validates(schema, config) /\ Goto("get")
     \/ ~Valid("data") /\ Fail
     \/ Valid("data") /\ ~Validates(schema, config) /\ Fail
  /\ UNCHANGED mem
  /\ unconfigured

\* From double to int: towards zero, and undefined out of range.
Ints(number) ==
  LET whole == IF number >= 0 THEN number \div 2 ELSE -(-number \div 2) IN
  IF whole \in -INT_MAX - 1 .. INT_MAX
    THEN {whole} ELSE -INT_MAX - 1 .. INT_MAX

\* Mutant of GetConf: the first getter is a copy of the third.
GetConfCopied ==
  /\ At("get")
  /\ \E port \in Ints(json_object_get_number(config, "server_port")) :
       conf' = [local_port |-> port,
                server_addr |-> json_object_get_string(config, "server_addr"),
                server_port |-> port,
                password_str |-> json_object_get_string(config, "password")]
  /\ UNCHANGED mem
  /\ Goto("ss->password=gen_password_by_string()")
  /\ UNCHANGED <<file, config, ports, s_addr>>

GetConf ==
  /\ At("get")
  /\ \E local_port \in Ints(json_object_get_number(config, "local_port")),
        server_port \in Ints(json_object_get_number(config, "server_port")) :
       conf' = [local_port |-> local_port,
                server_addr |-> json_object_get_string(config, "server_addr"),
                server_port |-> server_port,
                password_str |-> json_object_get_string(config, "password")]
  /\ UNCHANGED mem
  /\ Goto("ss->password=gen_password_by_string()")
  /\ UNCHANGED <<file, config, ports, s_addr>>

\* strlen does not take NULL.  If no size was written, decsize is what the
\* stack held; should that be PASS_LENGTH, NULL is copied from.
GenPassword ==
  /\ At("ss->password=gen_password_by_string()")
  /\ IF conf.password_str = "NULL" THEN Ends("crashed")
     ELSE \/ /\ Set("password", IF conf.password_str \in Passwords
                                  THEN "live" ELSE "null")
             /\ Goto("addresses")
          \/ conf.password_str \in LonePasswords /\ Ends("crashed")
  /\ unconfigured

\* Mutant of htons: the port is what the configuration says.
htons_wide(port) == port

htons(port) == port % PORTS

\* What is not an address in numbers, a host name for one, becomes
\* INADDR_NONE, which is also what 255.255.255.255 becomes.
inet_addr(cp) == IF cp \in DOMAIN Numeric THEN Numeric[cp] ELSE INADDR_NONE

\* inet_addr does not take NULL either, and nobody looks at its result.
SetAddresses ==
  /\ At("addresses")
  /\ s_addr' = inet_addr(conf.server_addr)
  /\ ports' = [local |-> htons(conf.local_port),
               remote |-> htons(conf.server_port)]
  /\ IF conf.server_addr = "NULL" THEN Ends("crashed")
     ELSE UNCHANGED mem /\ Goto("base=event_base_new()")
  /\ UNCHANGED <<file, config, conf>>

-----------------------------------------------------------------------------
(* The loop and what it needs.                                             *)

NewBase ==
  /\ At("base=event_base_new()")
  /\ \/ Set("base", "live") /\ Goto("listener=evconnlistener_new_bind()")
     \/ UNCHANGED mem /\ Fail
  /\ unconfigured

Listen ==
  /\ At("listener=evconnlistener_new_bind()")
  /\ \E listener \in {"live", "null"} : Set("listener", listener)
  /\ Goto("evconnlistener_set_error_cb(listener)")
  /\ unconfigured

\* check(listener) comes after this call and does not fail any more.
SetErrorCb ==
  /\ At("evconnlistener_set_error_cb(listener)")
  /\ Uses("listener", "password_string(password)")
  /\ unconfigured

\* The string that password_string returns goes to log_d alone: it is never
\* freed, and mem does not follow it.
LogConf ==
  /\ At("password_string(password)")
  /\ Uses("password", "json_value_free(schema)")
  /\ unconfigured

FreeSchema ==
  /\ At("json_value_free(schema)")
  /\ Frees("schema", "json_value_free(data)")
  /\ unconfigured

FreeData ==
  /\ At("json_value_free(data)")
  /\ Frees("data", "signal_event=evsignal_new()")
  /\ unconfigured

\* evsignal_new fails, or event_add does.
AddSignal ==
  /\ At("signal_event=evsignal_new()")
  /\ \/ Set("signal_event", "live") /\ Goto("event_base_dispatch(base)")
     \/ UNCHANGED mem /\ Fail
     \/ Set("signal_event", "idle") /\ Fail
  /\ unconfigured

\* What happens in the loop, and how it ends, is in module Client.
Dispatch ==
  /\ At("event_base_dispatch(base)")
  /\ UNCHANGED mem
  /\ Goto("securesocket_free(ss)")
  /\ unconfigured

-----------------------------------------------------------------------------
(* The end: the code has the statements from securesocket_free on twice,   *)
(* once for each value that main returns.                                  *)

ErrorFreeSchema ==
  /\ At("if(schema)")
  /\ IfSet("schema", Frees("schema", "if(data)"), "if(data)")
  /\ unconfigured

ErrorFreeData ==
  /\ At("if(data)")
  /\ IfSet("data", Frees("data", "securesocket_free(ss)"),
           "securesocket_free(ss)")
  /\ unconfigured

\* Mutant of securesocket_free: the password is not released with it.
securesocket_free_shallow ==
  /\ At("securesocket_free(ss)")
  /\ Frees("ss", "if(listener)")
  /\ unconfigured

securesocket_free ==
  /\ At("securesocket_free(ss)")
  /\ IF Valid("ss")
       THEN /\ mem' = [mem EXCEPT !["ss"] = "freed",
                          !["password"] = IF @ = "live" THEN "freed" ELSE @]
            /\ Goto("if(listener)")
       ELSE BadUse("ss")
  /\ unconfigured

FreeListener ==
  /\ At("if(listener)")
  /\ IfSet("listener", Detaches("listener", "if(signal_event)"),
           "if(signal_event)")
  /\ unconfigured

FreeSignal ==
  /\ At("if(signal_event)")
  /\ IfSet("signal_event", Detaches("signal_event", "event_base_free(base)"),
           "event_base_free(base)")
  /\ unconfigured

FreeBase ==
  /\ At("event_base_free(base)")
  /\ Frees("base", "return")
  /\ unconfigured

ClientNext ==
  \/ CheckArgs \/ Allocate \/ ParseFile \/ CheckData \/ GetConf
  \/ GenPassword \/ SetAddresses
  \/ NewBase \/ Listen \/ SetErrorCb \/ LogConf \/ FreeSchema \/ FreeData
  \/ AddSignal \/ Dispatch
  \/ ErrorFreeSchema \/ ErrorFreeData \/ securesocket_free
  \/ FreeListener \/ FreeSignal \/ FreeBase
  \/ Returns /\ unconfigured
  \/ SigIntKills /\ unconfigured

ClientSpec == ClientInit /\ [][ClientNext]_clientVars

-----------------------------------------------------------------------------
(* Every pointer is in one of its states, the loop has a base, and what     *)
(* goes to the sockets are ports and an address (client.c:147-239).         *)
ClientTypeOK ==
  /\ mem \in [Pointer -> PointerState]
  /\ proc \in ProcState
  /\ code \in {0, -1}
  /\ file \in Files \cup {<< >>}
  /\ {ports.local, ports.remote} \subseteq 0 .. PORTS - 1
  /\ s_addr \in 0 .. INADDR_NONE
  /\ DOMAIN conf = DOMAIN NoConf

(* When main returns it has released what all the pointers that it keeps    *)
(* point to, whichever statement failed, and returns 0 exactly if there was *)
(* a listener; the base goes after the events that are attached to it       *)
(* (client.c:212-239).                                                      *)
ExitReleases ==
  /\ proc = "exited" =>
       Held = {} /\ (code = 0 <=> mem["listener"] = "freed")
  /\ (mem["ss"] = "freed" /\ mem["base"] = "freed") =>
       Held \cap {"listener", "signal_event"} = {}

(* Only these failures end in a crash or in undefined behaviour: a wrong    *)
(* number of arguments, a port that cannot be listened on, a password that  *)
(* does not decode, and a signal event that cannot be added; a file that is *)
(* missing, not JSON or not complete and a missing base end in -1           *)
(* (client.c:223-239).                                                      *)
OnlyTheseFailuresCrash ==
  proc \in {"crashed", "undefined"} =>
    \/ mem["ss"] = "null"
    \/ mem["base"] = "live" /\ mem["listener"] = "null"
    \/ /\ conf.password_str \notin Passwords /\ mem["password"] = "null"
       /\ main \in {"ss->password=gen_password_by_string()",
                   "password_string(password)"}
    \/ mem["schema"] = "freed" /\ main = "if(schema)"
=============================================================================
