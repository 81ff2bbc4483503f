---------------------------- MODULE ClientConfig ----------------------------
(***************************************************************************)
(* What main of the client makes of the text of its configuration file,    *)
(* compared with what the text says by its grammar.                        *)
(***************************************************************************)
EXTENDS ClientMain, ConfigText

ASSUME ClientConfigAssumption == MAX_NESTING >= 1

(* json_parse_file accepts a text exactly if a value stands at its          *)
(* beginning that names nothing twice and is not nested too deep; and one   *)
(* that begins with a lone '-', but nowhere else in a text is that taken    *)
(* for a value (parson.c:629-797, 1048-1056).                               *)
ParsesAllAndOnlyValues ==
  main = "check(data)" =>
    (config # NULL <=> FirstValues(file) # {} \/ BeginsWithMinus(file))

(* What has been read is written as it stands in the file, white space      *)
(* apart, and is then read as an equal value (parson.c:812-943, 1909-1971); *)
(* a lone '-' has been read as 0.                                           *)
WrittenIsReadBack ==
  (main = "check(data)" /\ config # NULL) =>
    LET text == json_serialize(config) IN
    /\ text \in FirstValues(file) \/ BeginsWithMinus(file)
    /\ json_value_equals(json_parse_string(text), config)

(* A text that tells main all it asks for: one object at its beginning      *)
(* that says each of the four things, in the type that main reads it in.    *)
Complete(s) ==
  /\ \A name \in {"local_port", "server_port"} : Says(s, name, "number")
  /\ \A name \in {"server_addr", "password"} : Says(s, name, "string")

(* main goes on after its two checks exactly if the configuration is        *)
(* complete (client.c:166-167): parser and json_validate together leave     *)
(* no getter without a value of its type, and refuse nothing that has all.  *)
ChecksConfig ==
  [][(At("check(data)") /\ main' # main) =>
       (main' = "get" <=> \E s \in FirstValues(file) : Complete(s))]_clientVars

(* Who gets as far as the loop listens on the port that the file says, if   *)
(* it is one, dials the port that it says, and has its password.  It dials  *)
(* the address that the file says in numbers; if the file has a host name   *)
(* or anything else there, it is in the loop all the same and dials         *)
(* 255.255.255.255, the error of inet_addr that nobody looks at             *)
(* (client.c:169-200).                                                      *)
StartsAsConfigured ==
  At("event_base_dispatch(base)") =>
    \A s \in FirstValues(file) :
      LET local == Said(s, "local_port").number \div 2
          remote == Said(s, "server_port").number \div 2
          addr == Said(s, "server_addr").string
      IN  /\ (local \in 0 .. PORTS - 1 /\ local <= INT_MAX)
                => ports.local = local
          /\ (remote \in 0 .. PORTS - 1 /\ remote <= INT_MAX)
                => ports.remote = remote
          /\ addr \in DOMAIN Numeric => s_addr = Numeric[addr]
          /\ addr \notin DOMAIN Numeric => s_addr = INADDR_NONE
          /\ Said(s, "password").string \in Passwords
=============================================================================
