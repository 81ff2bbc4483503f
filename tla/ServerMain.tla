----------------------------- MODULE ServerMain -----------------------------
(***************************************************************************)
(* main of server/server.c, as ClientMain is that of the client: a table   *)
(* that is part of the program, the listener, the loop (module Server) and *)
(* one tail, which the regular end falls into.                             *)
(***************************************************************************)
EXTENDS Startup, Sequences

VARIABLE x  \* global_password->x, once it is filled

serverVars == <<main, mem, proc, code, x>>

PASS_LENGTH == 256

table ==
  <<162, 135, 28, 12, 149, 252, 19, 6, 147, 47, 146, 53, 37, 143, 65, 226,
    77, 92, 115, 157, 151, 79, 26, 16, 89, 36, 82, 41, 153, 129, 184, 23,
    203, 160, 110, 250, 170, 42, 124, 182, 117, 233, 125, 5, 94, 176, 249,
    91, 59, 136, 76, 199, 205, 139, 108, 225, 43, 243, 140, 152, 116, 171,
    103, 48, 188, 17, 49, 27, 228, 102, 158, 50, 90, 3, 232, 224, 173, 60,
    132, 213, 45, 98, 118, 254, 211, 210, 128, 207, 175, 201, 163, 206, 55,
    161, 165, 0, 126, 154, 97, 198, 1, 183, 181, 239, 222, 167, 39, 15, 58,
    51, 236, 195, 96, 245, 131, 85, 9, 127, 142, 8, 84, 185, 134, 166, 174,
    218, 114, 155, 46, 7, 21, 104, 69, 194, 248, 137, 99, 159, 10, 62, 172,
    169, 138, 71, 220, 193, 216, 208, 179, 241, 235, 130, 189, 180, 88, 64,
    31, 24, 75, 192, 133, 123, 70, 255, 63, 144, 231, 197, 87, 78, 18, 240,
    119, 164, 145, 106, 190, 52, 80, 20, 227, 196, 223, 202, 242, 244, 95,
    22, 14, 230, 25, 74, 122, 4, 200, 215, 38, 221, 204, 86, 105, 68, 238,
    247, 214, 177, 2, 212, 66, 148, 111, 187, 35, 109, 61, 168, 32, 30, 56,
    178, 40, 112, 34, 209, 93, 67, 251, 217, 237, 107, 73, 113, 83, 234, 29,
    253, 191, 72, 186, 120, 33, 13, 229, 44, 150, 219, 57, 121, 81, 141, 11,
    156, 54, 100, 101, 246>>

Unset == {"listener", "signal_event"}

ServerInit ==
  /\ main = "global_password=calloc()"
  /\ mem = [p \in Pointer |-> IF p \in Unset THEN "garbage" ELSE "null"]
  /\ proc = "running"
  /\ code = 0
  /\ x = << >>

\* Mutant of FillPassword: the loop stops one short of PASS_LENGTH.
FillPasswordShort ==
  /\ At("global_password=calloc()")
  /\ Set("password", "live")
  /\ x' = [table EXCEPT ![PASS_LENGTH] = 0]
  /\ Goto("base=event_base_new()")

FillPassword ==
  /\ At("global_password=calloc()")
  /\ Set("password", "live")
  /\ x' = [i \in 1 .. PASS_LENGTH |-> table[i]]
  /\ Goto("base=event_base_new()")

\* Nothing checks base.
NewServerBase ==
  /\ At("base=event_base_new()")
  /\ \E made \in {"live", "null"} : Set("base", made)
  /\ Goto("listener=evconnlistener_new_bind()")
  /\ UNCHANGED x

\* Libevent makes a listener without a base, too, but cannot enable it.
ListenServer ==
  /\ At("listener=evconnlistener_new_bind()")
  /\ \/ Set("listener", "live") /\ Goto("signal_event=evsignal_new()")
     \/ Set("listener", "null") /\ Goto("free(global_password)")
  /\ UNCHANGED x

\* event_add does not take NULL, and what it returns is not looked at.
AddServerSignal ==
  /\ At("signal_event=evsignal_new()")
  /\ \/ Valid("base") /\ Set("signal_event", "live")
          /\ Goto("event_base_dispatch(base)")
     \/ Set("signal_event", "idle") /\ Goto("event_base_dispatch(base)")
     \/ Ends("crashed")
  /\ UNCHANGED x

\* The loop runs, as in module Server, until something ends it.
DispatchServer ==
  /\ At("event_base_dispatch(base)")
  /\ Uses("base", "free(global_password)")
  /\ UNCHANGED x

\* The label error is here.
FreePassword ==
  /\ At("free(global_password)")
  /\ Frees("password", "event_base_free(base)")
  /\ UNCHANGED x

FreeServerBase ==
  /\ At("event_base_free(base)")
  /\ Frees("base", "evconnlistener_free(listener)")
  /\ UNCHANGED x

FreeServerListener ==
  /\ At("evconnlistener_free(listener)")
  /\ Detaches("listener", "event_free(signal_event)")
  /\ UNCHANGED x

FreeServerSignal ==
  /\ At("event_free(signal_event)")
  /\ Detaches("signal_event", "return")
  /\ UNCHANGED x

ServerNext ==
  \/ FillPassword \/ NewServerBase \/ ListenServer \/ AddServerSignal
  \/ DispatchServer \/ FreePassword \/ FreeServerBase
  \/ FreeServerListener \/ FreeServerSignal
  \/ Returns /\ UNCHANGED x
  \/ SigIntKills /\ UNCHANGED x

ServerSpec == ServerInit /\ [][ServerNext]_serverVars

-----------------------------------------------------------------------------
(* The table in the program, as main copies it, is a permutation of the     *)
(* bytes (server.c:271-292): what the clients encode with it can be decoded.*)
ServerPasswordDecodes ==
  x # << >> =>
    {x[i] : i \in DOMAIN x} = 0 .. PASS_LENGTH - 1

(* "caught an interrupt signal; exiting cleanly in one seconds"             *)
(* (server.c:260-261): once the loop with its signal event has ended, main  *)
(* uses nothing that it has freed.                                          *)
ExitsCleanly ==
  (mem["password"] = "freed" /\ mem["signal_event"] = "live")
    => proc \notin {"crashed", "undefined"}
=============================================================================
