------------------------------ MODULE Startup ------------------------------
(***************************************************************************)
(* What ClientMain and ServerMain share: the next statement of main, what  *)
(* each pointer that main owns points to, and how the process is.  The     *)
(* operators are the statements that allocate, use and free, with what C   *)
(* and libevent make of a pointer that may not be used.                    *)
(*                                                                         *)
(* A pointer is "null", "garbage" (not assigned: anything, NULL included), *)
(* "live", "idle" (an event that exists and was not added) or "freed".     *)
(***************************************************************************)
EXTENDS Integers

VARIABLES main,  \* the next statement of main
          mem,   \* [Pointer -> PointerState]
          proc,  \* "running", "exited", "crashed", "undefined" or "killed"
          code   \* what main returns

Pointer == {"ss", "password", "schema", "data", "base", "listener",
            "signal_event"}

PointerState == {"null", "garbage", "idle", "live", "freed"}

ProcState == {"running", "exited", "crashed", "undefined", "killed"}

Valid(p) == mem[p] \in {"idle", "live"}

Held == {p \in Pointer : Valid(p)}

At(label) == proc = "running" /\ main = label

Goto(label) == main' = label /\ UNCHANGED <<proc, code>>

Set(p, state) == mem' = [mem EXCEPT ![p] = state]

Ends(outcome) == proc' = outcome /\ UNCHANGED <<main, mem, code>>

\* An invalid pointer p is dereferenced.  "undefined" stands for whatever
\* happens then.
BadUse(p) == Ends(IF mem[p] = "null" THEN "crashed" ELSE "undefined")

-----------------------------------------------------------------------------
\* A call of a function that dereferences p, and the statement after it.
Uses(p, next) ==
  \/ Valid(p) /\ UNCHANGED mem /\ Goto(next)
  \/ ~Valid(p) /\ BadUse(p)

\* free(p) and what accepts NULL as free does: json_value_free and
\* event_base_free.
Frees(p, next) ==
  \/ Valid(p) /\ Set(p, "freed") /\ Goto(next)
  \/ mem[p] = "null" /\ UNCHANGED mem /\ Goto(next)
  \/ mem[p] \in {"freed", "garbage"} /\ BadUse(p)

\* evconnlistener_free and event_free take their event off its base first;
\* of a base that has been freed, the memory may still hold what it held.
Detaches(p, next) ==
  \/ Valid(p) /\ Set(p, "freed") /\ Goto(next)
  \/ Valid(p) /\ ~Valid("base") /\ BadUse("base")
  \/ ~Valid(p) /\ BadUse(p)

\* Mutant of IfSet: nothing is asked.
IfAlways(p, Call, next) == Call

\* if (p) Call
IfSet(p, Call, next) ==
  \/ mem[p] \in {"null", "garbage"} /\ UNCHANGED mem /\ Goto(next)
  \/ mem[p] # "null" /\ Call

Returns ==
  /\ At("return")
  /\ Ends("exited")

\* Without an event for it that was added, SIGINT ends the process.
SigIntKills ==
  /\ proc = "running"
  /\ mem["signal_event"] # "live"
  /\ Ends("killed")
=============================================================================
