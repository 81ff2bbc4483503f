------------------------------ MODULE CopyLoop ------------------------------
(***************************************************************************)
(* The loop of encode_copy_pass and decode_copy_pass                       *)
(* (lib/securesocket.c), which drains one input buffer into the output     *)
(* buffer of the other bufferevent through a fixed buffer of BUFFER_SIZE   *)
(* bytes.  The two routines differ only in the table they apply; in        *)
(* decode_copy_pass it is applied by decode_read, right after the read, in *)
(* encode_copy_pass by encode_write, right before the write.               *)
(***************************************************************************)
EXTENDS Password

CONSTANTS BUFFER_SIZE,   \* 1024 in the code
          table,         \* the password, or its DecodeTable
          Inputs,        \* the contents of src's input buffer considered
          Outputs        \* the contents of dst's output buffer considered

ASSUME CopyLoopAssumption ==
  /\ BUFFER_SIZE \in Nat \ {0}
  /\ table \in Table
  /\ Inputs \subseteq Seq(Byte) /\ Outputs \subseteq Seq(Byte)

VARIABLES stage,        \* "read", "code", "write" or "done"
          input0,       \* the two buffers at the call, never assigned
          output0,
          input,        \* bufferevent_get_input(src)
          output,       \* bufferevent_get_output(dst)
          buf,          \* byte buf[BUFFER_SIZE]
          n,            \* bytes read in this iteration
          first_time,
          ret

copyVars == <<stage, input0, output0, input, output, buf, n, first_time, ret>>

Buffer == [1 .. BUFFER_SIZE -> Byte]

CopyInit ==
  /\ stage = "read"
  /\ input0 \in Inputs /\ output0 \in Outputs
  /\ input = input0 /\ output = output0
  /\ buf = [k \in 1 .. BUFFER_SIZE |-> 0]
  /\ n = 0
  /\ first_time = TRUE
  /\ ret = 0

(* buf is zeroed, then bufferevent_read moves what fits into it.            *)
Read ==
  LET size == IF Len(input) < BUFFER_SIZE THEN Len(input) ELSE BUFFER_SIZE IN
  /\ stage = "read"
  /\ n' = size
  /\ buf' = [k \in 1 .. BUFFER_SIZE |-> IF k <= size THEN input[k] ELSE 0]
  /\ input' = SubSeq(input, size + 1, Len(input))
  /\ stage' = IF size = 0 THEN "done" ELSE "code"
  /\ ret' = IF size = 0 /\ first_time THEN -1 ELSE 0
  /\ first_time' = (first_time /\ size = 0)
  /\ UNCHANGED <<input0, output0, output>>

(* encode_data or decode_data on the first n bytes of buf.                  *)
Code ==
  /\ stage = "code"
  /\ buf' = [k \in 1 .. BUFFER_SIZE |-> IF k <= n THEN table[buf[k]] ELSE buf[k]]
  /\ stage' = "write"
  /\ UNCHANGED <<input0, output0, input, output, n, first_time, ret>>

(* Mutant of Write: there is no loop.                                       *)
WriteAndReturn ==
  /\ stage = "write"
  /\ output' = output \o SubSeq(buf, 1, n)
  /\ n' = 0 /\ stage' = "done"
  /\ UNCHANGED <<input0, output0, input, buf, first_time, ret>>

(* bufferevent_write(dst, buf, n), whose result, 0, ends up in n, also when  *)
(* it is encode_write that returns it.                                      *)
Write ==
  /\ stage = "write"
  /\ output' = output \o SubSeq(buf, 1, n)
  /\ n' = 0
  /\ stage' = "read"
  /\ UNCHANGED <<input0, output0, input, buf, first_time, ret>>

CopyNext == Read \/ Code \/ Write

CopySpec == CopyInit /\ [][CopyNext]_copyVars

-----------------------------------------------------------------------------
(* No iteration reads more than buf holds, and bytes stay bytes             *)
(* (securesocket.c:44-56, 73-85).                                           *)
CopyTypeOK ==
  /\ stage \in {"read", "code", "write", "done"}
  /\ input0 \in Seq(Byte) /\ output0 \in Seq(Byte)
  /\ input \in Seq(Byte) /\ output \in Seq(Byte)
  /\ buf \in Buffer
  /\ n \in 0 .. BUFFER_SIZE
  /\ first_time \in BOOLEAN
  /\ ret \in {-1, 0}

(* What buf holds, as it will be written.                                   *)
Held == CASE stage = "code" -> encode_data(SubSeq(buf, 1, n), table)
          [] stage = "write" -> SubSeq(buf, 1, n)
          [] OTHER -> <<>>

(* Between any two statements, what has been written, what buf holds and    *)
(* what is left to read make up the message (securesocket.c:43-58, 72-87).  *)
Conserved ==
  output \o Held \o encode_data(input, table)
    = output0 \o encode_data(input0, table)

(* first_time says whether nothing has been read yet.                       *)
FirstTimeIffNothingRead ==
  /\ first_time => input = input0 /\ stage \in {"read", "done"}
  /\ ~first_time => input0 # <<>>
  /\ stage = "done" => input = <<>>
  /\ ret = IF stage = "done" /\ first_time THEN -1 ELSE 0

(* The routine returns with the source empty and everything appended to the *)
(* destination, and its result is -1 exactly if there was nothing to copy:  *)
(* what encode_copy and decode_copy of SecureSocket state in one step.      *)
CopiesAll ==
  stage = "done" =>
    /\ input = <<>>
    /\ output = output0 \o encode_data(input0, table)
    /\ ret = IF input0 = <<>> THEN -1 ELSE 0
=============================================================================
