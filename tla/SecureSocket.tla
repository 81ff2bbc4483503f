---------------------------- MODULE SecureSocket ----------------------------
(***************************************************************************)
(* lib/securesocket.c: the copy routines that the read callbacks of both   *)
(* programs share.  They work on the two bufferevents of one connection    *)
(* inside a single callback, so each is an operator from the bufferevents  *)
(* it is given to those it leaves.  CopyLoop shows that the loops of the   *)
(* code compute what the two copy operators state at once.                 *)
(***************************************************************************)
EXTENDS LibEvent

(* Mutants of encode_copy.  One pass of the loop instead of all.            *)
encode_copy_once(x, dst, src) ==
  IF src.input = <<>>
    THEN [ret |-> -1, dst |-> dst, src |-> src]
    ELSE [ret |-> 0,
          dst |-> AddOutput(dst, encode_data(SubSeq(src.input, 1, 1), x)),
          src |-> [src EXCEPT !.input = Drop(@, 1)]]

(* The input is drained but only the first buffer of it written.            *)
encode_copy_truncated(x, dst, src) ==
  [encode_copy_once(x, dst, src) EXCEPT !.src.input = <<>>]

(* "no more data" is an error in every iteration, not only in the first.    *)
encode_copy_always_fails(x, dst, src) ==
  [encode_copy_truncated(x, dst, src) EXCEPT !.ret = -1]

(* Every buffer is written twice.                                           *)
encode_copy_twice(x, dst, src) ==
  IF src.input = <<>>
    THEN [ret |-> -1, dst |-> dst, src |-> src]
    ELSE [ret |-> 0,
          dst |-> AddOutput(dst, encode_data(src.input \o src.input, x)),
          src |-> [src EXCEPT !.input = <<>>]]

(* encode_copy_pass: everything in src's input buffer is encoded and        *)
(* appended to dst's output buffer; -1 only if the first read finds         *)
(* nothing.                                                                 *)
encode_copy(x, dst, src) ==
  IF src.input = <<>>
    THEN [ret |-> -1, dst |-> dst, src |-> src]
    ELSE [ret |-> 0, dst |-> AddOutput(dst, encode_data(src.input, x)),
          src |-> [src EXCEPT !.input = <<>>]]

(* Mutant of decode_copy: encode_copy_pass is called instead.               *)
decode_copy_encodes(x, dst, src) == encode_copy(x, dst, src)

decode_copy(x, dst, src) ==
  LET decode_pass == DecodeTable(x) IN encode_copy(decode_pass, dst, src)

(* Mutant of bufferevent_clear_free: the callbacks are cleared, nothing is  *)
(* freed.                                                                   *)
bufferevent_clear(b) == [b EXCEPT !.cbs = {}, !.pend = {}]

bufferevent_clear_free(b) == Released(b)
=============================================================================
