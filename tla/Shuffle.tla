------------------------------ MODULE Shuffle ------------------------------
(***************************************************************************)
(* rand_password (lib/password.c): the loops that fill and shuffle the     *)
(* table, one assignment or one swap per step.  The numbers that           *)
(* rand() % 256 returns are chosen in the initial state.                   *)
(***************************************************************************)
EXTENDS Password

VARIABLES pc,      \* "fill", "shuffle" or "done"
          x,       \* password->x, zeroed by calloc
          draws,   \* [Byte -> Byte]: v in iteration i
          i

vars == <<pc, x, draws, i>>

Init ==
  /\ pc = "fill"
  /\ x = [b \in Byte |-> 0]
  /\ draws \in [Byte -> Byte]
  /\ i = 0

Fill ==
  /\ pc = "fill"
  /\ x' = [x EXCEPT ![i] = i]
  /\ i' = IF i + 1 = PASS_LENGTH THEN 0 ELSE i + 1
  /\ pc' = IF i + 1 = PASS_LENGTH THEN "shuffle" ELSE "fill"
  /\ UNCHANGED draws

(* Mutant of swap: no temporary.                                            *)
swap_without_temporary(t, a, b) == [t EXCEPT ![a] = t[b]]

swap(t, a, b) == [t EXCEPT ![a] = t[b], ![b] = t[a]]

Swap ==
  /\ pc = "shuffle"
  /\ x' = swap(x, i, draws[i])
  /\ i' = IF i + 1 = PASS_LENGTH THEN 0 ELSE i + 1
  /\ pc' = IF i + 1 = PASS_LENGTH THEN "done" ELSE "shuffle"
  /\ UNCHANGED draws

Next == Fill \/ Swap

Spec == Init /\ [][Next]_vars

-----------------------------------------------------------------------------
(* Both loops stay within the table and store bytes (password.c:52-61).     *)
TypeOK ==
  /\ pc \in {"fill", "shuffle", "done"}
  /\ x \in Table
  /\ draws \in [Byte -> Byte]
  /\ i \in Byte

(* Once filled, the table is a permutation after every swap, whatever       *)
(* rand() returns (password.c:52-61): decoding always has an inverse.       *)
AlwaysPermutation ==
  /\ pc # "fill" => IsPermutation(x)
  /\ pc = "fill" => \A j \in Byte : j < i => x[j] = j
=============================================================================
