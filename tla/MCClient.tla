------------------------------ MODULE MCClient ------------------------------
(* Instances of Client for TLC.                                             *)
EXTENDS Client

(* A permutation of three bytes that is not its own inverse, so that        *)
(* encoding and decoding differ.                                            *)
MCPassword == [b \in Byte |-> (b + 1) % 3]

(* Two different bytes each way: enough to be split, merged or reordered.   *)
TwoEach == [s \in Side |-> IF s = "local" THEN <<0, 1>> ELSE <<2, 0>>]

OneOut == [s \in Side |-> IF s = "local" THEN <<0>> ELSE <<>>]
=============================================================================
