------------------------------ MODULE MCCodec ------------------------------
EXTENDS Codec

(* Every table of three bytes, permutation or not.                          *)
AllTables == Table

UpToTwoBytes == UNION {[1 .. n -> Byte] : n \in 0 .. 2}
=============================================================================
