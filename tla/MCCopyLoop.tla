----------------------------- MODULE MCCopyLoop -----------------------------
EXTENDS CopyLoop

MCTable == [b \in Byte |-> (b + 1) % 3]

(* Up to five bytes through a buffer of two: empty, short, full and          *)
(* remainder iterations, and an exact multiple of the buffer.               *)
MCInputs == {SubSeq(m, 1, k) : m \in {<<0, 1, 2, 0, 2>>, <<2, 2, 1, 0, 1>>},
                               k \in 0 .. 5}

MCOutputs == {<<>>, <<1>>}
=============================================================================
