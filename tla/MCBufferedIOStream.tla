------------------------- MODULE MCBufferedIOStream -------------------------
(* Constants of BufferedIOStream for TLC: the Buffers are the runs of at   *)
(* most MaxChunk consecutive byte numbers.                                 *)
EXTENDS BufferedIOStream
MCData == {Bytes(i, n) : i \in 1 .. (MaxIn + MaxOut), n \in 1 .. MaxChunk}
=============================================================================
