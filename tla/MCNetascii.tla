----------------------------- MODULE MCNetascii -----------------------------
EXTENDS NetasciiProofs

\* Texts come in pieces of one or two bytes.
ShortChunks == UNION {[1 .. n -> Byte] : n \in 1 .. 2}
=============================================================================
