--------------------------- MODULE MCCallSitePatch ---------------------------
(* Radix 16: the word is 65536.  The addresses are the carries and borrows   *)
(* of every digit and the two ends of the word.                              *)
EXTENDS CallSitePatch

MCNextAddr == {0, 1, 15, 16, 17, 255, 256, 4095, 4096, 4097}
MCCallee   == MCNextAddr \cup {32767, 32768, 65534, 65535}

\* On both sides of some call sites, and of the end of their reach.
MCMovedTo  == {0, 4096, 4097, 4098, 4111, 4112, 4113, 4352, 8191, 8192, 12289, 32767, 32768}
=============================================================================
