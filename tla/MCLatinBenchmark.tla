--------------------------- MODULE MCLatinBenchmark ---------------------------
(* Arguments for the isLatin functions with the vectors of the real         *)
(* machines: strings of up to 129 bytes in which one byte, at the edge of a *)
(* vector or nowhere, is not Latin; the lengths are those around multiples  *)
(* of the vector lengths.  The charset is one letter: the functions see no  *)
(* difference between letters.                                              *)
EXTENDS LatinBenchmark, TLC

Lengths == {0, 1, 15, 16, 17, 31, 32, 33, 49, 63, 64, 65, 129}
Places == {0, 1, 15, 16, 17, 31, 32, 33, 47, 48, 49, 62, 63, 64, 65, 127, 128, 129}

OneHigh(n, at) == [k \in 1..n |-> IF k = at THEN 128 ELSE 127]
LatinStrings == {OneHigh(n, at) : n \in Lengths, at \in Places}

Letters == <<122, 0>>
=============================================================================
