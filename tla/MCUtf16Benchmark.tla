--------------------------- MODULE MCUtf16Benchmark ---------------------------
(* Arguments for the scalar converter: every string of at most three of the *)
(* units at which a branch changes, in both byte orders, and every unit by  *)
(* itself.  Draws for the generator: the edges of its branches.             *)
EXTENDS Utf16Benchmark, TLC

Edges == {0, \h7F, \h80, \h7FF, \h800, \hD7FF, \hD800, \hDBFF,
          \hDC00, \hDFFF, \hE000, \hFFFF}

Arguments ==
  UNION {[1..n -> Edges \cup {SwapBytes(w) : w \in Edges}] : n \in {0, 2}}
    \cup [1..3 -> Edges] \cup [1..1 -> Unit]

EdgeDraws == Edges \cup {\h10000, \h103FF, \h10400, \h10FFFF}
=============================================================================
