-------------------------- MODULE MCUtf16ToUtf8Avx2 --------------------------
(* Arguments for Utf16ToUtf8Avx2, for the 16 lanes and 48 bytes of the      *)
(* code: strings of one unit repeated, with one other unit somewhere, in    *)
(* both byte orders.                                                        *)
EXTENDS Utf16ToUtf8Avx2, TLC

Lengths == {0, 1, 15, 16, 17, 31, 32, 33}
Bases == {\h41, \h7FF, \hFFFF}
Edges == {\h7F, \h80, \h81, \h7FF, \h800, \h7FFF, \h8000, \hD7FF, \hE000}
Positions == {1, 16, 17, 33}

WithOne(n, base, at, w) == [k \in 1..n |-> IF k = at THEN w ELSE base]

\* A pair whose high unit is at the given place: within a block, across two
\* blocks, in the tail.
WithPair(n, base, at) ==
  [k \in 1..n |-> IF k = at THEN \hD83D ELSE IF k = at + 1 THEN \hDE00 ELSE base]

HostStrings ==
  {WithOne(n, b, at, w) : n \in Lengths, b \in Bases, at \in Positions, w \in Edges}
    \cup {WithPair(n, b, at) : n \in Lengths, b \in Bases, at \in Positions}

\* Both byte orders of the same text, as the flag will have it or not.
Swapped(S) == {[k \in 1..Len(s) |-> SwapBytes(s[k])] : s \in S}

AllStrings == HostStrings \cup Swapped(HostStrings)

\* Sixteen units of which the first is not ASCII.
OddStrings == {WithOne(16, \h41, 1, w) : w \in Edges}
=============================================================================
