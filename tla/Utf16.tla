-------------------------------- MODULE Utf16 --------------------------------
(***************************************************************************)
(* The arithmetic of string_utf16_to_utf8/main.cpp on code units, and,     *)
(* apart from it, what the Unicode standard says of the two encodings.     *)
(* The bytes an OR joins have no bit in common, so it is written +.        *)
(***************************************************************************)
EXTENDS Integers, Sequences

MaxUnit == 65535
Unit == 0..MaxUnit

\* swap_bytes, and the same expression inlined in the scalar converter; the
\* shift to the left loses its upper byte in the 16 bits of the result.
SwapBytes(w) == (w \div 256) + (w % 256) * 256

\* A unit of the argument, in the byte order of the machine.
Host(w, le) == IF le THEN w ELSE SwapBytes(w)

IsHigh(w) == \hD800 <= w /\ w <= \hDBFF
IsLow(w) == \hDC00 <= w /\ w <= \hDFFF
IsSurrogate(w) == IsHigh(w) \/ IsLow(w)

CodePointBug(w1, w2) == (w1 - \hD800) * 1024 + (w2 - \hDC00)
CodePoint(w1, w2) == (w1 - \hD800) * 1024 + (w2 - \hDC00) + \h10000

\* The bytes of one code unit: the inline utf16_to_utf8, and the last branch
\* of the scalar converter.
EncodeUnitBug(w) ==
  IF w < \h80 THEN <<w>>
  ELSE IF w <= \h800 THEN <<\hC0 + w \div 64, \h80 + (w % 64)>>
  ELSE <<\hE0 + w \div 4096, \h80 + ((w \div 64) % 64), \h80 + (w % 64)>>
EncodeUnit(w) ==
  IF w < \h80 THEN <<w>>
  ELSE IF w < \h800 THEN <<\hC0 + w \div 64, \h80 + (w % 64)>>
  ELSE <<\hE0 + w \div 4096, \h80 + ((w \div 64) % 64), \h80 + (w % 64)>>

EncodePair(cp) ==
  <<\hF0 + cp \div 262144, \h80 + ((cp \div 4096) % 64),
    \h80 + ((cp \div 64) % 64), \h80 + (cp % 64)>>

-----------------------------------------------------------------------------
(* The standard                                                            *)

\* Every high surrogate is followed by a low one, every low one follows one.
WellFormed(s) ==
  \A n \in 1..Len(s) :
    /\ IsHigh(s[n]) => n < Len(s) /\ IsLow(s[n + 1])
    /\ IsLow(s[n]) => n > 1 /\ IsHigh(s[n - 1])

\* UTF-16 of a code point.
UnitsOf(cp) ==
  IF cp < \h10000 THEN <<cp>>
  ELSE <<\hD800 + (cp - \h10000) \div 1024, \hDC00 + ((cp - \h10000) % 1024)>>

Invalid == -1

\* The length a UTF-8 sequence with this first byte has, 0 for none.
SequenceLength(b) ==
  CASE b < \h80 -> 1 [] b \in \hC0..\hDF -> 2 [] b \in \hE0..\hEF -> 3
    [] b \in \hF0..\hF7 -> 4 [] OTHER -> 0

\* The code point of the sequence of bytes t, unless it is cut off, not in
\* shortest form, a surrogate or above 10FFFF.
Decoded(t) ==
  LET k == SequenceLength(t[1])
      c(n) == t[n] - \h80
      cp == CASE k = 1 -> t[1]
              [] k = 2 -> (t[1] - \hC0) * 64 + c(2)
              [] k = 3 -> (t[1] - \hE0) * 4096 + c(2) * 64 + c(3)
              [] OTHER -> (t[1] - \hF0) * 262144 + c(2) * 4096 + c(3) * 64 + c(4)
  IN IF /\ k # 0 /\ k = Len(t) /\ \A n \in 2..k : c(n) \in 0..63
        /\ cp >= <<0, \h80, \h800, \h10000>>[k]
        /\ cp <= \h10FFFF /\ ~IsSurrogate(cp)
     THEN cp ELSE Invalid

\* The code points of a sequence of bytes; Invalid ends it.
DecodeUtf8(b) ==
  LET from[n \in 1..(Len(b) + 1)] ==
        IF n > Len(b) THEN <<>>
        ELSE LET last == n + SequenceLength(b[n]) - 1
                 cp == IF last > Len(b) THEN Invalid ELSE Decoded(SubSeq(b, n, last))
             IN IF cp = Invalid THEN <<Invalid>> ELSE <<cp>> \o from[last + 1]
  IN from[1]

\* The UTF-16 of a sequence of code points.
Utf16Of(cps) ==
  LET upto[n \in 0..Len(cps)] ==
        IF n = 0 THEN <<>>
        ELSE upto[n - 1] \o (IF cps[n] = Invalid THEN <<Invalid>> ELSE UnitsOf(cps[n]))
  IN upto[Len(cps)]
=============================================================================
