----------------------------- MODULE Utf16Proofs -----------------------------
(***************************************************************************)
(* What TLAPS proves about the arithmetic of Utf16, for every code unit:   *)
(* what is written for a unit, or for a pair of surrogates, are bytes that *)
(* a decoder takes for the same character.                                 *)
(***************************************************************************)
EXTENDS Utf16, SequenceTheorems, WellFoundedInduction, TLAPS

LEMMA UnitIs == \A w : w \in Unit <=> w \in Int /\ 0 <= w /\ w <= 65535
<1>1. MaxUnit = 65535
  BY DEF MaxUnit
<1>2. \A w : w \in Unit <=> w \in Int /\ 0 <= w /\ w <= MaxUnit
  <2>1. MaxUnit \in Int
    BY <1>1
  <2>2. QED
    BY <2>1 DEF Unit
<1>3. QED
  BY <1>1, <1>2

\* Swapping the bytes of a unit gives a unit.
LEMMA HostType == \A w \in Unit, b \in BOOLEAN : Host(w, b) \in Unit
<1>1. \A w \in Unit : w \div 256 \in 0..255 /\ w % 256 \in 0..255
  BY UnitIs
<1>2. \A x, y \in 0..255 : x + y * 256 \in Unit
  BY UnitIs
<1>3. ASSUME NEW w \in Unit PROVE SwapBytes(w) \in Unit
  <2> DEFINE hi == w \div 256
             lo == w % 256
  <2>1. hi \in 0..255 /\ lo \in 0..255
    BY <1>1
  <2>2. SwapBytes(w) = hi + lo * 256
    BY DEF SwapBytes
  <2> HIDE DEF hi, lo
  <2>3. hi + lo * 256 \in Unit
    BY <1>2, <2>1
  <2>4. QED
    BY <2>2, <2>3
<1>4. QED
  BY <1>3 DEF Host

\* One unit becomes one to three bytes.
LEMMA EncodeUnitType ==
  ASSUME NEW w \in Unit
  PROVE  EncodeUnit(w) \in Seq(0..255) /\ Len(EncodeUnit(w)) \in 1..3
<1>1. CASE w < 128
  <2>1. EncodeUnit(w) = <<w>>
    BY <1>1 DEF EncodeUnit
  <2>2. w \in 0..255
    BY <1>1, UnitIs
  <2>3. QED
    BY <2>1, <2>2
<1>2. CASE w >= 128 /\ w < 2048
  <2> DEFINE b1 == 192 + w \div 64
             b2 == 128 + (w % 64)
  <2>1. EncodeUnit(w) = <<b1, b2>>
    BY <1>2, UnitIs DEF EncodeUnit
  <2>2. b1 \in 0..255 /\ b2 \in 0..255
    BY <1>2, UnitIs
  <2> HIDE DEF b1, b2
  <2>3. QED
    BY <2>1, <2>2
<1>3. CASE w >= 2048
  <2> DEFINE b1 == 224 + w \div 4096
             b2 == 128 + ((w \div 64) % 64)
             b3 == 128 + (w % 64)
  <2>1. EncodeUnit(w) = <<b1, b2, b3>>
    BY <1>3, UnitIs DEF EncodeUnit
  <2>2. b1 \in 0..255 /\ b2 \in 0..255 /\ b3 \in 0..255
    <3>1. w \div 4096 \in 0..15
      BY UnitIs
    <3>2. (w \div 64) % 64 \in 0..63 /\ w % 64 \in 0..63
      BY UnitIs
    <3>3. QED
      BY <3>1, <3>2
  <2> HIDE DEF b1, b2, b3
  <2>3. QED
    BY <2>1, <2>2
<1>4. QED
  BY <1>1, <1>2, <1>3, UnitIs

\* The code points that have two units.
MinPair == 65536
MaxPair == 1114111
CodePoints == MinPair..MaxPair

LEMMA CodePointIs == \A cp : cp \in CodePoints <=> cp \in Int /\ 65536 <= cp /\ cp <= 1114111
<1>1. MinPair = 65536 /\ MaxPair = 1114111
  BY SMT DEF MinPair, MaxPair
<1>2. \A cp : cp \in CodePoints <=> cp \in Int /\ MinPair <= cp /\ cp <= MaxPair
  <2>1. MinPair \in Int /\ MaxPair \in Int
    BY <1>1, SMT
  <2>2. QED
    BY <2>1 DEF CodePoints
<1>3. QED
  BY <1>1, <1>2, SMT

LEMMA EncodePairType ==
  ASSUME NEW cp \in CodePoints
  PROVE  EncodePair(cp) \in Seq(0..255) /\ Len(EncodePair(cp)) = 4
<1> DEFINE b1 == 240 + cp \div 262144
           b2 == 128 + ((cp \div 4096) % 64)
           b3 == 128 + ((cp \div 64) % 64)
           b4 == 128 + (cp % 64)
<1>1. EncodePair(cp) = <<b1, b2, b3, b4>>
  BY DEF EncodePair
<1>2. cp \div 262144 \in 0..4
  BY CodePointIs, SMT
<1>3. (cp \div 4096) % 64 \in 0..63 /\ (cp \div 64) % 64 \in 0..63 /\ cp % 64 \in 0..63
  BY CodePointIs, SMT
<1>4. b1 \in 0..255 /\ b2 \in 0..255 /\ b3 \in 0..255 /\ b4 \in 0..255
  BY <1>2, <1>3
<1> HIDE DEF b1, b2, b3, b4
<1>5. QED
  BY <1>1, <1>4

\* A pair of surrogates is one code point, which is the pair in UTF-16.
LEMMA PairIsCodePoint ==
  ASSUME NEW h \in Unit, NEW l \in Unit, IsHigh(h), IsLow(l)
  PROVE  CodePoint(h, l) \in CodePoints /\ UnitsOf(CodePoint(h, l)) = <<h, l>>
<1>1. /\ h \in Int /\ 55296 <= h /\ h <= 56319
      /\ l \in Int /\ 56320 <= l /\ l <= 57343
  BY UnitIs DEF IsHigh, IsLow
<1> DEFINE cp == (h - 55296) * 1024 + (l - 56320) + 65536
<1>2. CodePoint(h, l) = cp
  BY DEF CodePoint
<1>3. cp \in CodePoints /\ ~(cp < 65536)
  BY <1>1, CodePointIs, SMT
<1>4. (cp - 65536) \div 1024 = h - 55296 /\ (cp - 65536) % 1024 = l - 56320
  BY <1>1
<1>5. UnitsOf(cp) = <<55296 + (cp - 65536) \div 1024, 56320 + ((cp - 65536) % 1024)>>
  <2> HIDE DEF cp
  <2>1. QED
    BY <1>3, SMT DEF UnitsOf
<1>6. 55296 + (h - 55296) = h /\ 56320 + (l - 56320) = l
  BY <1>1
<1> HIDE DEF cp
<1>7. QED
  BY <1>2, <1>3, <1>4, <1>5, <1>6

\* A unit that is no surrogate is one code point in UTF-16.
LEMMA UnitIsCodePoint ==
  ASSUME NEW w \in Unit
  PROVE  UnitsOf(w) = <<w>>
BY UnitIs DEF UnitsOf

\* What a decoder takes the bytes written for a unit for, and how many it takes.
LEMMA UnitIsDecoded ==
  ASSUME NEW w \in Unit, ~IsSurrogate(w)
  PROVE  /\ Decoded(EncodeUnit(w)) = w
         /\ SequenceLength(EncodeUnit(w)[1]) = Len(EncodeUnit(w))
<1>1. w \in Int /\ 0 <= w /\ w <= 65535
  BY UnitIs
<1>2. CASE w < 128
  <2>1. EncodeUnit(w) = <<w>>
    BY <1>2 DEF EncodeUnit
  <2>2. SequenceLength(w) = 1
    BY <1>2 DEF SequenceLength
  <2>3. Decoded(<<w>>) = w
    BY <1>1, <1>2, <2>2 DEF Decoded
  <2>4. QED
    BY <2>1, <2>2, <2>3
<1>3. CASE 128 <= w /\ w < 2048
  <2> DEFINE b1 == 192 + w \div 64
             b2 == 128 + (w % 64)
  <2>1. EncodeUnit(w) = <<b1, b2>>
    BY <1>1, <1>3 DEF EncodeUnit
  <2>2. b1 \in 192..223 /\ b2 - 128 \in 0..63 /\ (b1 - 192) * 64 + b2 - 128 = w
    BY <1>1, <1>3
  <2> HIDE DEF b1, b2
  <2>3. SequenceLength(b1) = 2
    BY <2>2 DEF SequenceLength
  <2>4. Decoded(<<b1, b2>>) = w
    BY <1>1, <1>3, <2>2, <2>3 DEF Decoded
  <2>5. QED
    BY <2>1, <2>3, <2>4
<1>4. CASE 2048 <= w
  <2> DEFINE b1 == 224 + w \div 4096
             b2 == 128 + ((w \div 64) % 64)
             b3 == 128 + (w % 64)
  <2>1. EncodeUnit(w) = <<b1, b2, b3>>
    BY <1>1, <1>4 DEF EncodeUnit
  <2>2. /\ b1 \in 224..239 /\ b2 - 128 \in 0..63 /\ b3 - 128 \in 0..63
        /\ (b1 - 224) * 4096 + (b2 - 128) * 64 + (b3 - 128) = w
    BY <1>1, <1>4
  <2> HIDE DEF b1, b2, b3
  <2>3. SequenceLength(b1) = 3
    BY <2>2 DEF SequenceLength
  <2>4. Decoded(<<b1, b2, b3>>) = w
    BY <1>1, <1>4, <2>2, <2>3 DEF Decoded
  <2>5. QED
    BY <2>1, <2>3, <2>4
<1>5. QED
  BY <1>1, <1>2, <1>3, <1>4

\* The same for a pair.
LEMMA PairIsDecoded ==
  ASSUME NEW cp \in CodePoints
  PROVE  /\ Decoded(EncodePair(cp)) = cp
         /\ SequenceLength(EncodePair(cp)[1]) = Len(EncodePair(cp))
<1>1. cp \in Int /\ 65536 <= cp /\ cp <= 1114111
  BY CodePointIs
<1> DEFINE b1 == 240 + cp \div 262144
           b2 == 128 + ((cp \div 4096) % 64)
           b3 == 128 + ((cp \div 64) % 64)
           b4 == 128 + (cp % 64)
<1>2. EncodePair(cp) = <<b1, b2, b3, b4>>
  BY DEF EncodePair
<1>3. /\ b1 \in 240..247 /\ b2 - 128 \in 0..63 /\ b3 - 128 \in 0..63 /\ b4 - 128 \in 0..63
      /\ (b1 - 240) * 262144 + (b2 - 128) * 4096 + (b3 - 128) * 64 + (b4 - 128) = cp
  BY <1>1, SMT
<1> HIDE DEF b1, b2, b3, b4
<1>4. SequenceLength(b1) = 4
  BY <1>3, SMT DEF SequenceLength
<1>5. ~IsSurrogate(cp)
  BY <1>1, SMT DEF IsSurrogate, IsHigh, IsLow
<1>6. Decoded(<<b1, b2, b3, b4>>) = cp
  BY <1>1, <1>3, <1>4, <1>5, SMT DEF Decoded
<1>7. QED
  BY <1>2, <1>4, <1>6

-----------------------------------------------------------------------------
(* Induction, in the form of a least element of a set.                     *)

LEMMA LeastElement ==
  ASSUME NEW S, S \subseteq Nat, S # {}
  PROVE  \E n \in S : \A m \in S : n <= m
<1>1. PICK n \in S : \A m \in S : ~(<<m, n>> \in OpToRel(<, Nat))
  BY WFMin, NatLessThanWellFounded
<1>2. \A m \in S : ~(m < n)
  BY <1>1 DEF OpToRel
<1>3. QED
  BY <1>2

LEMMA SetInduction ==
  ASSUME NEW S, 0 \in S, \A n \in Nat : n \in S => n + 1 \in S
  PROVE  \A n \in Nat : n \in S
<1> SUFFICES ASSUME NEW k \in Nat, k \notin S PROVE FALSE
  OBVIOUS
<1> DEFINE Out == {n \in Nat : n \notin S}
<1>1. PICK n \in Out : \A m \in Out : n <= m
  BY LeastElement
<1>2. n # 0 /\ n - 1 \in Nat
  BY <1>1
<1>3. n - 1 \in S
  BY <1>1, <1>2
<1>4. QED
  BY <1>1, <1>2, <1>3

-----------------------------------------------------------------------------
(* Decoding bytes that are appended.                                       *)

\* What is decoded at place n, and where decoding goes on.
Value(b, n) ==
  LET last == n + SequenceLength(b[n]) - 1
  IN IF last > Len(b) THEN Invalid ELSE Decoded(SubSeq(b, n, last))
Following(b, n) == n + SequenceLength(b[n]) - 1 + 1

DecodeFrom(b, f, n) ==
  IF n > Len(b) THEN <<>>
  ELSE IF Value(b, n) = Invalid THEN <<Invalid>> ELSE <<Value(b, n)>> \o f[Following(b, n)]
IsDecoder(b, f) == f = [n \in 1..(Len(b) + 1) |-> DecodeFrom(b, f, n)]
Decoder(b) == CHOOSE f : IsDecoder(b, f)

LEMMA DecodeIsDecoder == \A b : DecodeUtf8(b) = Decoder(b)[1]
BY DEF DecodeUtf8, Decoder, IsDecoder, DecodeFrom, Value, Following

LEMMA LengthType == \A c : SequenceLength(c) \in 0..4
BY DEF SequenceLength

\* Nothing is decoded from no bytes.
Read(t) ==
  LET k == SequenceLength(t[1])
      c(n) == t[n] - \h80
  IN CASE k = 1 -> t[1]
       [] k = 2 -> (t[1] - \hC0) * 64 + c(2)
       [] k = 3 -> (t[1] - \hE0) * 4096 + c(2) * 64 + c(3)
       [] OTHER -> (t[1] - \hF0) * 262144 + c(2) * 4096 + c(3) * 64 + c(4)
CanRead(t, k, cp) ==
  /\ k # 0 /\ k = Len(t) /\ \A n \in 2..k : t[n] - \h80 \in 0..63
  /\ cp >= <<0, \h80, \h800, \h10000>>[k]
  /\ cp <= \h10FFFF /\ ~IsSurrogate(cp)

LEMMA NothingDecoded ==
  ASSUME NEW t, Len(t) = 0
  PROVE  Decoded(t) = Invalid
<1>1. Decoded(t) = IF CanRead(t, SequenceLength(t[1]), Read(t)) THEN Read(t) ELSE Invalid
  BY DEF Decoded, CanRead, Read
<1>2. \A k, cp : CanRead(t, k, cp) => k # 0 /\ k = Len(t)
  BY SMT DEF CanRead
<1>3. QED
  BY <1>1, <1>2

\* Decoding goes on behind a sequence that is valid.
LEMMA FollowingType ==
  ASSUME NEW b \in Seq(0..255), NEW n \in 1..Len(b), Value(b, n) # Invalid
  PROVE  /\ Following(b, n) \in (n + 1)..(Len(b) + 1)
         /\ Following(b, n) = n + SequenceLength(b[n]) /\ SequenceLength(b[n]) \in 1..4
         /\ Value(b, n) = Decoded(SubSeq(b, n, n + SequenceLength(b[n]) - 1))
<1>1. PICK k \in 0..4 : k = SequenceLength(b[n])
  BY LengthType
<1>2. PICK last \in Int : last = n + k - 1
  OBVIOUS
<1>3. Len(b) \in Nat /\ ~(last > Len(b)) /\ Value(b, n) = Decoded(SubSeq(b, n, last))
  BY <1>1, <1>2, LenProperties DEF Value
<1>4. k # 0
  <2>1. SUFFICES ASSUME k = 0 PROVE FALSE
    OBVIOUS
  <2>2. Len(SubSeq(b, n, last)) = 0
    BY <1>2, <1>3, <2>1
  <2>3. QED
    BY <1>3, <2>2, NothingDecoded
<1>5. Following(b, n) = n + k
  <2>1. Following(b, n) = n + k - 1 + 1
    BY <1>1 DEF Following
  <2>2. QED
    BY <2>1
<1>6. n + k \in (n + 1)..(Len(b) + 1)
  BY <1>2, <1>3, <1>4
<1>7. QED
  BY <1>1, <1>2, <1>3, <1>4, <1>5, <1>6

Values(b) == {Value(b, n) : n \in 1..Len(b)} \cup {Invalid}
Places(b) == 1..(Len(b) + 1)

LEMMA DecodeFromType ==
  ASSUME NEW b \in Seq(0..255), NEW f \in [Places(b) -> Seq(Values(b))], NEW n \in Places(b)
  PROVE  DecodeFrom(b, f, n) \in Seq(Values(b))
<1>1. CASE n > Len(b)
  BY <1>1 DEF DecodeFrom
<1>2. CASE ~(n > Len(b))
  <2>1. n \in 1..Len(b) /\ Len(b) \in Nat
    BY <1>2, LenProperties DEF Places
  <2>2. Value(b, n) \in Values(b) /\ Invalid \in Values(b)
    BY <2>1 DEF Values
  <2>3. CASE Value(b, n) = Invalid
    <3>1. <<Invalid>> \in Seq(Values(b))
      BY <2>2
    <3>2. QED
      BY <1>2, <2>3, <3>1 DEF DecodeFrom
  <2>4. CASE Value(b, n) # Invalid
    <3>1. Following(b, n) \in Places(b)
      BY <2>1, <2>4, FollowingType DEF Places
    <3>2. f[Following(b, n)] \in Seq(Values(b)) /\ <<Value(b, n)>> \in Seq(Values(b))
      BY <2>2, <3>1
    <3>3. <<Value(b, n)>> \o f[Following(b, n)] \in Seq(Values(b))
      BY <3>2, ConcatProperties
    <3>4. QED
      BY <1>2, <2>4, <3>3 DEF DecodeFrom
  <2>5. QED
    BY <2>3, <2>4
<1>3. QED
  BY <1>1, <1>2

\* Decoding at a place depends on the places behind it.
LEMMA DecodeFromLater ==
  ASSUME NEW b \in Seq(0..255), NEW f, NEW g, NEW n \in Places(b),
         \A m \in Places(b) : m > n => f[m] = g[m]
  PROVE  DecodeFrom(b, f, n) = DecodeFrom(b, g, n)
<1>1. CASE n > Len(b)
  BY <1>1 DEF DecodeFrom
<1>2. CASE ~(n > Len(b)) /\ Value(b, n) = Invalid
  BY <1>2 DEF DecodeFrom
<1>3. CASE ~(n > Len(b)) /\ Value(b, n) # Invalid
  <2>1. n \in 1..Len(b) /\ Len(b) \in Nat
    BY <1>3, LenProperties DEF Places
  <2>2. Following(b, n) \in (n + 1)..(Len(b) + 1)
    BY <1>3, <2>1, FollowingType
  <2>3. Following(b, n) \in Places(b) /\ Following(b, n) > n
    BY <2>1, <2>2 DEF Places
  <2>4. f[Following(b, n)] = g[Following(b, n)]
    BY <2>3
  <2>5. QED
    BY <1>3, <2>4 DEF DecodeFrom
<1>4. QED
  BY <1>1, <1>2, <1>3

\* The decoder of any bytes exists: it is built from the end.
LEMMA DecoderExists ==
  ASSUME NEW b \in Seq(0..255)
  PROVE  /\ Decoder(b) \in [Places(b) -> Seq(Values(b))]
         /\ \A n \in Places(b) : Decoder(b)[n] = DecodeFrom(b, Decoder(b), n)
<1>0. PICK N \in Nat : N = Len(b)
  BY LenProperties
<1>1. Places(b) = 1..(N + 1)
  BY <1>0 DEF Places
<1> DEFINE Fs == [Places(b) -> Seq(Values(b))]
           Decodes(f, n) == f[n] = DecodeFrom(b, f, n)
           Upto == {m \in Nat : m <= N =>
                      \E f \in Fs : \A n \in Places(b) : n >= N + 1 - m => Decodes(f, n)}
<1>2. 0 \in Upto
  <2> DEFINE f == [n \in Places(b) |-> <<>>]
  <2>1. f \in Fs
    OBVIOUS
  <2>2. ASSUME NEW n \in Places(b), n >= N + 1 - 0 PROVE Decodes(f, n)
    <3>1. n > Len(b)
      BY <1>0, <1>1, <2>2
    <3>2. DecodeFrom(b, f, n) = <<>>
      BY <3>1 DEF DecodeFrom
    <3>3. QED
      BY <3>2
  <2> HIDE DEF f
  <2>3. QED
    BY <2>1, <2>2
<1>3. ASSUME NEW m \in Nat, m \in Upto PROVE m + 1 \in Upto
  <2>1. SUFFICES ASSUME m + 1 <= N
                 PROVE  \E f \in Fs : \A n \in Places(b) : n >= N + 1 - (m + 1) => Decodes(f, n)
    OBVIOUS
  <2>2. PICK f \in Fs : \A n \in Places(b) : n >= N + 1 - m => Decodes(f, n)
    BY <1>3, <2>1
  <2>3. PICK p \in Places(b) : p = N - m
    BY <1>1, <2>1
  <2> DEFINE g == [f EXCEPT ![p] = DecodeFrom(b, f, p)]
  <2>4. g \in Fs /\ g[p] = DecodeFrom(b, f, p) /\ \A n \in Places(b) : n # p => g[n] = f[n]
    BY DecodeFromType
  <2> HIDE DEF g
  <2>5. ASSUME NEW n \in Places(b), n >= p PROVE DecodeFrom(b, g, n) = DecodeFrom(b, f, n)
    <3>1. \A l \in Places(b) : l > n => g[l] = f[l]
      <4>1. \A l \in Places(b) : l > n => l # p
        BY <1>1, <2>5
      <4>2. QED
        BY <2>4, <4>1
    <3>2. QED
      BY <3>1, DecodeFromLater
  <2>6. ASSUME NEW n \in Places(b), n >= N + 1 - (m + 1) PROVE Decodes(g, n)
    <3>1. n >= p /\ (n = p \/ n >= N + 1 - m)
      BY <1>1, <2>3, <2>6
    <3>2. DecodeFrom(b, g, n) = DecodeFrom(b, f, n)
      BY <2>5, <3>1
    <3>3. CASE n = p
      BY <2>4, <3>2, <3>3
    <3>4. CASE n # p
      BY <2>2, <2>4, <3>1, <3>2, <3>4
    <3>5. QED
      BY <3>3, <3>4
  <2>7. QED
    BY <2>4, <2>6
<1>4. N \in Upto
  <2> HIDE DEF Upto
  <2>1. QED
    BY <1>2, <1>3, SetInduction
<1>5. PICK f \in Fs : \A n \in Places(b) : Decodes(f, n)
  <2>1. \A n \in Places(b) : n >= N + 1 - N
    BY <1>1
  <2>2. QED
    BY <1>4, <2>1
<1>6. IsDecoder(b, f)
  <2>1. f = [n \in Places(b) |-> DecodeFrom(b, f, n)]
    BY <1>5
  <2>2. QED
    BY <2>1 DEF IsDecoder, Places
<1>7. IsDecoder(b, Decoder(b))
  BY <1>6 DEF Decoder
<1>8. Decoder(b) = [n \in Places(b) |-> DecodeFrom(b, Decoder(b), n)]
  BY <1>7 DEF IsDecoder, Places
\* There is but one decoder.
<1> DEFINE d == Decoder(b)
           Same == {m \in Nat : \A n \in Places(b) : n >= N + 1 - m => d[n] = f[n]}
<1> HIDE DEF d
<1>9. 0 \in Same
  <2>1. ASSUME NEW n \in Places(b), n >= N + 1 - 0 PROVE d[n] = f[n]
    <3>1. n > Len(b)
      BY <1>0, <1>1, <2>1
    <3>2. DecodeFrom(b, d, n) = <<>> /\ DecodeFrom(b, f, n) = <<>>
      BY <3>1 DEF DecodeFrom
    <3>3. d[n] = DecodeFrom(b, d, n)
      BY <1>8 DEF d
    <3>4. QED
      BY <1>5, <3>2, <3>3
  <2>2. QED
    BY <2>1
<1>10. ASSUME NEW m \in Nat, m \in Same PROVE m + 1 \in Same
  <2>1. ASSUME NEW n \in Places(b), n >= N + 1 - (m + 1) PROVE d[n] = f[n]
    <3>1. \A l \in Places(b) : l > n => d[l] = f[l]
      <4>1. \A l \in Places(b) : l > n => l >= N + 1 - m
        BY <1>1, <2>1
      <4>2. QED
        BY <1>10, <4>1
    <3>2. DecodeFrom(b, d, n) = DecodeFrom(b, f, n)
      BY <3>1, DecodeFromLater
    <3>3. d[n] = DecodeFrom(b, d, n)
      BY <1>8 DEF d
    <3>4. QED
      BY <1>5, <3>2, <3>3
  <2>2. QED
    BY <2>1
<1>11. N \in Same
  <2> HIDE DEF Same
  <2>1. QED
    BY <1>9, <1>10, SetInduction
<1>12. \A n \in Places(b) : d[n] = f[n]
  <2>1. \A n \in Places(b) : n >= N + 1 - N
    BY <1>1
  <2>2. QED
    BY <1>11, <2>1
<1>13. d = f
  <2>1. d = [n \in Places(b) |-> DecodeFrom(b, d, n)]
    BY <1>8 DEF d
  <2>2. d = [n \in Places(b) |-> d[n]]
    BY <2>1
  <2>3. f = [n \in Places(b) |-> f[n]]
    BY <1>5
  <2>4. QED
    BY <1>12, <2>2, <2>3
<1>14. QED
  BY <1>5, <1>13 DEF d

\* What is behind the first element of a sequence.
LEMMA Uncons ==
  ASSUME NEW S, NEW T, NEW x, NEW s \in Seq(S), <<x>> \o s \in Seq(T)
  PROVE  x \in T /\ s \in Seq(T)
<1>1. <<x>> \in Seq({x}) /\ Len(<<x>>) = 1 /\ <<x>>[1] = x
  OBVIOUS
<1>2. /\ Len(<<x>> \o s) = 1 + Len(s) /\ Len(s) \in Nat
      /\ (<<x>> \o s)[1] = x /\ \A n \in 1..Len(s) : (<<x>> \o s)[1 + n] = s[n]
  <2>1. <<x>> \in Seq({x} \cup S) /\ s \in Seq({x} \cup S)
    BY SeqMonotonic
  <2>2. QED
    BY <1>1, <2>1, ConcatProperties, LenProperties
<1>3. \A n \in 1..(1 + Len(s)) : (<<x>> \o s)[n] \in T
  BY <1>2, ElementOfSeq
<1>4. x \in T
  BY <1>2, <1>3
<1>5. \A n \in 1..Len(s) : s[n] \in T
  <2>1. \A n \in 1..Len(s) : 1 + n \in 1..(1 + Len(s))
    BY <1>2
  <2>2. QED
    BY <1>2, <1>3, <2>1
<1>6. s \in Seq(T)
  <2>1. s \in [1..Len(s) -> T]
    BY <1>5, LenProperties
  <2>2. QED
    BY <1>2, <2>1, SeqDef
<1>7. QED
  BY <1>4, <1>6

LEMMA Associative ==
  \A x \in Seq(Nat), y \in Seq(Nat), z \in Seq(Nat) : (x \o y) \o z = x \o (y \o z)
<1> SUFFICES ASSUME NEW x \in Seq(Nat), NEW y \in Seq(Nat), NEW z \in Seq(Nat)
             PROVE  (x \o y) \o z = x \o (y \o z)
  OBVIOUS
<1> DEFINE S == Nat
<1>1. x \in Seq(S) /\ y \in Seq(S) /\ z \in Seq(S)
  OBVIOUS
<1> HIDE DEF S
<1>2. QED
  BY <1>1, ConcatAssociative, SMTT(30)

\* One sequence more is one code point more.
LEMMA DecodeAppend ==
  ASSUME NEW u \in Seq(0..255), NEW t \in Seq(0..255),
         Len(t) \in 1..4, SequenceLength(t[1]) = Len(t), Decoded(t) \in Nat,
         DecodeUtf8(u) \in Seq(Nat)
  PROVE  DecodeUtf8(u \o t) = DecodeUtf8(u) \o <<Decoded(t)>>
<1>0. PICK N \in Nat, k \in 1..4, cp \in Nat : N = Len(u) /\ k = Len(t) /\ cp = Decoded(t)
  BY LenProperties
<1> DEFINE b == u \o t
<1>1. /\ b \in Seq(0..255) /\ Len(b) = N + k
      /\ \A n \in 1..N : b[n] = u[n]
      /\ b[N + 1] = t[1] /\ SubSeq(b, N + 1, N + k) = t
      /\ \A n, m \in 1..N : SubSeq(b, n, m) = SubSeq(u, n, m)
  <2>1. b \in Seq(0..255) /\ Len(b) = N + k
    BY <1>0, ConcatProperties
  <2>2. \A n \in 1..N : b[n] = u[n]
    BY <1>0, ConcatProperties
  <2>3. b[N + 1] = t[1]
    <3>1. N + 1 \in 1..(N + k) /\ ~(N + 1 <= N) /\ N + 1 - N = 1
      OBVIOUS
    <3>2. QED
      BY <1>0, <3>1, ConcatProperties
  <2>4. SubSeq(b, N + 1, N + k) = t
    <3>1. N + 1 \in (N + 1)..(N + k) /\ N + k \in (N + 1)..(N + k)
      OBVIOUS
    <3>2. N + 1 - N = 1 /\ N + k - N = k
      OBVIOUS
    <3>3. SubSeq(b, N + 1, N + k) = SubSeq(t, 1, k)
      BY <1>0, <3>1, <3>2, SubSeqOfConcat2
    <3>4. QED
      BY <1>0, <3>3, SubSeqFull
  <2>5. \A n, m \in 1..N : SubSeq(b, n, m) = SubSeq(u, n, m)
    BY <1>0, SubSeqOfConcat1
  <2>6. QED
    BY <2>1, <2>2, <2>3, <2>4, <2>5
<1> HIDE DEF b
<1> DEFINE fu == Decoder(u)
           fb == Decoder(b)
<1>2. /\ fu \in [Places(u) -> Seq(Values(u))] /\ \A n \in Places(u) : fu[n] = DecodeFrom(u, fu, n)
      /\ fb \in [Places(b) -> Seq(Values(b))] /\ \A n \in Places(b) : fb[n] = DecodeFrom(b, fb, n)
  BY <1>1, DecoderExists
<1> HIDE DEF fu, fb
<1>3. Places(u) = 1..(N + 1) /\ Places(b) = 1..(N + k + 1)
  BY <1>0, <1>1 DEF Places
<1>4. Invalid \notin Nat
  BY DEF Invalid
\* The decoder comes to the end of u, and takes t.
<1>5. fu[N + 1] = <<>> /\ fb[N + 1] = <<cp>>
  <2>1. fu[N + 1] = <<>>
    <3>1. N + 1 > Len(u) /\ N + 1 \in Places(u)
      BY <1>0, <1>3
    <3>2. QED
      BY <1>2, <3>1 DEF DecodeFrom
  <2>2. SequenceLength(b[N + 1]) = k
    BY <1>0, <1>1
  <2>3. Value(b, N + 1) = cp
    <3>1. N + 1 + k - 1 = N + k /\ ~(N + k > Len(b))
      BY <1>1
    <3>2. Value(b, N + 1) = Decoded(SubSeq(b, N + 1, N + k))
      BY <2>2, <3>1 DEF Value
    <3>3. QED
      BY <1>0, <1>1, <3>2
  <2>4. Following(b, N + 1) = N + k + 1
    <3>1. Following(b, N + 1) = N + 1 + k - 1 + 1
      BY <2>2 DEF Following
    <3>2. QED
      BY <3>1
  <2>5. fb[N + k + 1] = <<>>
    <3>1. N + k + 1 > Len(b) /\ N + k + 1 \in Places(b)
      BY <1>1, <1>3
    <3>2. QED
      BY <1>2, <3>1 DEF DecodeFrom
  <2>6. fb[N + 1] = <<cp>> \o <<>>
    <3>1. ~(N + 1 > Len(b)) /\ N + 1 \in Places(b)
      BY <1>1, <1>3
    <3>2. Value(b, N + 1) # Invalid
      BY <1>4, <2>3
    <3>3. QED
      BY <1>2, <2>3, <2>4, <2>5, <3>1, <3>2 DEF DecodeFrom
  <2>7. QED
    BY <2>1, <2>6
\* Before that it does what it did.
<1>6. ASSUME NEW n \in 1..N, fu[n] \in Seq(Nat)
      PROVE  /\ Following(u, n) \in (n + 1)..(N + 1) /\ fu[Following(u, n)] \in Seq(Nat)
             /\ fu[Following(u, n)] \in Seq(Values(u)) /\ Value(u, n) \in Nat
             /\ fu[n] = <<Value(u, n)>> \o fu[Following(u, n)]
             /\ fb[n] = <<Value(u, n)>> \o fb[Following(u, n)]
  <2>1. n \in Places(u) /\ n \in Places(b) /\ ~(n > Len(u)) /\ ~(n > Len(b)) /\ n \in 1..Len(u)
    <3>1. n \in 1..(N + 1) /\ n \in 1..(N + k + 1) /\ ~(n > N) /\ ~(n > N + k)
      OBVIOUS
    <3>2. Len(u) = N /\ Len(b) = N + k
      BY <1>0, <1>1
    <3>3. QED
      BY <1>3, <3>1, <3>2
  <2>2. Value(u, n) # Invalid
    <3>1. SUFFICES ASSUME Value(u, n) = Invalid PROVE FALSE
      OBVIOUS
    <3>2. fu[n] = <<Invalid>>
      BY <1>2, <2>1, <3>1 DEF DecodeFrom
    <3>3. QED
      BY <1>4, <1>6, <3>2
  <2>3. /\ Following(u, n) \in (n + 1)..(Len(u) + 1)
        /\ Following(u, n) = n + SequenceLength(u[n]) /\ SequenceLength(u[n]) \in 1..4
        /\ Value(u, n) = Decoded(SubSeq(u, n, n + SequenceLength(u[n]) - 1))
    BY <2>1, <2>2, FollowingType
  <2>4. PICK l \in 1..4 : l = SequenceLength(u[n])
    BY <2>3
  <2>5. Following(b, n) = Following(u, n) /\ SequenceLength(b[n]) = l
    BY <1>1, <2>4 DEF Following
  <2>6. PICK last \in Int : last = n + l - 1 /\ n <= last /\ last <= N
    <3>1. n + l <= N + 1
      BY <1>0, <2>3, <2>4
    <3>2. QED
      BY <3>1
  <2>7. SubSeq(b, n, last) = SubSeq(u, n, last)
    <3>1. last \in 1..N
      BY <2>6
    <3>2. QED
      BY <1>1, <3>1
  <2>8. Value(b, n) = Value(u, n)
    <3>1. Value(b, n) = Decoded(SubSeq(b, n, last))
      BY <1>1, <2>5, <2>6 DEF Value
    <3>2. Value(u, n) = Decoded(SubSeq(u, n, last))
      BY <2>3, <2>4, <2>6
    <3>3. QED
      BY <2>7, <3>1, <3>2
  <2>9. fu[n] = <<Value(u, n)>> \o fu[Following(u, n)]
    BY <1>2, <2>1, <2>2 DEF DecodeFrom
  <2>10. fb[n] = <<Value(u, n)>> \o fb[Following(u, n)]
    BY <1>2, <2>1, <2>2, <2>5, <2>8 DEF DecodeFrom
  <2>11. Following(u, n) \in Places(u) /\ fu[Following(u, n)] \in Seq(Values(u))
    BY <1>0, <1>2, <1>3, <2>3
  <2>12. Value(u, n) \in Nat /\ fu[Following(u, n)] \in Seq(Nat)
    BY <1>6, <2>9, <2>11, Uncons
  <2>13. QED
    BY <1>0, <2>3, <2>9, <2>10, <2>11, <2>12
<1>7. ASSUME NEW n \in Places(u), fu[n] \in Seq(Nat), fb[n] # fu[n] \o <<cp>> PROVE FALSE
  <2> DEFINE Bad == {m \in Nat : \E l \in Places(u) :
                       m = N + 1 - l /\ fu[l] \in Seq(Nat) /\ fb[l] # fu[l] \o <<cp>>}
  <2>1. N + 1 - n \in Bad
    <3>1. N + 1 - n \in Nat
      BY <1>3
    <3>2. QED
      BY <1>7, <3>1
  <2>2. PICK m \in Bad : \A o \in Bad : m <= o
    <3>1. Bad \subseteq Nat /\ Bad # {}
      BY <2>1
    <3> HIDE DEF Bad
    <3>2. QED
      BY <3>1, LeastElement
  <2>3. PICK l \in Places(u) : m = N + 1 - l /\ fu[l] \in Seq(Nat) /\ fb[l] # fu[l] \o <<cp>>
    BY <2>2
  <2>4. l \in 1..N
    <3>1. <<>> \o <<cp>> = <<cp>>
      OBVIOUS
    <3>2. l # N + 1
      BY <1>5, <2>3, <3>1
    <3>3. l \in 1..(N + 1)
      BY <1>3
    <3>4. QED
      BY <3>2, <3>3
  <2>5. PICK f \in (l + 1)..(N + 1), v \in Nat :
          /\ fu[f] \in Seq(Nat) /\ fu[l] = <<v>> \o fu[f] /\ fb[l] = <<v>> \o fb[f]
    BY <1>6, <2>3, <2>4
  <2>6. fb[f] = fu[f] \o <<cp>>
    <3>1. SUFFICES ASSUME fb[f] # fu[f] \o <<cp>> PROVE FALSE
      OBVIOUS
    <3>2. PICK o \in Nat : o = N + 1 - f /\ o < m /\ m \in Nat
      BY <2>3, <2>4
    <3>3. f \in Places(u)
      BY <1>3, <2>4
    <3>4. o \in Bad
      BY <2>5, <3>1, <3>2, <3>3
    <3>5. m <= o
      BY <2>2, <3>4
    <3>6. QED
      BY <3>2, <3>5
  <2>7. (<<v>> \o fu[f]) \o <<cp>> = <<v>> \o (fu[f] \o <<cp>>)
    <3>1. <<v>> \in Seq(Nat) /\ <<cp>> \in Seq(Nat) /\ fu[f] \in Seq(Nat)
      BY <2>5
    <3> DEFINE head == <<v>>
               rest == fu[f]
               last == <<cp>>
    <3>2. head \in Seq(Nat) /\ rest \in Seq(Nat) /\ last \in Seq(Nat)
      BY <3>1
    <3> HIDE DEF head, rest, last
    <3>3. (head \o rest) \o last = head \o (rest \o last)
      BY <3>2, Associative, ZenonT(40)
    <3>4. QED
      BY <3>3 DEF head, rest, last
  <2>8. QED
    BY <2>3, <2>5, <2>6, <2>7
<1>8. fb[1] = fu[1] \o <<cp>>
  <2>1. 1 \in Places(u) /\ fu[1] \in Seq(Nat)
    BY <1>3, DecodeIsDecoder DEF fu
  <2>2. QED
    BY <1>7, <2>1
<1>9. QED
  BY <1>0, <1>8, DecodeIsDecoder DEF fu, fb, b

-----------------------------------------------------------------------------
(* The UTF-16 of code points that are appended.                            *)

Units(c) == IF c = Invalid THEN <<Invalid>> ELSE UnitsOf(c)
UnitsUpto(s, f, n) == IF n = 0 THEN <<>> ELSE f[n - 1] \o Units(s[n])
IsWriter(s, f) == f = [n \in 0..Len(s) |-> UnitsUpto(s, f, n)]
Writer(s) == CHOOSE f : IsWriter(s, f)

LEMMA Utf16IsWriter == \A s : Utf16Of(s) = Writer(s)[Len(s)]
BY DEF Utf16Of, Writer, IsWriter, UnitsUpto, Units

LEMMA WriterExists ==
  ASSUME NEW s \in Seq(Nat)
  PROVE  \A n \in 0..Len(s) : Writer(s)[n] = UnitsUpto(s, Writer(s), n)
<1>0. PICK N \in Nat : N = Len(s)
  BY LenProperties
<1> DEFINE Writes(f, m) == /\ f = [n \in 0..N |-> f[n]]
                           /\ \A n \in 0..N : n <= m => f[n] = UnitsUpto(s, f, n)
           Upto == {m \in Nat : m <= N => \E f : Writes(f, m)}
<1>1. 0 \in Upto
  <2> DEFINE f == [n \in 0..N |-> <<>>]
  <2>1. ASSUME NEW n \in 0..N, n <= 0 PROVE f[n] = UnitsUpto(s, f, n)
    <3>1. n = 0 /\ f[n] = <<>>
      BY <2>1
    <3>2. QED
      BY <3>1 DEF UnitsUpto
  <2>2. f = [n \in 0..N |-> f[n]]
    OBVIOUS
  <2> HIDE DEF f
  <2>3. QED
    BY <2>1, <2>2
<1>2. ASSUME NEW m \in Nat, m \in Upto PROVE m + 1 \in Upto
  <2>1. SUFFICES ASSUME m + 1 <= N PROVE \E f : Writes(f, m + 1)
    OBVIOUS
  <2>2. PICK f : Writes(f, m)
    BY <1>2, <2>1
  <2> DEFINE g == [n \in 0..N |-> IF n = m + 1 THEN UnitsUpto(s, f, n) ELSE f[n]]
  <2>3. /\ g = [n \in 0..N |-> g[n]]
        /\ \A n \in 0..N : g[n] = IF n = m + 1 THEN UnitsUpto(s, f, n) ELSE f[n]
    OBVIOUS
  <2> HIDE DEF g
  <2>4. ASSUME NEW n \in 0..N, n <= m + 1 PROVE g[n] = UnitsUpto(s, g, n)
    <3>1. UnitsUpto(s, g, n) = UnitsUpto(s, f, n)
      <4>1. CASE n = 0
        BY <4>1 DEF UnitsUpto
      <4>2. CASE n # 0
        <5>1. n - 1 \in 0..N /\ n - 1 # m + 1
          BY <2>4, <4>2
        <5>2. g[n - 1] = f[n - 1]
          BY <2>3, <5>1
        <5>3. QED
          BY <4>2, <5>2 DEF UnitsUpto
      <4>3. QED
        BY <4>1, <4>2
    <3>2. CASE n = m + 1
      BY <2>3, <3>1, <3>2
    <3>3. CASE n # m + 1
      <4>1. n <= m
        BY <2>4, <3>3
      <4>2. QED
        BY <2>2, <2>3, <3>1, <3>3, <4>1
    <3>4. QED
      BY <3>2, <3>3
  <2>5. QED
    BY <2>3, <2>4
<1>3. N \in Upto
  <2> HIDE DEF Upto
  <2>1. QED
    BY <1>1, <1>2, SetInduction
<1>4. PICK f : Writes(f, N)
  BY <1>3
<1>5. IsWriter(s, f)
  <2>1. \A n \in 0..N : f[n] = UnitsUpto(s, f, n)
    BY <1>4
  <2>2. f = [n \in 0..N |-> UnitsUpto(s, f, n)]
    BY <1>4, <2>1
  <2>3. QED
    BY <1>0, <2>2 DEF IsWriter
<1>6. IsWriter(s, Writer(s))
  BY <1>5 DEF Writer
<1>7. Writer(s) = [n \in 0..Len(s) |-> UnitsUpto(s, Writer(s), n)]
  BY <1>6 DEF IsWriter
<1>8. QED
  BY <1>7

\* A code point more is its units more.
LEMMA Utf16Append ==
  ASSUME NEW s \in Seq(Nat), NEW cp \in Nat
  PROVE  Utf16Of(s \o <<cp>>) = Utf16Of(s) \o UnitsOf(cp)
<1>0. PICK N \in Nat : N = Len(s)
  BY LenProperties
<1> DEFINE t == s \o <<cp>>
<1>1. /\ t \in Seq(Nat) /\ Len(t) = N + 1 /\ t[N + 1] = cp
      /\ \A n \in 1..N : t[n] = s[n]
  BY <1>0
<1> HIDE DEF t
<1> DEFINE f == Writer(s)
           g == Writer(t)
<1>2. /\ \A n \in 0..N : f[n] = UnitsUpto(s, f, n)
      /\ \A n \in 0..(N + 1) : g[n] = UnitsUpto(t, g, n)
  BY <1>0, <1>1, WriterExists
<1> HIDE DEF f, g
<1> DEFINE Same == {m \in Nat : m <= N => g[m] = f[m]}
<1>3. 0 \in Same
  BY <1>2 DEF UnitsUpto
<1>4. ASSUME NEW m \in Nat, m \in Same PROVE m + 1 \in Same
  <2>1. SUFFICES ASSUME m + 1 <= N PROVE g[m + 1] = f[m + 1]
    OBVIOUS
  <2>2. /\ g[m] = f[m] /\ t[m + 1] = s[m + 1] /\ m + 1 # 0 /\ (m + 1) - 1 = m
        /\ m + 1 \in 0..N /\ m + 1 \in 0..(N + 1)
    <3>1. m <= N /\ m + 1 \in 1..N
      BY <2>1
    <3>2. QED
      BY <1>1, <1>4, <3>1
  <2>3. g[m + 1] = g[m] \o Units(t[m + 1]) /\ f[m + 1] = f[m] \o Units(s[m + 1])
    <3>1. g[m + 1] = UnitsUpto(t, g, m + 1) /\ f[m + 1] = UnitsUpto(s, f, m + 1)
      BY <1>2, <2>2
    <3>2. /\ UnitsUpto(t, g, m + 1) = g[(m + 1) - 1] \o Units(t[m + 1])
          /\ UnitsUpto(s, f, m + 1) = f[(m + 1) - 1] \o Units(s[m + 1])
      BY <2>2 DEF UnitsUpto
    <3>3. QED
      BY <2>2, <3>1, <3>2
  <2>4. QED
    BY <2>2, <2>3
<1>5. g[N] = f[N]
  <2>1. N \in Same
    <3> HIDE DEF Same
    <3>1. QED
      BY <1>3, <1>4, SetInduction
  <2>2. QED
    BY <2>1
<1>6. g[N + 1] = g[N] \o Units(cp)
  <2>1. N + 1 \in 0..(N + 1) /\ N + 1 # 0 /\ (N + 1) - 1 = N
    OBVIOUS
  <2>2. g[N + 1] = UnitsUpto(t, g, N + 1)
    BY <1>2, <2>1
  <2>3. UnitsUpto(t, g, N + 1) = g[(N + 1) - 1] \o Units(t[N + 1])
    BY <2>1 DEF UnitsUpto
  <2>4. QED
    BY <1>1, <2>1, <2>2, <2>3
<1>7. Units(cp) = UnitsOf(cp)
  BY DEF Units, Invalid
<1>8. Utf16Of(s) = f[N] /\ Utf16Of(t) = g[N + 1]
  BY <1>0, <1>1, Utf16IsWriter DEF f, g
<1>9. QED
  BY <1>5, <1>6, <1>7, <1>8 DEF t

\* Nothing is nothing in either encoding.
LEMMA OfNothing == DecodeUtf8(<<>>) = <<>> /\ Utf16Of(<<>>) = <<>>
<1>1. <<>> \in Seq(0..255) /\ <<>> \in Seq(Nat) /\ Len(<<>>) = 0
  OBVIOUS
<1>2. Decoder(<<>>)[1] = <<>>
  <2>1. 1 \in Places(<<>>) /\ 1 > Len(<<>>)
    BY <1>1 DEF Places
  <2>2. QED
    BY <1>1, <2>1, DecoderExists DEF DecodeFrom
<1>3. Writer(<<>>)[0] = <<>>
  <2>1. 0 \in 0..Len(<<>>)
    BY <1>1
  <2>2. QED
    BY <1>1, <2>1, WriterExists DEF UnitsUpto
<1>4. QED
  BY <1>1, <1>2, <1>3, DecodeIsDecoder, Utf16IsWriter
-----------------------------------------------------------------------------
(* Bytes that are put together of pieces.                                  *)

LEMMA ByteIs == \A x \in 0..255 : x \in Int
OBVIOUS

LEMMA BytesJoin ==
  ASSUME NEW s \in Seq(0..255), NEW t \in Seq(0..255), NEW u \in Seq(0..255)
  PROVE  (s \o t) \o u = s \o (t \o u)
<1> DEFINE S == 0..255
<1>1. s \in Seq(S) /\ t \in Seq(S) /\ u \in Seq(S)
  OBVIOUS
<1> HIDE DEF S
<1>2. QED
  BY <1>1, ConcatAssociative, SMTT(30)

\* The bytes s are the first r of the pieces p, counted from 0, one behind the
\* other; c[n] bytes are before piece n.
IsLayout(p, c, r, s) ==
  /\ c[0] = 0 /\ c[r] = Len(s)
  /\ \A n \in 0..(r - 1) :
       /\ c[n + 1] = c[n] + Len(p[n]) /\ c[n + 1] <= Len(s)
       /\ \A k \in 1..Len(p[n]) : s[c[n] + k] = p[n][k]
LaidOut(p, r, s) == \E c \in [0..r -> Nat] : IsLayout(p, c, r, s)

LEMMA NothingLaidOut == \A p : LaidOut(p, 0, <<>>)
<1> SUFFICES ASSUME NEW p PROVE LaidOut(p, 0, <<>>)
  OBVIOUS
<1> DEFINE c == [n \in 0..0 |-> 0]
<1>1. c \in [0..0 -> Nat] /\ c[0] = 0 /\ Len(<<>>) = 0
  OBVIOUS
<1> HIDE DEF c
<1>2. IsLayout(p, c, 0, <<>>)
  BY <1>1 DEF IsLayout
<1>3. QED
  BY <1>1, <1>2 DEF LaidOut

LEMMA Within == \A x, m, N \in Nat : x + m <= N => \A l \in 1..m : x + l \in 1..N
OBVIOUS

LEMMA LayOutMore ==
  ASSUME NEW p, NEW r \in Nat, \A n \in 0..r : p[n] \in Seq(0..255),
         NEW s \in Seq(0..255), NEW t \in Seq(0..255), t = p[r], LaidOut(p, r, s)
  PROVE  LaidOut(p, r + 1, s \o t)
<1>1. PICK c \in [0..r -> Nat] : IsLayout(p, c, r, s)
  BY DEF LaidOut
<1>2. PICK N \in Nat, k \in Nat, u \in Seq(0..255) :
        N = Len(s) /\ k = Len(t) /\ u = s \o t
  <2>1. s \o t \in Seq(0..255) /\ Len(s) \in Nat /\ Len(t) \in Nat
    BY ConcatProperties, LenProperties
  <2>2. QED
    BY <2>1
<1>3. /\ Len(u) = N + k /\ \A q \in 1..N : u[q] = s[q]
      /\ \A l \in 1..k : u[N + l] = t[l]
  <2>1. Len(u) = N + k /\ \A q \in 1..N : u[q] = s[q]
    BY <1>2, ConcatProperties
  <2>2. ASSUME NEW l \in 1..k PROVE u[N + l] = t[l]
    <3>1. N + l \in 1..(N + k) /\ ~(N + l <= N) /\ (N + l) - N = l
      OBVIOUS
    <3>2. QED
      BY <1>2, <3>1, ConcatProperties
  <2>3. QED
    BY <2>1, <2>2
<1> DEFINE d == [n \in 0..(r + 1) |-> IF n = r + 1 THEN N + k ELSE c[n]]
<1>4. /\ d \in [0..(r + 1) -> Nat] /\ d[r + 1] = N + k
      /\ \A n \in 0..r : d[n] = c[n]
  <2>1. \A n \in 0..(r + 1) : n = r + 1 \/ n \in 0..r
    OBVIOUS
  <2>2. \A n \in 0..r : n # r + 1 /\ n \in 0..(r + 1)
    OBVIOUS
  <2>3. QED
    BY <2>1, <2>2
<1> HIDE DEF d
<1>5. c[0] = 0 /\ c[r] = N
  BY <1>1, <1>2 DEF IsLayout
<1>6. ASSUME NEW n \in 0..((r + 1) - 1)
      PROVE  /\ d[n + 1] = d[n] + Len(p[n]) /\ d[n + 1] <= Len(u)
             /\ \A l \in 1..Len(p[n]) : u[d[n] + l] = p[n][l]
  <2>1. CASE n = r
    <3>1. d[n + 1] = N + k /\ d[n] = N /\ p[n] = t /\ Len(p[n]) = k
      BY <1>2, <1>4, <1>5, <2>1
    <3>2. \A l \in 1..k : u[N + l] = p[n][l]
      BY <1>3, <3>1
    <3>3. QED
      BY <1>3, <3>1, <3>2
  <2>2. CASE n # r
    <3>1. n \in 0..(r - 1) /\ n \in 0..r /\ n + 1 \in 0..r
      BY <2>2
    <3>2. /\ c[n + 1] = c[n] + Len(p[n]) /\ c[n + 1] <= N
          /\ \A l \in 1..Len(p[n]) : s[c[n] + l] = p[n][l]
      BY <1>1, <1>2, <3>1 DEF IsLayout
    <3>3. d[n] = c[n] /\ d[n + 1] = c[n + 1] /\ c[n] \in Nat /\ c[n + 1] \in Nat
      BY <1>4, <3>1
    <3>4. ASSUME NEW l \in 1..Len(p[n]) PROVE u[d[n] + l] = p[n][l]
      <4>1. PICK q \in Int : q = c[n] + l
        BY <3>3
      <4>2. p[n] \in Seq(0..255) /\ Len(p[n]) \in Nat
        BY <3>1, LenProperties
      <4>3. q \in 1..N
        <5>1. PICK x \in Nat, m \in Nat : x = c[n] /\ m = Len(p[n])
          BY <3>3, <4>2
        <5>2. x + m <= N /\ q = x + l /\ l \in 1..m
          BY <3>2, <4>1, <5>1
        <5>3. x + l \in 1..N
          BY <1>2, <5>1, <5>2, Within
        <5>4. QED
          BY <5>2, <5>3
      <4>4. u[q] = s[q]
        BY <1>3, <4>3
      <4>5. s[q] = p[n][l]
        BY <3>2, <4>1
      <4>6. d[n] + l = q
        BY <3>3, <4>1
      <4>7. QED
        BY <4>4, <4>5, <4>6
    <3>5. QED
      BY <1>3, <3>2, <3>3, <3>4
  <2>3. QED
    BY <2>1, <2>2
<1>7. IsLayout(p, d, r + 1, u)
  <2>1. d[0] = 0
    BY <1>4, <1>5
  <2>2. QED
    BY <1>3, <1>4, <1>6, <2>1 DEF IsLayout
<1>8. QED
  BY <1>2, <1>4, <1>7 DEF LaidOut

\* The same pieces are the same bytes.
LEMMA LaidOutOnce ==
  ASSUME NEW p, NEW r \in Nat, \A n \in 0..(r - 1) : p[n] \in Seq(0..255),
         NEW s \in Seq(0..255), NEW t \in Seq(0..255), LaidOut(p, r, s), LaidOut(p, r, t)
  PROVE  s = t
<1>1. PICK c \in [0..r -> Nat] : IsLayout(p, c, r, s)
  BY DEF LaidOut
<1>2. PICK d \in [0..r -> Nat] : IsLayout(p, d, r, t)
  BY DEF LaidOut
<1> DEFINE Same == {n \in Nat : n <= r => c[n] = d[n] /\ \A q \in 1..c[n] : s[q] = t[q]}
<1>3. 0 \in Same
  <2>1. c[0] = 0 /\ d[0] = 0
    BY <1>1, <1>2 DEF IsLayout
  <2>2. QED
    BY <2>1
<1>4. ASSUME NEW n \in Nat, n \in Same PROVE n + 1 \in Same
  <2>1. SUFFICES ASSUME n + 1 <= r
                 PROVE  c[n + 1] = d[n + 1] /\ \A q \in 1..c[n + 1] : s[q] = t[q]
    OBVIOUS
  <2>2. n \in 0..(r - 1) /\ n \in 0..r /\ n + 1 \in 0..r /\ n <= r
    BY <2>1
  <2>3. c[n] = d[n] /\ \A q \in 1..c[n] : s[q] = t[q]
    BY <1>4, <2>2
  <2>4. PICK x \in Nat, k \in Nat : x = c[n] /\ k = Len(p[n])
    BY <2>2, LenProperties
  <2>5. /\ c[n + 1] = x + k /\ d[n + 1] = x + k
        /\ \A l \in 1..k : s[x + l] = p[n][l] /\ t[x + l] = p[n][l]
    <3>1. c[n + 1] = x + k /\ \A l \in 1..k : s[x + l] = p[n][l]
      BY <1>1, <2>2, <2>4 DEF IsLayout
    <3>2. x = d[n]
      BY <2>3, <2>4
    <3>3. d[n + 1] = x + k /\ \A l \in 1..k : t[x + l] = p[n][l]
      BY <1>2, <2>2, <2>4, <3>2 DEF IsLayout
    <3>4. QED
      BY <3>1, <3>3
  <2>6. ASSUME NEW q \in 1..(x + k) PROVE s[q] = t[q]
    <3>1. CASE q <= x
      BY <2>3, <2>4, <3>1
    <3>2. CASE ~(q <= x)
      <4>1. PICK l \in 1..k : q = x + l
        <5>1. q - x \in 1..k /\ q = x + (q - x)
          BY <3>2
        <5>2. QED
          BY <5>1
      <4>2. QED
        BY <2>5, <4>1
    <3>3. QED
      BY <3>1, <3>2
  <2>7. QED
    BY <2>5, <2>6
<1>5. r \in Same
  <2> HIDE DEF Same
  <2>1. QED
    BY <1>3, <1>4, SetInduction
<1>6. PICK N \in Nat : N = Len(s) /\ N = Len(t) /\ \A q \in 1..N : s[q] = t[q]
  <2>1. c[r] = Len(s) /\ d[r] = Len(t) /\ Len(s) \in Nat
    BY <1>1, <1>2, LenProperties DEF IsLayout
  <2>2. QED
    BY <1>5, <2>1
<1>7. Len(s) = Len(t) /\ \A q \in 1..Len(s) : s[q] = t[q]
  BY <1>6
<1>8. QED
  BY <1>7, SeqEqual
=============================================================================
