--------------------------- MODULE Utf16ToUtf8Proofs ---------------------------
(***************************************************************************)
(* What TLAPS proves about the scalar converter, for every argument: when  *)
(* it throws, and that what it writes decodes to what it was given; and    *)
(* about main, which converts what it has generated, and converts it again *)
(* with the vector converter, for every length and whatever is drawn: when *)
(* the two results are the same.                                           *)
(***************************************************************************)
EXTENDS Utf16Benchmark, Utf16Proofs

\* The text in the machine's byte order, a unit at a time.
LEMMA TextIs ==
  ASSUME TypeOK
  PROVE  /\ Text \in Seq(Unit) /\ Len(Text) = Len(utf16) /\ Len(utf16) \in Nat
         /\ \A n \in 0..(Len(utf16) - 1) : W(n) \in Unit /\ Text[n + 1] = W(n)
<1>1. PICK N \in Nat : N = Len(utf16)
  BY LenProperties DEF TypeOK
<1>2. ASSUME NEW n \in 0..(N - 1) PROVE W(n) \in Unit
  <2>1. n + 1 \in 1..N
    OBVIOUS
  <2>2. utf16[n + 1] \in Unit
    BY <1>1, <2>1, ElementOfSeq DEF TypeOK
  <2>3. QED
    BY <2>2, HostType DEF W, TypeOK
<1>3. Text = [n \in 1..N |-> W(n - 1)]
  BY <1>1 DEF Text
<1>4. ASSUME NEW n \in 0..(N - 1) PROVE Text[n + 1] = W(n)
  <2>1. n + 1 \in 1..N /\ (n + 1) - 1 = n
    OBVIOUS
  <2>2. QED
    BY <1>3, <2>1
<1>5. Text \in Seq(Unit) /\ Len(Text) = N
  <2>1. ASSUME NEW n \in 1..N PROVE W(n - 1) \in Unit
    <3>1. n - 1 \in 0..(N - 1)
      OBVIOUS
    <3>2. QED
      BY <1>2, <3>1
  <2>2. Text \in [1..N -> Unit]
    BY <1>3, <2>1
  <2>3. QED
    BY <1>1, <2>2, LenProperties, SeqDef
<1>6. QED
  BY <1>1, <1>2, <1>4, <1>5

LEMMA TextStays == UNCHANGED <<utf16, le>> => Text' = Text
BY DEF Text, W

LEMMA TypesAtFirst == Init => TypeOK
<1>1. SUFFICES ASSUME Init PROVE TypeOK
  OBVIOUS
<1>2. utf16 \in Seq(Unit) /\ le \in BOOLEAN /\ utf8 = <<>> /\ i = 0 /\ pc = "loop"
  BY <1>1, StringsAssumption DEF Init
<1>3. i \in 0..Len(utf16)
  BY <1>2, LenProperties
<1>4. QED
  BY <1>2, <1>3 DEF TypeOK

LEMMA TypesStay == TypeOK /\ [Next]_vars => TypeOK'
<1> SUFFICES ASSUME TypeOK, [Next]_vars PROVE TypeOK'
  OBVIOUS
<1>1. PICK N \in Nat : N = Len(utf16) /\ i \in 0..N
  BY LenProperties DEF TypeOK
<1>2. \A n \in 0..(N - 1) : W(n) \in Unit
  BY <1>1, TextIs
<1>3. CASE PushUnit
  <2>1. i \in 0..(N - 1) /\ i + 1 \in 0..N
    BY <1>1, <1>3 DEF PushUnit, Looping
  <2>2. EncodeUnit(w1) \in Seq(0..255)
    BY <1>2, <2>1, EncodeUnitType DEF w1
  <2>3. utf8 \o EncodeUnit(w1) \in Seq(0..255)
    BY <2>2, ConcatProperties DEF TypeOK
  <2>4. /\ utf8' = utf8 \o EncodeUnit(w1) /\ i' = i + 1
        /\ utf16' = utf16 /\ le' = le /\ pc' = pc
    BY <1>3 DEF PushUnit
  <2>5. utf8' \in Seq(0..255) /\ i' \in 0..Len(utf16')
    BY <1>1, <2>1, <2>3, <2>4
  <2>6. QED
    BY <2>4, <2>5 DEF TypeOK
<1>4. CASE PushPair
  <2>1. i \in 0..(N - 1) /\ i + 1 \in 0..(N - 1) /\ i + 2 \in 0..N
    BY <1>1, <1>4 DEF PushPair, Looping, PairFollows, HasNext
  <2>2. CodePoint(w1, W(i + 1)) \in CodePoints
    BY <1>2, <1>4, <2>1, PairIsCodePoint DEF PushPair, PairFollows, w1
  <2>3. utf8 \o EncodePair(CodePoint(w1, W(i + 1))) \in Seq(0..255)
    BY <2>2, EncodePairType, ConcatProperties DEF TypeOK
  <2>4. /\ utf8' = utf8 \o EncodePair(CodePoint(w1, W(i + 1))) /\ i' = i + 2
        /\ utf16' = utf16 /\ le' = le /\ pc' = pc
    BY <1>4 DEF PushPair
  <2>5. utf8' \in Seq(0..255) /\ i' \in 0..Len(utf16')
    BY <1>1, <2>1, <2>3, <2>4
  <2>6. QED
    BY <2>4, <2>5 DEF TypeOK
<1>5. CASE Throw
  BY <1>5 DEF Throw, TypeOK
<1>6. CASE Return
  BY <1>6 DEF Return, TypeOK
<1>7. CASE UNCHANGED vars
  BY <1>7 DEF vars, TypeOK
<1>8. QED
  BY <1>3, <1>4, <1>5, <1>6, <1>7 DEF Next

\* What is written are bytes, what is read is in the argument.
THEOREM Typing == Spec => []TypeOK
BY TypesAtFirst, TypesStay, PTL DEF Spec

-----------------------------------------------------------------------------
(* The converter looks at a pair from its first unit only.  That no other  *)
(* unit goes unseen is because what has been read ends behind a pair, and  *)
(* never inside one.                                                       *)

PairedUpto(s, m) ==
  \A n \in 1..m : /\ IsHigh(s[n]) => n < m /\ IsLow(s[n + 1])
                  /\ IsLow(s[n]) => n > 1 /\ IsHigh(s[n - 1])

Paired ==
  /\ TypeOK
  /\ PairedUpto(Text, i)
  /\ pc = "done" => i = Len(utf16)
  /\ pc = "thrown" => ~WellFormed(Text)

LEMMA NotBoth == \A w \in Unit : ~(IsHigh(w) /\ IsLow(w))
BY UnitIs DEF IsHigh, IsLow

LEMMA PairedMore ==
  ASSUME NEW s, NEW m \in Nat, NEW k \in 1..2, PairedUpto(s, m),
         \/ k = 1 /\ ~IsSurrogate(s[m + 1])
         \/ k = 2 /\ IsHigh(s[m + 1]) /\ ~IsLow(s[m + 1])
                  /\ IsLow(s[m + 2]) /\ ~IsHigh(s[m + 2])
  PROVE  PairedUpto(s, m + k)
<1> SUFFICES ASSUME NEW n \in 1..(m + k)
             PROVE  /\ IsHigh(s[n]) => n < m + k /\ IsLow(s[n + 1])
                    /\ IsLow(s[n]) => n > 1 /\ IsHigh(s[n - 1])
  BY DEF PairedUpto
<1>1. CASE n \in 1..m
  <2>1. /\ IsHigh(s[n]) => n < m /\ IsLow(s[n + 1])
        /\ IsLow(s[n]) => n > 1 /\ IsHigh(s[n - 1])
    BY <1>1 DEF PairedUpto
  <2>2. QED
    BY <1>1, <2>1
<1>2. CASE n = m + 1
  <2>1. CASE k = 1
    BY <1>2, <2>1 DEF IsSurrogate
  <2>2. CASE k = 2
    <3>1. n + 1 = m + 2 /\ n < m + k
      BY <1>2, <2>2
    <3>2. QED
      BY <1>2, <2>2, <3>1
  <2>3. QED
    BY <2>1, <2>2
<1>3. CASE n = m + 2 /\ k = 2
  <2>1. n - 1 = m + 1 /\ n > 1
    BY <1>3
  <2>2. QED
    BY <1>3, <2>1
<1>4. QED
  BY <1>1, <1>2, <1>3

LEMMA PairedStays == Paired /\ TypeOK' /\ [Next]_vars => Paired'
<1> SUFFICES ASSUME Paired, TypeOK', [Next]_vars PROVE Paired'
  OBVIOUS
<1>1. PICK N \in Nat : N = Len(utf16) /\ N = Len(Text) /\ i \in 0..N
  BY TextIs DEF Paired, TypeOK
<1>2. \A n \in 0..(N - 1) : W(n) \in Unit /\ Text[n + 1] = W(n)
  BY <1>1, TextIs DEF Paired
<1>3. utf16' = utf16 /\ le' = le /\ Text' = Text
  BY TextStays DEF Next, PushUnit, PushPair, Throw, Return, vars
<1>4. CASE PushUnit
  <2>1. i \in 0..(N - 1) /\ i' = i + 1 /\ pc' = "loop"
    BY <1>1, <1>4 DEF PushUnit, Looping
  <2>2. ~IsSurrogate(Text[i + 1])
    BY <1>2, <1>4, <2>1 DEF PushUnit, w1
  <2>3. PairedUpto(Text, i + 1)
    BY <1>1, <2>2, PairedMore DEF Paired
  <2>4. PairedUpto(Text', i')
    BY <1>3, <2>1, <2>3
  <2>5. QED
    BY <2>1, <2>4 DEF Paired
<1>5. CASE PushPair
  <2>1. i \in 0..(N - 1) /\ i + 1 \in 0..(N - 1) /\ i' = i + 2 /\ pc' = "loop"
    BY <1>1, <1>5 DEF PushPair, Looping, PairFollows, HasNext
  <2>2. Text[i + 1] = W(i) /\ Text[i + 2] = W(i + 1) /\ W(i) \in Unit /\ W(i + 1) \in Unit
    <3>1. i + 1 + 1 = i + 2
      BY <2>1
    <3>2. QED
      BY <1>2, <2>1, <3>1
  <2>3. IsHigh(Text[i + 1]) /\ IsLow(Text[i + 2])
    BY <1>5, <2>2 DEF PushPair, PairFollows, w1
  <2>4. ~IsLow(Text[i + 1]) /\ ~IsHigh(Text[i + 2])
    BY <2>2, <2>3, NotBoth
  <2>5. PairedUpto(Text, i + 2)
    BY <1>1, <2>3, <2>4, PairedMore DEF Paired
  <2>6. PairedUpto(Text', i')
    BY <1>3, <2>1, <2>5
  <2>7. QED
    BY <2>1, <2>6 DEF Paired
<1>6. CASE Throw
  <2>1. i \in 0..(N - 1) /\ i' = i /\ pc' = "thrown"
    BY <1>1, <1>6 DEF Throw, Looping
  <2>2. Text[i + 1] = W(i)
    BY <1>2, <2>1
  <2>3. ASSUME WellFormed(Text) PROVE FALSE
    <3>1. /\ IsHigh(Text[i + 1]) => i + 1 < N /\ IsLow(Text[i + 1 + 1])
          /\ IsLow(Text[i + 1]) => i + 1 > 1 /\ IsHigh(Text[i + 1 - 1])
      <4>1. i + 1 \in 1..N
        BY <2>1
      <4>2. QED
        BY <1>1, <2>3, <4>1 DEF WellFormed
    <3>2. CASE IsLow(W(i))
      <4>1. i + 1 > 1 /\ IsHigh(Text[i + 1 - 1]) /\ i + 1 - 1 = i /\ i \in 1..i
        BY <2>1, <2>2, <3>1, <3>2
      <4>2. i < i
        BY <4>1 DEF Paired, PairedUpto
      <4>3. QED
        BY <2>1, <4>2
    <3>3. CASE IsHigh(W(i)) /\ ~PairFollows
      <4>1. i + 1 < N /\ IsLow(Text[i + 1 + 1]) /\ i + 1 \in 0..(N - 1)
        BY <2>1, <2>2, <3>1, <3>3
      <4>2. IsLow(W(i + 1))
        BY <1>2, <4>1
      <4>3. PairFollows
        BY <1>1, <4>1, <4>2 DEF PairFollows, HasNext
      <4>4. QED
        BY <3>3, <4>3
    <3>4. QED
      BY <1>6, <3>2, <3>3 DEF Throw, w1
  <2>4. PairedUpto(Text', i') /\ ~WellFormed(Text')
    BY <1>3, <2>1, <2>3 DEF Paired
  <2>5. QED
    BY <2>1, <2>4 DEF Paired
<1>7. CASE Return
  <2>1. i' = i /\ pc' = "done" /\ i = Len(utf16)
    BY <1>1, <1>7 DEF Return
  <2>2. PairedUpto(Text', i') /\ i' = Len(utf16')
    BY <1>3, <2>1 DEF Paired
  <2>3. QED
    BY <2>1, <2>2 DEF Paired
<1>8. CASE UNCHANGED vars
  <2>1. i' = i /\ pc' = pc
    BY <1>8 DEF vars
  <2>2. /\ PairedUpto(Text', i')
        /\ pc' = "done" => i' = Len(utf16')
        /\ pc' = "thrown" => ~WellFormed(Text')
    BY <1>3, <2>1 DEF Paired
  <2>3. QED
    BY <2>2 DEF Paired
<1>9. QED
  BY <1>4, <1>5, <1>6, <1>7, <1>8 DEF Next

LEMMA PairedHolds == Spec => []Paired
<1>1. Init /\ TypeOK => Paired
  BY DEF Init, Paired, PairedUpto
<1>2. QED
  BY <1>1, PairedStays, Typing, PTL DEF Spec

LEMMA PairedDecides == Paired => ThrowsIffIllFormed
<1> SUFFICES ASSUME Paired PROVE ThrowsIffIllFormed
  OBVIOUS
<1>1. PICK N \in Nat : N = Len(utf16) /\ N = Len(Text)
  BY TextIs DEF Paired
<1>2. ASSUME pc = "done" PROVE WellFormed(Text)
  <2>1. PairedUpto(Text, N) /\ Len(Text) = N
    BY <1>1, <1>2 DEF Paired
  <2>2. QED
    BY <2>1 DEF PairedUpto, WellFormed
<1>3. QED
  BY <1>2 DEF Paired, ThrowsIffIllFormed

\* The converter throws exactly for UTF-16 that is not well-formed.
THEOREM ThrowsExactly == Spec => []ThrowsIffIllFormed
BY PairedHolds, PairedDecides, PTL

-----------------------------------------------------------------------------
(* What has been written decodes to what has been read: one sequence of    *)
(* bytes more is one code point more, which is one unit or one pair more.  *)

Carried ==
  /\ TypeOK
  /\ DecodeUtf8(utf8) \in Seq(Nat)
  /\ Utf16Of(DecodeUtf8(utf8)) = SubSeq(Text, 1, i)

\* The decoder takes bytes t for the code point cp.
LEMMA CarriedMore ==
  ASSUME NEW u \in Seq(0..255), NEW t \in Seq(0..255), NEW cp \in Nat,
         Len(t) \in 1..4, SequenceLength(t[1]) = Len(t), Decoded(t) = cp,
         DecodeUtf8(u) \in Seq(Nat)
  PROVE  /\ DecodeUtf8(u \o t) \in Seq(Nat)
         /\ Utf16Of(DecodeUtf8(u \o t)) = Utf16Of(DecodeUtf8(u)) \o UnitsOf(cp)
<1>1. DecodeUtf8(u \o t) = DecodeUtf8(u) \o <<cp>>
  BY DecodeAppend
<1> DEFINE d == DecodeUtf8(u)
<1>2. d \in Seq(Nat)
  OBVIOUS
<1> HIDE DEF d
<1>3. d \o <<cp>> \in Seq(Nat)
  BY <1>2
<1>4. Utf16Of(d \o <<cp>>) = Utf16Of(d) \o UnitsOf(cp)
  BY <1>2, Utf16Append
<1>5. QED
  BY <1>1, <1>3, <1>4 DEF d

LEMMA ReadMore ==
  ASSUME NEW s \in Seq(Unit), NEW m \in 0..Len(s)
  PROVE  /\ m + 1 <= Len(s) => SubSeq(s, 1, m + 1) = SubSeq(s, 1, m) \o <<s[m + 1]>>
         /\ m + 2 <= Len(s) => SubSeq(s, 1, m + 2) = SubSeq(s, 1, m) \o <<s[m + 1], s[m + 2]>>
<1>1. Len(s) \in Nat
  BY LenProperties
<1>2. QED
  BY <1>1

LEMMA NothingCarried == TypeOK /\ i = 0 /\ utf8 = <<>> => Carried
<1> SUFFICES ASSUME TypeOK, i = 0, utf8 = <<>> PROVE Carried
  OBVIOUS
<1>1. SubSeq(Text, 1, 0) = <<>>
  BY TextIs
<1>2. DecodeUtf8(utf8) = <<>> /\ Utf16Of(<<>>) = <<>>
  BY OfNothing
<1>3. <<>> \in Seq(Nat)
  OBVIOUS
<1>4. QED
  BY <1>1, <1>2, <1>3 DEF Carried

LEMMA CarriedStays == Carried /\ TypeOK' /\ [Next]_vars => Carried'
<1> SUFFICES ASSUME Carried, TypeOK', [Next]_vars PROVE Carried'
  OBVIOUS
<1>1. PICK N \in Nat : N = Len(utf16) /\ N = Len(Text) /\ i \in 0..N
  BY TextIs DEF Carried, TypeOK
<1>2. \A n \in 0..(N - 1) : W(n) \in Unit /\ Text[n + 1] = W(n)
  BY <1>1, TextIs DEF Carried
<1>3. utf16' = utf16 /\ le' = le /\ Text' = Text
  BY TextStays DEF Next, PushUnit, PushPair, Throw, Return, vars
<1>4. Text \in Seq(Unit) /\ utf8 \in Seq(0..255) /\ DecodeUtf8(utf8) \in Seq(Nat)
  BY TextIs DEF Carried, TypeOK
<1>5. CASE PushUnit
  <2>1. i \in 0..(N - 1) /\ i' = i + 1
    BY <1>1, <1>5 DEF PushUnit, Looping
  <2>2. PICK w \in Unit : w = W(i) /\ w = Text[i + 1]
    BY <1>2, <2>1
  <2>3. ~IsSurrogate(w) /\ utf8' = utf8 \o EncodeUnit(w)
    BY <1>5, <2>2 DEF PushUnit, w1
  <2>4. PICK t \in Seq(0..255) :
          /\ t = EncodeUnit(w) /\ Len(t) \in 1..4
          /\ Decoded(t) = w /\ SequenceLength(t[1]) = Len(t)
    BY <2>3, EncodeUnitType, UnitIsDecoded
  <2>5. w \in Nat /\ UnitsOf(w) = <<w>>
    BY UnitIs, UnitIsCodePoint
  <2>6. /\ DecodeUtf8(utf8 \o t) \in Seq(Nat)
        /\ Utf16Of(DecodeUtf8(utf8 \o t)) = Utf16Of(DecodeUtf8(utf8)) \o UnitsOf(w)
    BY <1>4, <2>4, <2>5, CarriedMore, ZenonT(40)
  <2>7. SubSeq(Text, 1, i + 1) = SubSeq(Text, 1, i) \o <<w>>
    BY <1>1, <1>4, <2>1, <2>2, ReadMore
  <2>8. /\ DecodeUtf8(utf8') \in Seq(Nat)
        /\ Utf16Of(DecodeUtf8(utf8')) = SubSeq(Text', 1, i')
    BY <1>3, <2>1, <2>3, <2>4, <2>5, <2>6, <2>7 DEF Carried
  <2>9. QED
    BY <2>8 DEF Carried
<1>6. CASE PushPair
  <2>1. i \in 0..(N - 1) /\ i + 1 \in 0..(N - 1) /\ i' = i + 2 /\ i + 2 <= N
    BY <1>1, <1>6 DEF PushPair, Looping, PairFollows, HasNext
  <2>2. PICK h \in Unit, l \in Unit :
          h = W(i) /\ h = Text[i + 1] /\ l = W(i + 1) /\ l = Text[i + 2]
    <3>1. i + 1 + 1 = i + 2
      BY <2>1
    <3>2. QED
      BY <1>2, <2>1, <3>1
  <2>3. IsHigh(h) /\ IsLow(l) /\ utf8' = utf8 \o EncodePair(CodePoint(h, l))
    BY <1>6, <2>2 DEF PushPair, PairFollows, w1
  <2>4. PICK cp \in CodePoints : cp = CodePoint(h, l) /\ UnitsOf(cp) = <<h, l>>
    BY <2>3, PairIsCodePoint
  <2>5. PICK t \in Seq(0..255) :
          /\ t = EncodePair(cp) /\ Len(t) \in 1..4
          /\ Decoded(t) = cp /\ SequenceLength(t[1]) = Len(t)
    BY EncodePairType, PairIsDecoded
  <2>6. cp \in Nat
    BY CodePointIs
  <2>7. /\ DecodeUtf8(utf8 \o t) \in Seq(Nat)
        /\ Utf16Of(DecodeUtf8(utf8 \o t)) = Utf16Of(DecodeUtf8(utf8)) \o UnitsOf(cp)
    BY <1>4, <2>4, <2>5, <2>6, CarriedMore
  <2>8. SubSeq(Text, 1, i + 2) = SubSeq(Text, 1, i) \o <<h, l>>
    BY <1>1, <1>4, <2>1, <2>2, ReadMore
  <2>9. /\ DecodeUtf8(utf8') \in Seq(Nat)
        /\ Utf16Of(DecodeUtf8(utf8')) = SubSeq(Text', 1, i')
    BY <1>3, <2>1, <2>3, <2>4, <2>5, <2>7, <2>8 DEF Carried
  <2>10. QED
    BY <2>9 DEF Carried
<1>7. CASE Throw \/ Return \/ UNCHANGED vars
  <2>1. utf8' = utf8 /\ i' = i
    BY <1>7 DEF Throw, Return, vars
  <2>2. /\ DecodeUtf8(utf8') \in Seq(Nat)
        /\ Utf16Of(DecodeUtf8(utf8')) = SubSeq(Text', 1, i')
    BY <1>3, <2>1 DEF Carried
  <2>3. QED
    BY <2>2 DEF Carried
<1>8. QED
  BY <1>5, <1>6, <1>7 DEF Next

LEMMA CarriedHolds == Spec => []Carried
<1>1. Init /\ TypeOK => Carried
  BY NothingCarried DEF Init
<1>2. QED
  BY <1>1, CarriedStays, Typing, PTL DEF Spec

\* The bytes written decode to the units read, for every argument in either
\* byte order, at every iteration.
THEOREM TextComesBack == Spec => []RoundTrip
<1>1. Carried => RoundTrip
  BY DEF Carried, RoundTrip
<1>2. QED
  BY <1>1, CarriedHolds, PTL

-----------------------------------------------------------------------------
(* Main, which generates a string and converts it.                         *)

\* The vector converter shares only what it reads.
LEMMA VectorReads == Vector!Next => UNCHANGED <<utf16, le>>
BY DEF Vector!Next, Vector!CompareBlock, Vector!WriteLane, Vector!AppendBlock,
       Vector!LeaveBlocks, Vector!WriteTailUnit, Vector!Return

\* Main adds a character, or begins to convert, or the converter takes a step.
LEMMA BenchmarkSteps ==
  [BenchmarkNext]_allVars =>
    \/ [Next]_vars /\ drawn' = drawn
    \/ \E cp \in Draws : PushBasic(cp) \/ PushSupplementary(cp)
    \/ Convert
<1> SUFFICES ASSUME [BenchmarkNext]_allVars
             PROVE  \/ [Next]_vars /\ drawn' = drawn
                    \/ \E cp \in Draws : PushBasic(cp) \/ PushSupplementary(cp)
                    \/ Convert
  OBVIOUS
<1>1. CASE \E cp \in Draws : Reject(cp)
  BY <1>1 DEF Reject, allVars
<1>2. CASE ConvertAgain
  BY <1>2, VectorReads DEF ConvertAgain, vars
<1>3. CASE Next /\ UNCHANGED <<drawn, vectorVars>>
  BY <1>3
<1>4. CASE UNCHANGED allVars
  BY <1>4 DEF allVars
<1>5. QED
  BY <1>1, <1>2, <1>3, <1>4 DEF BenchmarkNext

\* While main generates, the converter is where it begins.
Waiting ==
  /\ TypeOK /\ drawn \in Seq(Nat)
  /\ pc = "generate" => i = 0 /\ utf8 = <<>>

LEMMA DrawnIs == \A cp \in Draws : cp \in Nat /\ cp <= 1114111
<1>1. MaxCodePoint = 1114111
  BY SMT DEF MaxCodePoint
<1>2. MaxCodePoint \in Int
  BY <1>1, SMT
<1>3. \A cp \in Draws : cp \in Nat /\ cp <= MaxCodePoint
  BY <1>2, DrawsAssumption, SMT
<1>4. QED
  BY <1>1, <1>3, SMT

\* A character of the basic plane is a unit that is no surrogate.
LEMMA BasicIs ==
  ASSUME NEW cp \in Draws, BasicPlane(cp)
  PROVE  cp \in Unit /\ ~IsSurrogate(cp)
BY DrawnIs, UnitIs, SMT DEF BasicPlane, IsSurrogate, IsHigh, IsLow

\* Another one is a pair of surrogates.
LEMMA SupplementaryIs ==
  ASSUME NEW cp \in CodePoints
  PROVE  \E h \in Unit, l \in Unit :
           Surrogates(cp) = <<h, l>> /\ IsHigh(h) /\ IsLow(l) /\ CodePoint(h, l) = cp
<1>1. cp \in Int /\ 65536 <= cp /\ cp <= 1114111
  BY CodePointIs
<1> DEFINE h == ((cp - 65536) \div 1024) + 55296
           l == ((cp - 65536) % 1024) + 56320
<1>2. Surrogates(cp) = <<h, l>>
  BY DEF Surrogates
<1>3. /\ h \in Int /\ 55296 <= h /\ h <= 56319
      /\ l \in Int /\ 56320 <= l /\ l <= 57343
      /\ (h - 55296) * 1024 + (l - 56320) + 65536 = cp
  BY <1>1, SMT
<1> HIDE DEF h, l
<1>4. h \in Unit /\ l \in Unit
  BY <1>3, UnitIs, SMT
<1>5. IsHigh(h) /\ IsLow(l) /\ CodePoint(h, l) = cp
  BY <1>3, SMT DEF IsHigh, IsLow, CodePoint
<1>6. QED
  BY <1>2, <1>4, <1>5

\* What a push appends: one unit, or two.
LEMMA PushIs ==
  ASSUME NEW cp \in Draws, PushBasic(cp) \/ PushSupplementary(cp), Waiting
  PROVE  /\ pc = "generate" /\ pc' = "generate" /\ Len(utf16) < Length
         /\ drawn' = Append(drawn, cp) /\ UNCHANGED <<le, i, utf8>>
         /\ \/ cp \in Unit /\ ~IsSurrogate(cp) /\ utf16' = utf16 \o <<cp>>
            \/ cp \in CodePoints /\ utf16' = utf16 \o Surrogates(cp)
<1>1. CASE PushBasic(cp)
  <2>1. cp \in Unit /\ ~IsSurrogate(cp)
    BY <1>1, BasicIs DEF PushBasic
  <2>2. Append(utf16, cp) = utf16 \o <<cp>>
    BY <2>1 DEF Waiting, TypeOK
  <2>3. QED
    BY <1>1, <2>1, <2>2 DEF PushBasic, Generating
<1>2. CASE PushSupplementary(cp)
  <2>1. cp \in CodePoints
    BY <1>2, DrawnIs, CodePointIs, SMT DEF PushSupplementary
  <2>2. QED
    BY <1>2, <2>1 DEF PushSupplementary, Generating
<1>3. QED
  BY <1>1, <1>2

LEMMA WaitingStays == Waiting /\ [BenchmarkNext]_allVars => Waiting'
<1> SUFFICES ASSUME Waiting, [BenchmarkNext]_allVars PROVE Waiting'
  OBVIOUS
<1>1. CASE [Next]_vars /\ drawn' = drawn
  <2>1. TypeOK'
    BY <1>1, TypesStay DEF Waiting
  <2>2. pc' = "generate" => UNCHANGED vars
    BY <1>1 DEF Next, PushUnit, PushPair, Throw, Return, Looping, vars
  <2>3. QED
    BY <1>1, <2>1, <2>2 DEF Waiting, vars
<1>2. CASE \E cp \in Draws : PushBasic(cp) \/ PushSupplementary(cp)
  <2>1. PICK cp \in Draws : PushBasic(cp) \/ PushSupplementary(cp)
    BY <1>2
  <2>2. drawn' \in Seq(Nat)
    <3>1. cp \in Nat
      BY DrawnIs, SMT
    <3>2. drawn' = Append(drawn, cp)
      BY <2>1, PushIs
    <3>3. Append(drawn, cp) \in Seq(Nat)
      BY <3>1 DEF Waiting
    <3>4. QED
      BY <3>2, <3>3
  <2>3. utf16' \in Seq(Unit)
    <3>1. CASE cp \in Unit /\ utf16' = utf16 \o <<cp>>
      <4>1. <<cp>> \in Seq(Unit) /\ utf16 \in Seq(Unit)
        BY <3>1 DEF Waiting, TypeOK
      <4>2. QED
        BY <3>1, <4>1, ConcatProperties
    <3>2. CASE cp \in CodePoints /\ utf16' = utf16 \o Surrogates(cp)
      <4>1. Surrogates(cp) \in Seq(Unit) /\ utf16 \in Seq(Unit)
        <5>1. PICK h \in Unit, l \in Unit : Surrogates(cp) = <<h, l>>
          BY <3>2, SupplementaryIs
        <5>2. <<h, l>> \in Seq(Unit)
          OBVIOUS
        <5>3. QED
          BY <5>1, <5>2 DEF Waiting, TypeOK
      <4>2. QED
        BY <3>2, <4>1, ConcatProperties
    <3>3. QED
      BY <2>1, <3>1, <3>2, PushIs
  <2>4. /\ pc' = "generate" /\ UNCHANGED <<le, i, utf8>>
        /\ i = 0 /\ utf8 = <<>>
    BY <2>1, PushIs DEF Waiting
  <2>5. i' \in 0..Len(utf16')
    BY <2>3, <2>4, LenProperties
  <2>6. TypeOK'
    BY <2>3, <2>4, <2>5 DEF Waiting, TypeOK
  <2>7. QED
    BY <2>2, <2>4, <2>6 DEF Waiting
<1>3. CASE Convert
  BY <1>3 DEF Convert, Waiting, TypeOK
<1>4. QED
  BY <1>1, <1>2, <1>3, BenchmarkSteps

LEMMA WaitingAtFirst == BenchmarkInit => Waiting
<1> SUFFICES ASSUME BenchmarkInit PROVE Waiting
  OBVIOUS
<1>1. <<>> \in Seq(Nat) /\ <<>> \in Seq(Unit) /\ <<>> \in Seq(0..255) /\ 0 \in 0..Len(<<>>)
  OBVIOUS
<1>2. CASE StartMain
  BY <1>1, <1>2 DEF StartMain, Waiting, TypeOK
<1>3. CASE Init /\ drawn = <<>>
  BY <1>1, <1>3, TypesAtFirst DEF Init, Waiting
<1>4. QED
  BY <1>2, <1>3 DEF BenchmarkInit

LEMMA WaitingHolds == BenchmarkSpec => []Waiting
BY WaitingAtFirst, WaitingStays, PTL DEF BenchmarkSpec

\* Whoever calls the converter, main or another, it throws exactly for UTF-16
\* that is not well-formed.
LEMMA PairedInBenchmark == BenchmarkSpec => []Paired
<1>1. BenchmarkInit /\ Waiting => Paired
  BY DEF BenchmarkInit, StartMain, Init, Waiting, Paired, PairedUpto
<1>2. Waiting /\ Waiting' /\ Paired /\ [BenchmarkNext]_allVars => Paired'
  <2> SUFFICES ASSUME Waiting, Waiting', Paired, [BenchmarkNext]_allVars PROVE Paired'
    OBVIOUS
  <2>1. CASE [Next]_vars
    BY <2>1, PairedStays DEF Waiting
  <2>2. CASE \E cp \in Draws : PushBasic(cp) \/ PushSupplementary(cp)
    <3>1. pc' = "generate" /\ i' = 0
      BY <2>2, PushIs DEF Waiting
    <3>2. PairedUpto(Text', 0)
      BY DEF PairedUpto
    <3>3. PairedUpto(Text', i')
      BY <3>1, <3>2
    <3>4. QED
      BY <3>1, <3>3 DEF Waiting, Paired
  <2>3. CASE Convert
    <3>1. pc' = "loop" /\ i' = i /\ utf16' = utf16 /\ le' = le
      BY <2>3 DEF Convert
    <3>2. PairedUpto(Text', i')
      BY <3>1, TextStays DEF Paired
    <3>3. QED
      BY <3>1, <3>2 DEF Waiting, Paired
  <2>4. QED
    BY <2>1, <2>2, <2>3, BenchmarkSteps
<1>3. QED
  BY <1>1, <1>2, WaitingHolds, PTL DEF BenchmarkSpec

THEOREM ThrowsExactlyInMain == BenchmarkSpec => []ThrowsIffIllFormed
BY PairedInBenchmark, PairedDecides, PTL

LEMMA NothingCarriedWaiting == (Waiting /\ pc = "generate") => Carried
BY NothingCarried DEF Waiting

\* Whoever calls the converter, the bytes written decode to the units read.
LEMMA CarriedInBenchmark == BenchmarkSpec => []Carried
<1>1. BenchmarkInit /\ Waiting => Carried
  BY NothingCarried DEF BenchmarkInit, StartMain, Init, Waiting
<1>2. Waiting /\ Waiting' /\ Carried /\ [BenchmarkNext]_allVars => Carried'
  <2> SUFFICES ASSUME Waiting, Waiting', Carried, [BenchmarkNext]_allVars PROVE Carried'
    OBVIOUS
  <2>1. CASE [Next]_vars
    BY <2>1, CarriedStays DEF Waiting
  <2>2. CASE \E cp \in Draws : PushBasic(cp) \/ PushSupplementary(cp)
    <3>1. (Waiting /\ pc = "generate")'
      BY <2>2, PushIs
    <3>2. QED
      BY <3>1, NothingCarriedWaiting, PTL
  <2>3. CASE Convert
    <3>1. i' = i /\ utf8' = utf8 /\ Text' = Text
      BY <2>3, TextStays DEF Convert
    <3>2. /\ DecodeUtf8(utf8') \in Seq(Nat)
          /\ Utf16Of(DecodeUtf8(utf8')) = SubSeq(Text', 1, i')
      BY <3>1 DEF Carried
    <3>3. QED
      BY <3>2 DEF Waiting, Carried
  <2>4. QED
    BY <2>1, <2>2, <2>3, BenchmarkSteps
<1>3. QED
  BY <1>1, <1>2, WaitingHolds, PTL DEF BenchmarkSpec

THEOREM TextComesBackInMain == BenchmarkSpec => []RoundTrip
<1>1. Carried => RoundTrip
  BY DEF Carried, RoundTrip
<1>2. QED
  BY <1>1, CarriedInBenchmark, PTL

-----------------------------------------------------------------------------
(* What main has drawn, unit by unit: off says where in the string each    *)
(* character ends.                                                         *)

\* Units a + 1 to b of s are the character cp.
Written(s, a, b, cp) ==
  \/ b = a + 1 /\ cp \in Unit /\ ~IsSurrogate(cp) /\ s[b] = cp
  \/ b = a + 2 /\ cp \in CodePoints /\ <<s[a + 1], s[b]>> = Surrogates(cp)

Ends(d, s, off) ==
  /\ off \in [0..Len(d) -> Nat] /\ off[0] = 0 /\ off[Len(d)] = Len(s)
  /\ \A a, b \in 0..Len(d) : a < b => off[a] < off[b]
  /\ \A n \in 0..(Len(d) - 1) : Written(s, off[n], off[n + 1], d[n + 1])

LEMMA WrittenStays ==
  ASSUME NEW s, NEW t, NEW L \in Nat, \A n \in 1..L : t[n] = s[n],
         NEW a \in Nat, NEW b \in 0..L, NEW cp, Written(s, a, b, cp)
  PROVE  Written(t, a, b, cp)
<1>1. CASE b = a + 1 /\ cp \in Unit /\ ~IsSurrogate(cp) /\ s[b] = cp
  <2>1. t[b] = s[b]
    BY <1>1
  <2>2. QED
    BY <1>1, <2>1 DEF Written
<1>2. CASE b = a + 2 /\ cp \in CodePoints /\ <<s[a + 1], s[b]>> = Surrogates(cp)
  <2>1. t[b] = s[b] /\ t[a + 1] = s[a + 1]
    BY <1>2
  <2>2. QED
    BY <1>2, <2>1 DEF Written
<1>3. QED
  BY <1>1, <1>2 DEF Written

\* A character more ends behind the others.
LEMMA EndsMore ==
  ASSUME NEW d \in Seq(Nat), NEW s \in Seq(Unit), NEW off, Ends(d, s, off),
         NEW cp \in Nat, NEW w \in Seq(Unit), Len(w) \in 1..2,
         Written(s \o w, Len(s), Len(s) + Len(w), cp)
  PROVE  \E o : Ends(Append(d, cp), s \o w, o)
<1>0. PICK D \in Nat, L \in Nat, k \in 1..2 : D = Len(d) /\ L = Len(s) /\ k = Len(w)
  BY LenProperties
<1> DEFINE e == Append(d, cp)
           t == s \o w
<1>1. /\ Len(e) = D + 1 /\ e[D + 1] = cp /\ \A n \in 1..D : e[n] = d[n]
  BY <1>0
<1>2. Len(t) = L + k /\ \A n \in 1..L : t[n] = s[n]
  BY <1>0, ConcatProperties
<1>3. Written(t, L, L + k, cp)
  BY <1>0
<1> HIDE DEF e, t
<1>4. /\ off \in [0..D -> Nat] /\ off[0] = 0 /\ off[D] = L
      /\ \A a, b \in 0..D : a < b => off[a] < off[b]
      /\ \A n \in 0..(D - 1) : Written(s, off[n], off[n + 1], d[n + 1])
  BY <1>0 DEF Ends
<1> DEFINE o == [n \in 0..(D + 1) |-> IF n = D + 1 THEN L + k ELSE off[n]]
<1>5. /\ o \in [0..(D + 1) -> Nat] /\ o[D + 1] = L + k
      /\ \A n \in 0..D : o[n] = off[n]
  <2>1. \A n \in 0..(D + 1) : n # D + 1 => n \in 0..D
    OBVIOUS
  <2>2. o \in [0..(D + 1) -> Nat]
    BY <1>4, <2>1
  <2>3. D + 1 \in 0..(D + 1) /\ \A n \in 0..D : n # D + 1 /\ n \in 0..(D + 1)
    OBVIOUS
  <2>4. QED
    BY <2>2, <2>3
<1> HIDE DEF o
<1>6. \A n \in 0..D : off[n] \in Nat /\ off[n] <= L
  <2>1. ASSUME NEW n \in 0..D PROVE off[n] \in Nat /\ off[n] <= L
    <3>1. CASE n = D
      BY <1>4, <3>1
    <3>2. CASE n # D
      <4>1. n < D /\ D \in 0..D
        BY <3>2
      <4>2. off[n] < off[D] /\ off[n] \in Nat
        BY <1>4, <4>1
      <4>3. QED
        BY <1>4, <4>2
    <3>3. QED
      BY <3>1, <3>2
  <2>2. QED
    BY <2>1
<1>7. ASSUME NEW a \in 0..(D + 1), NEW b \in 0..(D + 1), a < b PROVE o[a] < o[b]
  <2>1. a \in 0..D
    BY <1>7
  <2>2. CASE b \in 0..D
    BY <1>4, <1>5, <1>7, <2>1, <2>2
  <2>3. CASE b = D + 1
    <3>1. PICK x \in 0..L : x = off[a]
      BY <1>6, <2>1
    <3>2. x < L + k
      OBVIOUS
    <3>3. o[a] = x /\ o[b] = L + k
      BY <1>5, <2>1, <2>3, <3>1
    <3>4. QED
      BY <3>2, <3>3
  <2>4. QED
    BY <2>2, <2>3
<1>8. ASSUME NEW n \in 0..((D + 1) - 1) PROVE Written(t, o[n], o[n + 1], e[n + 1])
  <2>1. n \in 0..D /\ o[n] = off[n]
    BY <1>5
  <2>2. CASE n = D
    <3>1. o[n] = L /\ o[n + 1] = L + k /\ e[n + 1] = cp
      BY <1>1, <1>4, <1>5, <2>1, <2>2
    <3>2. QED
      BY <1>3, <3>1
  <2>3. CASE n # D
    <3>1. n \in 0..(D - 1) /\ n + 1 \in 0..D /\ n + 1 \in 1..D
      BY <2>1, <2>3
    <3>2. o[n + 1] = off[n + 1] /\ e[n + 1] = d[n + 1]
      BY <1>1, <1>5, <3>1
    <3>3. Written(s, off[n], off[n + 1], d[n + 1])
      BY <1>4, <3>1
    <3>4. off[n] \in Nat /\ off[n + 1] \in 0..L
      BY <1>6, <2>1, <3>1
    <3>5. Written(t, off[n], off[n + 1], d[n + 1])
      BY <1>2, <3>3, <3>4, WrittenStays
    <3>6. QED
      BY <2>1, <3>2, <3>5
  <2>4. QED
    BY <2>2, <2>3
<1>9. Ends(e, t, o)
  <2>1. o[0] = 0
    BY <1>4, <1>5
  <2>2. QED
    BY <1>1, <1>2, <1>5, <1>7, <1>8, <2>1 DEF Ends
<1>10. QED
  BY <1>9 DEF e, t

\* What main has is well-formed, and what it has converted of it are whole
\* characters.
ByMain == drawn # <<>> \/ pc = "generate"
Drawn ==
  ByMain =>
    /\ le = TRUE /\ Len(utf16) <= Length + 1 /\ PairedUpto(utf16, Len(utf16))
    /\ pc # "generate" => drawn # <<>>
    /\ \E off : /\ Ends(drawn, utf16, off)
                /\ \E k \in 0..Len(drawn) :
                     i = off[k] /\ DecodeUtf8(utf8) = SubSeq(drawn, 1, k)

LEMMA PairedSame ==
  ASSUME NEW s, NEW t, NEW L \in Nat, \A n \in 1..L : t[n] = s[n], PairedUpto(s, L)
  PROVE  PairedUpto(t, L)
<1> SUFFICES ASSUME NEW n \in 1..L
             PROVE  /\ IsHigh(t[n]) => n < L /\ IsLow(t[n + 1])
                    /\ IsLow(t[n]) => n > 1 /\ IsHigh(t[n - 1])
  BY DEF PairedUpto
<1>1. /\ IsHigh(s[n]) => n < L /\ IsLow(s[n + 1])
      /\ IsLow(s[n]) => n > 1 /\ IsHigh(s[n - 1])
  BY DEF PairedUpto
<1>2. t[n] = s[n]
  OBVIOUS
<1>3. n < L => t[n + 1] = s[n + 1]
  <2>1. n < L => n + 1 \in 1..L
    OBVIOUS
  <2>2. QED
    BY <2>1
<1>4. n > 1 => t[n - 1] = s[n - 1]
  <2>1. n > 1 => n - 1 \in 1..L
    OBVIOUS
  <2>2. QED
    BY <2>1
<1>5. QED
  BY <1>1, <1>2, <1>3, <1>4

\* A character that is appended is written at the end.
LEMMA AppendsCharacter ==
  ASSUME NEW s \in Seq(Unit), NEW cp, NEW w,
         \/ cp \in Unit /\ ~IsSurrogate(cp) /\ w = <<cp>>
         \/ cp \in CodePoints /\ w = Surrogates(cp),
         PairedUpto(s, Len(s))
  PROVE  /\ w \in Seq(Unit) /\ Len(w) \in 1..2
         /\ Written(s \o w, Len(s), Len(s) + Len(w), cp)
         /\ PairedUpto(s \o w, Len(s) + Len(w))
<1>0. PICK L \in Nat : L = Len(s)
  BY LenProperties
<1>1. CASE cp \in Unit /\ ~IsSurrogate(cp) /\ w = <<cp>>
  <2>1. w \in Seq(Unit) /\ Len(w) = 1
    BY <1>1
  <2> DEFINE t == s \o w
  <2>2. (\A n \in 1..L : t[n] = s[n]) /\ t[L + 1] = cp
    BY <1>0, <1>1
  <2> HIDE DEF t
  <2>3. Written(t, L, L + 1, cp)
    BY <1>1, <2>2 DEF Written
  <2>4. PairedUpto(t, L)
    BY <1>0, <2>2, PairedSame
  <2>5. PairedUpto(t, L + 1)
    BY <1>1, <2>2, <2>4, PairedMore
  <2>6. QED
    BY <1>0, <2>1, <2>3, <2>5 DEF t
<1>2. CASE cp \in CodePoints /\ w = Surrogates(cp)
  <2>1. PICK h \in Unit, l \in Unit : Surrogates(cp) = <<h, l>> /\ IsHigh(h) /\ IsLow(l)
    BY <1>2, SupplementaryIs
  <2>2. w \in Seq(Unit) /\ Len(w) = 2 /\ w = <<h, l>>
    BY <1>2, <2>1
  <2> DEFINE t == s \o w
  <2>3. (\A n \in 1..L : t[n] = s[n]) /\ t[L + 1] = h /\ t[L + 2] = l
    BY <1>0, <2>2
  <2> HIDE DEF t
  <2>4. Written(t, L, L + 2, cp)
    BY <1>2, <2>1, <2>3 DEF Written
  <2>5. PairedUpto(t, L)
    BY <1>0, <2>3, PairedSame
  <2>6. ~IsLow(h) /\ ~IsHigh(l)
    BY <2>1, NotBoth
  <2>7. PairedUpto(t, L + 2)
    BY <2>1, <2>3, <2>5, <2>6, PairedMore
  <2>8. QED
    BY <1>0, <2>2, <2>4, <2>7 DEF t
<1>3. QED
  BY <1>1, <1>2

LEMMA DrawnAtFirst == BenchmarkInit => Drawn
<1> SUFFICES ASSUME StartMain PROVE Drawn
  BY DEF BenchmarkInit, Init, Drawn, ByMain
<1>1. utf16 = <<>> /\ drawn = <<>> /\ i = 0 /\ utf8 = <<>> /\ le = TRUE /\ pc = "generate"
  BY DEF StartMain
<1>2. Len(<<>>) = 0
  OBVIOUS
<1> DEFINE off == [n \in 0..0 |-> 0]
<1>3. off \in [0..0 -> Nat] /\ off[0] = 0 /\ \A n \in 0..0 : n = 0
  OBVIOUS
<1> HIDE DEF off
<1>4. Ends(<<>>, <<>>, off)
  <2>1. \A a, b \in 0..0 : ~(a < b)
    OBVIOUS
  <2>2. \A n \in 0..(0 - 1) : FALSE
    OBVIOUS
  <2>3. QED
    BY <1>2, <1>3, <2>1, <2>2 DEF Ends
<1>5. DecodeUtf8(<<>>) = SubSeq(<<>>, 1, 0)
  <2>1. \A s \in Seq(Nat) : SubSeq(s, 1, 0) = <<>>
    OBVIOUS
  <2>2. <<>> \in Seq(Nat)
    OBVIOUS
  <2>3. QED
    BY <2>1, <2>2, OfNothing
<1>6. 0 \in 0..Len(drawn) /\ i = off[0] /\ DecodeUtf8(utf8) = SubSeq(drawn, 1, 0)
  BY <1>1, <1>2, <1>3, <1>5
<1>7. Len(utf16) <= Length + 1 /\ PairedUpto(utf16, Len(utf16))
  BY <1>1, <1>2, DrawsAssumption DEF PairedUpto
<1>8. QED
  BY <1>1, <1>4, <1>6, <1>7 DEF Drawn

\* The next character of main's string is the next one that is converted.
LEMMA ConvertsCharacter ==
  ASSUME Waiting, Waiting', Drawn, ByMain, PushUnit \/ PushPair, drawn' = drawn
  PROVE  Drawn'
<1>1. PICK off : /\ Ends(drawn, utf16, off)
                 /\ \E k \in 0..Len(drawn) : i = off[k] /\ DecodeUtf8(utf8) = SubSeq(drawn, 1, k)
  BY DEF Drawn
<1>2. PICK D \in Nat, N \in Nat : D = Len(drawn) /\ N = Len(utf16)
  BY LenProperties DEF Waiting, TypeOK
<1>3. PICK k \in 0..D : i = off[k] /\ DecodeUtf8(utf8) = SubSeq(drawn, 1, k)
  BY <1>1, <1>2
<1>4. /\ pc = "loop" /\ pc' = "loop" /\ i < N /\ UNCHANGED <<utf16, le>> /\ le = TRUE
      /\ i \in 0..N /\ utf16 \in Seq(Unit) /\ utf8 \in Seq(0..255) /\ drawn \in Seq(Nat)
  BY <1>2 DEF PushUnit, PushPair, Looping, Waiting, TypeOK, Drawn
<1>5. off \in [0..D -> Nat] /\ off[D] = N /\ \A n \in 0..(D - 1) : Written(utf16, off[n], off[n + 1], drawn[n + 1])
  BY <1>1, <1>2 DEF Ends
<1>6. k \in 0..(D - 1) /\ k + 1 \in 0..D /\ k + 1 \in 1..D
  <2>1. k # D
    BY <1>3, <1>4, <1>5
  <2>2. QED
    BY <2>1
<1>7. PICK cp \in Nat : cp = drawn[k + 1]
  BY <1>2, <1>4, <1>6, ElementOfSeq
<1>8. Written(utf16, i, off[k + 1], cp)
  BY <1>3, <1>5, <1>6, <1>7
<1>9. \A n \in 0..(N - 1) : W(n) = utf16[n + 1]
  BY <1>4 DEF W, Host
<1>10. PICK d \in Seq(Nat) : d = SubSeq(drawn, 1, k) /\ d \o <<cp>> = SubSeq(drawn, 1, k + 1)
  <2>1. SubSeq(drawn, 1, k) \in Seq(Nat)
    BY <1>2, <1>4, <1>6
  <2>2. SubSeq(drawn, 1, k) \o <<drawn[k + 1]>> = SubSeq(drawn, 1, k + 1)
    BY <1>2, <1>4, <1>6
  <2>3. QED
    BY <1>7, <2>1, <2>2
<1>11. \E t \in Seq(0..255) :
         /\ utf8' = utf8 \o t /\ i' = off[k + 1] /\ Len(t) \in 1..4
         /\ SequenceLength(t[1]) = Len(t) /\ Decoded(t) = cp
  <2>1. CASE off[k + 1] = i + 1 /\ cp \in Unit /\ ~IsSurrogate(cp) /\ utf16[off[k + 1]] = cp
    <3>1. w1 = cp
      BY <1>4, <1>9, <2>1 DEF w1
    <3>2. PushUnit
      BY <2>1, <3>1 DEF PushPair, IsSurrogate
    <3>3. utf8' = utf8 \o EncodeUnit(cp) /\ i' = i + 1
      BY <3>1, <3>2 DEF PushUnit
    <3>4. /\ EncodeUnit(cp) \in Seq(0..255) /\ Len(EncodeUnit(cp)) \in 1..4
          /\ SequenceLength(EncodeUnit(cp)[1]) = Len(EncodeUnit(cp))
          /\ Decoded(EncodeUnit(cp)) = cp
      BY <2>1, EncodeUnitType, UnitIsDecoded
    <3>5. QED
      BY <2>1, <3>3, <3>4
  <2>2. CASE /\ off[k + 1] = i + 2 /\ cp \in CodePoints
             /\ <<utf16[i + 1], utf16[off[k + 1]]>> = Surrogates(cp)
    <3>1. PICK h \in Unit, l \in Unit :
            /\ Surrogates(cp) = <<h, l>> /\ IsHigh(h) /\ IsLow(l) /\ CodePoint(h, l) = cp
      BY <2>2, SupplementaryIs
    <3>2. utf16[i + 1] = h /\ utf16[i + 2] = l
      BY <2>2, <3>1
    <3>3. w1 = h
      BY <1>4, <1>9, <3>2 DEF w1
    <3>4. PushPair
      BY <3>1, <3>3 DEF PushUnit, IsSurrogate
    <3>5. W(i + 1) = l
      <4>1. i + 1 \in 0..(N - 1) /\ i + 1 + 1 = i + 2
        BY <1>2, <1>4, <3>4 DEF PushPair, PairFollows, HasNext
      <4>2. QED
        BY <1>9, <3>2, <4>1
    <3>6. utf8' = utf8 \o EncodePair(cp) /\ i' = i + 2
      BY <3>1, <3>3, <3>4, <3>5 DEF PushPair
    <3>7. /\ EncodePair(cp) \in Seq(0..255) /\ Len(EncodePair(cp)) \in 1..4
          /\ SequenceLength(EncodePair(cp)[1]) = Len(EncodePair(cp))
          /\ Decoded(EncodePair(cp)) = cp
      BY <2>2, EncodePairType, PairIsDecoded
    <3>8. QED
      BY <2>2, <3>6, <3>7
  <2>3. QED
    BY <1>8, <2>1, <2>2 DEF Written
<1>12. PICK t \in Seq(0..255) :
         /\ utf8' = utf8 \o t /\ i' = off[k + 1] /\ Len(t) \in 1..4
         /\ SequenceLength(t[1]) = Len(t) /\ Decoded(t) = cp
  BY <1>11
<1>13. DecodeUtf8(utf8 \o t) = DecodeUtf8(utf8) \o <<Decoded(t)>>
  BY <1>3, <1>4, <1>10, <1>12, DecodeAppend
<1>14. DecodeUtf8(utf8') = SubSeq(drawn', 1, k + 1) /\ i' = off[k + 1] /\ k + 1 \in 0..Len(drawn')
  BY <1>2, <1>3, <1>6, <1>10, <1>12, <1>13
<1>15. Ends(drawn', utf16', off)
  BY <1>1, <1>4
<1>16. /\ le' = TRUE /\ Len(utf16') <= Length + 1 /\ PairedUpto(utf16', Len(utf16'))
       /\ drawn' # <<>>
  BY <1>4 DEF Drawn
<1>17. QED
  BY <1>14, <1>15, <1>16 DEF Drawn

LEMMA DrawnStays ==
  ASSUME Waiting, Waiting', Drawn, [BenchmarkNext]_allVars
  PROVE  Drawn'
<1>1. CASE [Next]_vars /\ drawn' = drawn
  <2>1. CASE ~ByMain
    <3>1. ~ByMain'
      BY <1>1, <2>1 DEF ByMain, Next, PushUnit, PushPair, Throw, Return, vars
    <3>2. QED
      BY <3>1 DEF Drawn
  <2>2. CASE ByMain /\ (PushUnit \/ PushPair)
    BY <1>1, <2>2, ConvertsCharacter
  <2>3. CASE ByMain /\ (Throw \/ Return \/ UNCHANGED vars)
    <3>1. UNCHANGED <<utf16, le, i, utf8, drawn>> /\ (pc' = pc \/ pc = "loop")
      BY <1>1, <2>3 DEF Throw, Return, Looping, vars
    <3>2. pc' # "generate" => drawn' # <<>>
      BY <2>3, <3>1 DEF Drawn
    <3>3. QED
      BY <2>3, <3>1, <3>2 DEF Drawn
  <2>4. QED
    BY <1>1, <2>1, <2>2, <2>3 DEF Next
<1>2. CASE \E cp \in Draws : PushBasic(cp) \/ PushSupplementary(cp)
  <2>1. PICK cp \in Draws : PushBasic(cp) \/ PushSupplementary(cp)
    BY <1>2
  <2>2. /\ pc = "generate" /\ pc' = "generate" /\ Len(utf16) < Length
        /\ drawn' = Append(drawn, cp) /\ UNCHANGED <<le, i, utf8>>
    BY <2>1, PushIs
  <2>3. PICK w : /\ utf16' = utf16 \o w
                 /\ \/ cp \in Unit /\ ~IsSurrogate(cp) /\ w = <<cp>>
                    \/ cp \in CodePoints /\ w = Surrogates(cp)
    BY <2>1, PushIs
  <2>4. /\ le = TRUE /\ PairedUpto(utf16, Len(utf16)) /\ i = 0 /\ utf8 = <<>>
        /\ utf16 \in Seq(Unit) /\ drawn \in Seq(Nat)
    BY <2>2 DEF Drawn, ByMain, Waiting, TypeOK
  <2>5. cp \in Nat
    BY DrawnIs, SMT
  <2>6. /\ w \in Seq(Unit) /\ Len(w) \in 1..2
        /\ Written(utf16 \o w, Len(utf16), Len(utf16) + Len(w), cp)
        /\ PairedUpto(utf16 \o w, Len(utf16) + Len(w))
    BY <2>3, <2>4, AppendsCharacter
  <2>7. PICK L \in Nat : L = Len(utf16) /\ L < Length /\ Len(utf16 \o w) = L + Len(w)
    BY <2>2, <2>4, <2>6, ConcatProperties, LenProperties
  <2>8. PICK o : Ends(Append(drawn, cp), utf16 \o w, o)
    <3>1. PICK off : Ends(drawn, utf16, off)
      BY <2>2 DEF Drawn, ByMain
    <3>2. QED
      BY <2>4, <2>5, <2>6, <3>1, EndsMore
  <2>9. 0 \in 0..Len(drawn') /\ i' = o[0] /\ DecodeUtf8(utf8') = SubSeq(drawn', 1, 0)
    <3>1. Append(drawn, cp) \in Seq(Nat)
      BY <2>4, <2>5
    <3>2. SubSeq(Append(drawn, cp), 1, 0) = <<>> /\ 0 \in 0..Len(Append(drawn, cp))
      BY <3>1
    <3>3. o[0] = 0
      BY <2>8 DEF Ends
    <3>4. QED
      BY <2>2, <2>4, <3>2, <3>3, OfNothing
  <2>10. PairedUpto(utf16', Len(utf16'))
    BY <2>3, <2>6, <2>7
  <2>11. Len(utf16') <= Length + 1
    <3>1. PICK k \in 1..2 : k = Len(w)
      BY <2>6
    <3>2. Length \in Nat /\ L < Length
      BY <2>7, DrawsAssumption
    <3>3. L + k <= Length + 1
      BY <3>2
    <3>4. QED
      BY <2>3, <2>7, <3>1, <3>3
  <2>12. Ends(drawn', utf16', o)
    BY <2>2, <2>3, <2>8
  <2>13. QED
    BY <2>2, <2>4, <2>9, <2>10, <2>11, <2>12 DEF Drawn
<1>3. CASE Convert
  <2>1. /\ UNCHANGED <<utf16, le, i, utf8, drawn>> /\ pc = "generate" /\ Len(utf16) >= Length
        /\ ByMain
    BY <1>3 DEF Convert, ByMain
  <2>2. drawn # <<>>
    <3>1. SUFFICES ASSUME drawn = <<>> PROVE FALSE
      OBVIOUS
    <3>2. PICK off : Ends(drawn, utf16, off)
      BY <2>1 DEF Drawn
    <3>3. Len(utf16) = 0
      BY <3>1, <3>2 DEF Ends
    <3>4. QED
      BY <2>1, <3>3, DrawsAssumption
  <2>3. QED
    BY <2>1, <2>2 DEF Drawn
<1>4. QED
  BY <1>1, <1>2, <1>3, BenchmarkSteps

LEMMA DrawnHolds == BenchmarkSpec => []Drawn
<1>1. Waiting /\ Waiting' /\ Drawn /\ [BenchmarkNext]_allVars => Drawn'
  BY DrawnStays
<1>2. QED
  BY <1>1, DrawnAtFirst, WaitingHolds, PTL DEF BenchmarkSpec

\* Main's string is well-formed and not more than a unit too long, whatever is
\* drawn, so the scalar converter does not throw; and when it is done its
\* result is the text that was drawn.
THEOREM DrawnTextSurvives == BenchmarkSpec => []TextSurvives
<1>1. Waiting /\ Paired /\ Drawn => TextSurvives
  <2> SUFFICES ASSUME Waiting, Paired, Drawn, drawn # <<>>
               PROVE  /\ WellFormed(utf16) /\ Len(utf16) <= Length + 1
                      /\ pc # "thrown" /\ (pc = "done" => DecodeUtf8(utf8) = drawn)
    BY DEF TextSurvives
  <2>1. le = TRUE /\ Len(utf16) <= Length + 1 /\ PairedUpto(utf16, Len(utf16))
    BY DEF Drawn, ByMain
  <2>2. WellFormed(utf16)
    BY <2>1 DEF PairedUpto, WellFormed
  <2>3. Text = utf16
    <3>1. Text = [n \in 1..Len(utf16) |-> W(n - 1)]
      BY DEF Text
    <3>2. \A n \in 1..Len(utf16) : W(n - 1) = utf16[n]
      BY <2>1 DEF W, Host
    <3>3. utf16 = [n \in 1..Len(utf16) |-> utf16[n]]
      BY LenProperties DEF Waiting, TypeOK
    <3>4. QED
      BY <3>1, <3>2, <3>3
  <2>4. pc # "thrown"
    BY <2>2, <2>3 DEF Paired
  <2>5. ASSUME pc = "done" PROVE DecodeUtf8(utf8) = drawn
    <3>1. PICK off : /\ Ends(drawn, utf16, off)
                     /\ \E k \in 0..Len(drawn) : i = off[k] /\ DecodeUtf8(utf8) = SubSeq(drawn, 1, k)
      BY DEF Drawn, ByMain
    <3>2. PICK D \in Nat : D = Len(drawn)
      BY LenProperties DEF Waiting
    <3>3. PICK k \in 0..D : i = off[k] /\ DecodeUtf8(utf8) = SubSeq(drawn, 1, k)
      BY <3>1, <3>2
    <3>4. i = off[D] /\ off \in [0..D -> Nat] /\ \A a, b \in 0..D : a < b => off[a] < off[b]
      BY <2>5, <3>1, <3>2 DEF Ends, Paired
    <3>5. k = D
      <4>1. SUFFICES ASSUME k < D PROVE FALSE
        OBVIOUS
      <4>2. off[k] < off[D] /\ off[k] \in Nat
        BY <3>4, <4>1
      <4>3. QED
        BY <3>3, <3>4, <4>2
    <3>6. SubSeq(drawn, 1, D) = drawn
      BY <3>2, SubSeqFull DEF Waiting
    <3>7. QED
      BY <3>3, <3>5, <3>6
  <2>6. QED
    BY <2>1, <2>2, <2>4, <2>5
<1>2. QED
  BY <1>1, WaitingHolds, PairedInBenchmark, DrawnHolds, PTL
-----------------------------------------------------------------------------
(* The vector converter in main.                                           *)

VP == INSTANCE Utf16ToUtf8Avx2Proofs WITH i <- vI, utf8 <- vUtf8, pc <- vPc

LEMMA SameUnits == VP!Unit = Unit
BY DEF VP!Unit, VP!MaxUnit, Unit, MaxUnit

LEMMA VectorMayRun ==
  /\ Lanes \in Nat \ {0} /\ BufSize \in Nat /\ 3 * Lanes <= BufSize
  /\ Strings \subseteq Seq(VP!Unit)
BY VectorAssumption, StringsAssumption, SameUnits

LEMMA SameSteps == Vector!Next => VP!Next
<1>1. \A n, b : VP!Host(n, b) = Vector!Host(n, b)
  BY DEF VP!Host, VP!SwapBytes, Vector!Host, Vector!SwapBytes
<1>2. \A n : VP!W(n) = Vector!W(n)
  BY <1>1 DEF VP!W, Vector!W
<1>3. \A n : VP!EncodeUnit(n) = Vector!EncodeUnit(n)
  BY DEF VP!EncodeUnit, Vector!EncodeUnit
<1>4. \A n : VP!LaneBytes(n) = Vector!LaneBytes(n)
  BY <1>3 DEF VP!LaneBytes, Vector!LaneBytes
<1>5. \A n : VP!Signed(n) = Vector!Signed(n)
  BY DEF VP!Signed, Vector!Signed
<1>6. \A n : VP!LooksAscii(n) = Vector!LooksAscii(n)
  BY <1>2, <1>5 DEF VP!LooksAscii, Vector!LooksAscii
<1>7. Vector!CompareBlock => VP!CompareBlock
  BY <1>6 DEF VP!CompareBlock, Vector!CompareBlock
<1>8. Vector!WriteLane => VP!WriteLane
  BY <1>2, <1>4 DEF VP!WriteLane, Vector!WriteLane
<1>9. Vector!AppendBlock => VP!AppendBlock
  BY DEF VP!AppendBlock, Vector!AppendBlock, VP!Reset, Vector!Reset, VP!NextBlock, Vector!NextBlock
<1>10. Vector!LeaveBlocks => VP!LeaveBlocks
  BY DEF VP!LeaveBlocks, Vector!LeaveBlocks
<1>11. Vector!WriteTailUnit => VP!WriteTailUnit
  BY <1>2, <1>3 DEF VP!WriteTailUnit, Vector!WriteTailUnit
<1>12. Vector!Return => VP!Return
  BY DEF VP!Return, Vector!Return
<1>13. QED
  BY <1>7, <1>8, <1>9, <1>10, <1>11, <1>12 DEF VP!Next, Vector!Next

LEMMA SameMisjudged == Vector!NoneMisjudged <=> VP!NoneMisjudged
<1>1. \A n, b : VP!Host(n, b) = Vector!Host(n, b)
  BY DEF VP!Host, VP!SwapBytes, Vector!Host, Vector!SwapBytes
<1>2. \A n : VP!W(n) = Vector!W(n)
  BY <1>1 DEF VP!W, Vector!W
<1>3. ASSUME NEW n PROVE Vector!Misjudged(n) <=> VP!Misjudged(n)
  <2>1. {Vector!W(l) : l \in n..(n + Lanes - 1)} = {VP!W(l) : l \in n..(n + Lanes - 1)}
    BY <1>2
  <2> DEFINE A == {Vector!W(l) : l \in n..(n + Lanes - 1)}
             B == {VP!W(l) : l \in n..(n + Lanes - 1)}
             R == \h81..\h7FFF
  <2>2. Vector!Misjudged(n) <=> A \cap R = {} /\ \E w \in A : w >= \h80
    BY DEF Vector!Misjudged
  <2>3. VP!Misjudged(n) <=> B \cap R = {} /\ \E w \in B : w >= \h80
    BY DEF VP!Misjudged
  <2>4. A = B
    BY <2>1
  <2> HIDE DEF A, B, R
  <2>5. QED
    BY <2>2, <2>3, <2>4
<1>4. QED
  BY <1>3 DEF VP!NoneMisjudged, Vector!NoneMisjudged

\* Before main's first conversion ends the other one has not begun; while it
\* runs, and after, what is proved of a call holds of it.
Fresh == /\ vPc \in {"idle", "blocks"}
         /\ vI = 0 /\ vUtf8 = <<>> /\ j = 0 /\ ascii = FALSE /\ buffer = <<>>
Main == vPc # "idle"
Running == VP!Inv /\ VP!Blocks /\ VP!Layout
SecondConversion ==
  /\ pc \in {"generate", "loop"} => Fresh
  /\ Main => Running

LEMMA FreshRuns == Waiting /\ Fresh /\ Main => Running
<1> SUFFICES ASSUME Waiting, Fresh, vPc = "blocks" PROVE Running
  BY DEF Fresh, Main
<1>1. VP!TypeOK
  <2>1. /\ utf16 \in Seq(VP!Unit) /\ le \in BOOLEAN /\ vI = 0 /\ vUtf8 = <<>> /\ buffer = <<>>
        /\ j = 0 /\ ascii = FALSE
    BY SameUnits DEF Waiting, TypeOK, Fresh
  <2>2. 0 \in 0..Len(utf16) /\ 0 \in 0..Lanes
    BY <2>1, LenProperties, VectorAssumption
  <2>3. <<>> \in Seq(0..255)
    OBVIOUS
  <2>4. QED
    BY <2>1, <2>2, <2>3 DEF VP!TypeOK
<1>2. VP!Used
  BY DEF VP!Used, Fresh
<1>3. VP!Blocks
  <2>1. Lanes * 0 = 0
    BY VectorAssumption
  <2>2. QED
    BY <2>1 DEF VP!Blocks, Fresh
<1>4. VP!Layout
  <2>1. vUtf8 \o buffer = <<>> /\ vI = 0
    BY DEF Fresh
  <2>2. VP!LaidOut(VP!Pieces, 0, <<>>)
    BY VP!NothingLaidOut, VectorMayRun
  <2>3. QED
    BY <2>1, <2>2 DEF VP!Layout
<1>5. QED
  BY <1>1, <1>2, <1>3, <1>4 DEF Running, VP!Inv

LEMMA FreshStillRuns == Waiting' /\ Fresh' /\ Main' => Running'
BY FreshRuns, PTL

LEMMA RunningStays == Running /\ [VP!Next]_VP!vars => Running'
<1>1. VP!Inv /\ [VP!Next]_VP!vars => VP!Inv'
  BY VP!InvStep, VectorMayRun
<1>2. VP!Inv /\ VP!Blocks /\ [VP!Next]_VP!vars => VP!Blocks'
  BY VP!BlocksStep, VectorMayRun
<1>3. VP!Inv /\ VP!Blocks /\ VP!Layout /\ [VP!Next]_VP!vars => VP!Layout'
  BY VP!LayoutStep, VectorMayRun
<1>4. QED
  BY <1>1, <1>2, <1>3 DEF Running

LEMMA SecondStays ==
  ASSUME Waiting, Waiting', SecondConversion, [BenchmarkNext]_allVars
  PROVE  SecondConversion'
<1>1. CASE ConvertAgain
  <2>1. pc \notin {"generate", "loop"} /\ pc' = pc /\ Vector!Next
    BY <1>1 DEF ConvertAgain
  <2>2. Main
    BY <2>1 DEF Vector!Next, Vector!CompareBlock, Vector!WriteLane, Vector!AppendBlock,
                Vector!LeaveBlocks, Vector!WriteTailUnit, Vector!Return, Main
  <2>3. Running'
    BY <2>1, <2>2, SameSteps, RunningStays DEF SecondConversion
  <2>4. QED
    BY <2>1, <2>3 DEF SecondConversion
<1>2. CASE \E cp \in Draws : PushBasic(cp) \/ PushSupplementary(cp)
  <2>1. pc = "generate" /\ pc' = "generate" /\ UNCHANGED vectorVars
    BY <1>2 DEF PushBasic, PushSupplementary, Generating
  <2>2. Fresh'
    BY <2>1 DEF SecondConversion, Fresh, vectorVars
  <2>3. QED
    BY <2>1, <2>2, FreshStillRuns DEF SecondConversion
<1>3. CASE UNCHANGED <<utf16, le, vectorVars>> /\ (pc' \in {"generate", "loop"} => pc \in {"generate", "loop"})
  <2>1. Fresh => Fresh'
    BY <1>3 DEF Fresh, vectorVars
  <2>2. (Main' <=> Main) /\ UNCHANGED VP!vars
    BY <1>3 DEF VP!vars, vectorVars, Main
  <2>3. Running => Running'
    BY <2>2, RunningStays
  <2>4. QED
    BY <1>3, <2>1, <2>2, <2>3 DEF SecondConversion
<1>4. CASE (\E cp \in Draws : Reject(cp)) \/ UNCHANGED allVars
  BY <1>3, <1>4 DEF Reject, allVars, vars, vectorVars
<1>5. CASE Convert
  BY <1>3, <1>5 DEF Convert, vectorVars
<1>6. CASE Next /\ UNCHANGED <<drawn, vectorVars>>
  BY <1>3, <1>6 DEF Next, PushUnit, PushPair, Throw, Return, Looping
<1>7. QED
  BY <1>1, <1>2, <1>4, <1>5, <1>6 DEF BenchmarkNext

LEMMA SecondHolds == BenchmarkSpec => []SecondConversion
<1>1. BenchmarkInit /\ Waiting => SecondConversion
  BY FreshRuns DEF BenchmarkInit, StartMain, VectorInit, Fresh, SecondConversion
<1>2. Waiting /\ Waiting' /\ SecondConversion /\ [BenchmarkNext]_allVars => SecondConversion'
  BY SecondStays
<1>3. QED
  BY <1>1, <1>2, WaitingHolds, PTL DEF BenchmarkSpec
-----------------------------------------------------------------------------
(* The bytes of each unit in the scalar converter's result: a pair is two  *)
(* halves.                                                                 *)

FirstHalf(cp) == SubSeq(EncodePair(cp), 1, 2)
SecondHalf(cp) == SubSeq(EncodePair(cp), 3, 4)

\* 0xED begins the three bytes of 0xD000 to 0xDFFF, and is no other byte.
Followed(s) == \A n \in 1..Len(s) : s[n] = \hED => n + 1 <= Len(s) /\ s[n + 1] < \hA0

LEMMA Halves ==
  ASSUME NEW cp \in CodePoints
  PROVE  /\ FirstHalf(cp) \in Seq(0..255) /\ Len(FirstHalf(cp)) = 2
         /\ SecondHalf(cp) \in Seq(0..255) /\ Len(SecondHalf(cp)) = 2
         /\ EncodePair(cp) = FirstHalf(cp) \o SecondHalf(cp)
<1>1. PICK s \in Seq(0..255) : s = EncodePair(cp) /\ Len(s) = 4
  BY EncodePairType
<1>2. \A n \in 1..4 : s[n] \in 0..255
  BY <1>1, ElementOfSeq
<1>3. SubSeq(s, 1, 2) \in Seq(0..255) /\ Len(SubSeq(s, 1, 2)) = 2
  <2>1. ASSUME NEW n \in 1..2 PROVE s[n] \in 0..255
    <3>1. n \in 1..4
      OBVIOUS
    <3>2. QED
      BY <1>2, <3>1
  <2>2. QED
    BY <2>1, SubSeqProperties
<1>4. SubSeq(s, 3, 4) \in Seq(0..255) /\ Len(SubSeq(s, 3, 4)) = 2
  <2>1. ASSUME NEW n \in 3..4 PROVE s[n] \in 0..255
    <3>1. n \in 1..4
      OBVIOUS
    <3>2. QED
      BY <1>2, <3>1
  <2>2. QED
    BY <2>1, SubSeqProperties
<1>5. SubSeq(s, 1, 2) \o SubSeq(s, 3, 4) = s
  <2>1. SubSeq(s, 1, 4) = s
    BY <1>1, SubSeqFull
  <2>2. SubSeq(s, 1, 2) \o SubSeq(s, 2 + 1, 4) = SubSeq(s, 1, 4)
    BY <1>1, ConcatAdjacentSubSeq
  <2>3. 2 + 1 = 3
    OBVIOUS
  <2>4. QED
    BY <2>1, <2>2, <2>3
<1>6. QED
  BY <1>1, <1>3, <1>4, <1>5 DEF FirstHalf, SecondHalf

LEMMA PairFollowed ==
  ASSUME NEW cp \in CodePoints
  PROVE  Followed(EncodePair(cp))
<1> DEFINE b1 == 240 + cp \div 262144
           b2 == 128 + ((cp \div 4096) % 64)
           b3 == 128 + ((cp \div 64) % 64)
           b4 == 128 + (cp % 64)
<1>1. EncodePair(cp) = <<b1, b2, b3, b4>>
  BY DEF EncodePair
<1>2. cp \div 262144 \in 0..4
  BY CodePointIs, SMT
<1>3. (cp \div 4096) % 64 \in 0..63 /\ (cp \div 64) % 64 \in 0..63 /\ cp % 64 \in 0..63
  BY CodePointIs, SMT
<1>4. b1 # 237 /\ b2 # 237 /\ b3 # 237 /\ b4 # 237
  BY <1>2, <1>3
<1> HIDE DEF b1, b2, b3, b4
<1>5. Len(<<b1, b2, b3, b4>>) = 4
  OBVIOUS
<1>6. ASSUME NEW n \in 1..4 PROVE <<b1, b2, b3, b4>>[n] # 237
  <2>1. n = 1 \/ n = 2 \/ n = 3 \/ n = 4
    OBVIOUS
  <2>2. QED
    BY <1>4, <2>1
<1>7. QED
  BY <1>1, <1>5, <1>6 DEF Followed

LEMMA UnitFollowed ==
  ASSUME NEW w \in Unit
  PROVE  /\ ~IsSurrogate(w) => Followed(EncodeUnit(w))
         /\ IsSurrogate(w) => /\ EncodeUnit(w)[1] = 237 /\ EncodeUnit(w)[2] >= 160
                              /\ Len(EncodeUnit(w)) = 3
         /\ w >= 128 => Len(EncodeUnit(w)) >= 2
<1>1. w \in Int /\ 0 <= w /\ w <= 65535
  BY UnitIs
<1>2. CASE w < 128
  <2>1. EncodeUnit(w) = <<w>>
    BY <1>2 DEF EncodeUnit
  <2>2. Len(<<w>>) = 1 /\ <<w>>[1] = w
    OBVIOUS
  <2>3. \A n \in 1..1 : n = 1
    OBVIOUS
  <2>4. Followed(<<w>>)
    BY <1>1, <1>2, <2>2, <2>3 DEF Followed
  <2>5. ~IsSurrogate(w) /\ ~(w >= 128)
    BY <1>1, <1>2 DEF IsSurrogate, IsHigh, IsLow
  <2>6. QED
    BY <2>1, <2>4, <2>5
<1>3. CASE 128 <= w /\ w < 2048
  <2> DEFINE b1 == 192 + w \div 64
             b2 == 128 + (w % 64)
  <2>1. EncodeUnit(w) = <<b1, b2>>
    BY <1>1, <1>3 DEF EncodeUnit
  <2>2. b1 # 237 /\ b2 # 237
    BY <1>1, <1>3
  <2>3. ~IsSurrogate(w)
    BY <1>1, <1>3 DEF IsSurrogate, IsHigh, IsLow
  <2> HIDE DEF b1, b2
  <2>4. Len(<<b1, b2>>) = 2 /\ <<b1, b2>>[1] = b1 /\ <<b1, b2>>[2] = b2
    OBVIOUS
  <2>5. \A n \in 1..2 : n = 1 \/ n = 2
    OBVIOUS
  <2>6. Followed(<<b1, b2>>)
    BY <2>2, <2>4, <2>5 DEF Followed
  <2>7. QED
    BY <2>1, <2>3, <2>4, <2>6
<1>4. CASE 2048 <= w
  <2> DEFINE b1 == 224 + w \div 4096
             b2 == 128 + ((w \div 64) % 64)
             b3 == 128 + (w % 64)
  <2>1. EncodeUnit(w) = <<b1, b2, b3>>
    BY <1>1, <1>4 DEF EncodeUnit
  <2>2. b1 \in 224..239 /\ b2 \in 128..191 /\ b3 \in 128..191
    BY <1>1, <1>4
  <2>3. IsSurrogate(w) => b1 = 237 /\ b2 >= 160
    BY <1>1 DEF IsSurrogate, IsHigh, IsLow
  <2>4. ~IsSurrogate(w) /\ b1 = 237 => b2 < 160
    BY <1>1 DEF IsSurrogate, IsHigh, IsLow
  <2> HIDE DEF b1, b2, b3
  <2>5. /\ Len(<<b1, b2, b3>>) = 3
        /\ <<b1, b2, b3>>[1] = b1 /\ <<b1, b2, b3>>[2] = b2 /\ <<b1, b2, b3>>[3] = b3
    OBVIOUS
  <2>6. b2 # 237 /\ b3 # 237
    BY <2>2
  <2>7. ASSUME ~IsSurrogate(w) PROVE Followed(<<b1, b2, b3>>)
    <3>1. \A n \in 1..3 : n = 1 \/ n = 2 \/ n = 3
      OBVIOUS
    <3>2. b1 = 237 => b2 < 160
      BY <2>4, <2>7
    <3>3. QED
      BY <2>5, <2>6, <3>1, <3>2 DEF Followed
  <2>8. QED
    BY <2>1, <2>3, <2>5, <2>7
<1>5. QED
  BY <1>1, <1>2, <1>3, <1>4

LEMMA FollowedJoins ==
  ASSUME NEW s \in Seq(0..255), NEW t \in Seq(0..255), Followed(s), Followed(t)
  PROVE  Followed(s \o t)
<1>1. PICK N \in Nat, k \in Nat, u \in Seq(0..255) :
        N = Len(s) /\ k = Len(t) /\ u = s \o t
  <2>1. s \o t \in Seq(0..255) /\ Len(s) \in Nat /\ Len(t) \in Nat
    BY ConcatProperties, LenProperties
  <2>2. QED
    BY <2>1
<1>2. /\ Len(u) = N + k /\ \A q \in 1..N : u[q] = s[q]
      /\ \A l \in 1..k : u[N + l] = t[l]
  <2>1. Len(u) = N + k /\ \A q \in 1..N : u[q] = s[q]
    BY <1>1, ConcatProperties
  <2>2. ASSUME NEW l \in 1..k PROVE u[N + l] = t[l]
    <3>1. N + l \in 1..(N + k) /\ ~(N + l <= N) /\ (N + l) - N = l
      OBVIOUS
    <3>2. QED
      BY <1>1, <3>1, ConcatProperties
  <2>3. QED
    BY <2>1, <2>2
<1>3. SUFFICES ASSUME NEW n \in 1..(N + k), u[n] = 237
               PROVE  n + 1 <= N + k /\ u[n + 1] < 160
  BY <1>1, <1>2 DEF Followed
<1>4. CASE n <= N
  <2>1. n \in 1..N /\ s[n] = 237
    BY <1>2, <1>3, <1>4
  <2>2. n + 1 <= N /\ s[n + 1] < 160
    BY <1>1, <2>1 DEF Followed
  <2>3. n + 1 \in 1..N
    BY <2>2
  <2>4. QED
    BY <1>2, <2>2, <2>3
<1>5. CASE ~(n <= N)
  <2>1. PICK l \in 1..k : n = N + l
    <3>1. n - N \in 1..k /\ n = N + (n - N)
      BY <1>5
    <3>2. QED
      BY <3>1
  <2>2. t[l] = 237
    BY <1>2, <1>3, <2>1
  <2>3. l + 1 <= k /\ t[l + 1] < 160
    BY <1>1, <2>2 DEF Followed
  <2>4. l + 1 \in 1..k /\ n + 1 = N + (l + 1)
    BY <2>1, <2>3
  <2>5. u[n + 1] = t[l + 1]
    BY <1>2, <2>4
  <2>6. n + 1 <= N + k
    BY <2>1, <2>3
  <2>7. QED
    BY <2>3, <2>5, <2>6
<1>6. QED
  BY <1>4, <1>5
Leads(n) == IsHigh(W(n)) /\ n + 1 < Len(utf16) /\ IsLow(W(n + 1))
Ended(n) == IsLow(W(n)) /\ n > 0 /\ IsHigh(W(n - 1))
BytesOf(n) ==
  IF Leads(n) THEN FirstHalf(CodePoint(W(n), W(n + 1)))
  ELSE IF Ended(n) THEN SecondHalf(CodePoint(W(n - 1), W(n))) ELSE EncodeUnit(W(n))
UnitBytes == [n \in 0..(Len(utf16) - 1) |-> BytesOf(n)]

\* What the scalar converter has written so far.
Piled == LaidOut(UnitBytes, i, utf8) /\ Followed(utf8)

LEMMA UnitBytesIs ==
  ASSUME TypeOK, NEW n \in 0..(Len(utf16) - 1)
  PROVE  /\ UnitBytes[n] \in Seq(0..255) /\ UnitBytes[n] = BytesOf(n)
         /\ ~IsSurrogate(W(n)) => UnitBytes[n] = EncodeUnit(W(n))
         /\ W(n) >= 128 => Len(UnitBytes[n]) >= 2
<1>1. PICK N \in Nat : N = Len(utf16)
  BY LenProperties DEF TypeOK
<1>2. \A l \in 0..(N - 1) : W(l) \in Unit
  BY <1>1, TextIs
<1>3. W(n) \in Unit /\ UnitBytes[n] = BytesOf(n)
  BY <1>1, <1>2 DEF UnitBytes
<1>4. CASE Leads(n)
  <2>1. n + 1 \in 0..(N - 1) /\ IsHigh(W(n)) /\ IsLow(W(n + 1))
    BY <1>1, <1>4 DEF Leads
  <2>2. CodePoint(W(n), W(n + 1)) \in CodePoints
    BY <1>2, <1>3, <2>1, PairIsCodePoint
  <2>3. UnitBytes[n] = FirstHalf(CodePoint(W(n), W(n + 1)))
    BY <1>3, <1>4 DEF BytesOf
  <2>4. IsSurrogate(W(n))
    BY <2>1 DEF IsSurrogate
  <2>5. UnitBytes[n] \in Seq(0..255) /\ Len(UnitBytes[n]) = 2
    BY <2>2, <2>3, Halves
  <2>6. QED
    BY <1>3, <2>4, <2>5
<1>5. CASE ~Leads(n) /\ Ended(n)
  <2>1. n - 1 \in 0..(N - 1) /\ IsHigh(W(n - 1)) /\ IsLow(W(n))
    BY <1>1, <1>5 DEF Ended
  <2>2. CodePoint(W(n - 1), W(n)) \in CodePoints
    BY <1>2, <1>3, <2>1, PairIsCodePoint
  <2>3. UnitBytes[n] = SecondHalf(CodePoint(W(n - 1), W(n)))
    BY <1>3, <1>5 DEF BytesOf
  <2>4. IsSurrogate(W(n))
    BY <2>1 DEF IsSurrogate
  <2>5. UnitBytes[n] \in Seq(0..255) /\ Len(UnitBytes[n]) = 2
    BY <2>2, <2>3, Halves
  <2>6. QED
    BY <1>3, <2>4, <2>5
<1>6. CASE ~Leads(n) /\ ~Ended(n)
  <2>1. UnitBytes[n] = EncodeUnit(W(n))
    BY <1>3, <1>6 DEF BytesOf
  <2>2. QED
    BY <1>3, <2>1, EncodeUnitType, UnitFollowed
<1>7. QED
  BY <1>4, <1>5, <1>6

LEMMA PileMore ==
  ASSUME TypeOK, NEW n \in 0..(Len(utf16) - 1), NEW s \in Seq(0..255),
         LaidOut(UnitBytes, n, s), NEW t \in Seq(0..255), t = UnitBytes[n]
  PROVE  LaidOut(UnitBytes, n + 1, s \o t)
<1>1. \A l \in 0..n : UnitBytes[l] \in Seq(0..255)
  <2>1. PICK N \in Nat : N = Len(utf16)
    BY LenProperties DEF TypeOK
  <2>2. \A l \in 0..n : l \in 0..(N - 1)
    BY <2>1
  <2>3. QED
    BY <2>1, <2>2, UnitBytesIs
<1> DEFINE p == UnitBytes
<1>2. n \in Nat /\ LaidOut(p, n, s) /\ t = p[n] /\ \A l \in 0..n : p[l] \in Seq(0..255)
  BY <1>1
<1> HIDE DEF p
<1>3. LaidOut(p, n + 1, s \o t)
  BY <1>2, LayOutMore
<1>4. QED
  BY <1>3 DEF p

LEMMA PiledStays == TypeOK /\ Piled /\ [Next]_vars => Piled'
<1> SUFFICES ASSUME TypeOK, Piled, [Next]_vars PROVE Piled'
  OBVIOUS
<1>1. PICK N \in Nat : N = Len(utf16) /\ i \in 0..N
  BY LenProperties DEF TypeOK
<1>2. UnitBytes' = UnitBytes
  <2>1. utf16' = utf16 /\ le' = le
    BY DEF Next, PushUnit, PushPair, Throw, Return, vars
  <2>2. QED
    BY <2>1 DEF UnitBytes, BytesOf, Leads, Ended, W
<1>3. utf8 \in Seq(0..255) /\ LaidOut(UnitBytes, i, utf8) /\ Followed(utf8)
  BY DEF TypeOK, Piled
<1>4. CASE PushUnit
  <2>1. PICK n \in 0..(N - 1), t \in Seq(0..255) :
          n = i /\ t = EncodeUnit(W(n)) /\ ~IsSurrogate(W(n)) /\ W(n) \in Unit
    <3>1. i \in 0..(N - 1) /\ ~IsSurrogate(W(i))
      BY <1>1, <1>4 DEF PushUnit, Looping, w1
    <3>2. W(i) \in Unit
      BY <1>1, <3>1, TextIs
    <3>3. EncodeUnit(W(i)) \in Seq(0..255)
      BY <3>2, EncodeUnitType
    <3>4. QED
      BY <3>1, <3>2, <3>3
  <2>2. utf8' = utf8 \o t /\ i' = n + 1
    BY <1>4, <2>1 DEF PushUnit, w1
  <2>3. t = UnitBytes[n]
    BY <1>1, <2>1, UnitBytesIs
  <2>4. LaidOut(UnitBytes, n + 1, utf8 \o t)
    BY <1>1, <1>3, <2>1, <2>3, PileMore
  <2>5. Followed(utf8 \o t)
    BY <1>3, <2>1, UnitFollowed, FollowedJoins
  <2>6. QED
    BY <1>2, <2>2, <2>4, <2>5 DEF Piled
<1>5. CASE PushPair
  <2>1. PICK n \in 0..(N - 1) : n = i /\ n + 1 \in 0..(N - 1) /\ IsHigh(W(n)) /\ IsLow(W(n + 1))
    <3>1. i \in 0..(N - 1) /\ i + 1 \in 0..(N - 1) /\ IsHigh(W(i)) /\ IsLow(W(i + 1))
      BY <1>1, <1>5 DEF PushPair, Looping, w1, PairFollows, HasNext
    <3>2. QED
      BY <3>1
  <2>2. W(n) \in Unit /\ W(n + 1) \in Unit
    BY <1>1, <2>1, TextIs
  <2>3. PICK cp \in CodePoints : cp = CodePoint(W(n), W(n + 1))
    BY <2>1, <2>2, PairIsCodePoint
  <2>4. PICK t \in Seq(0..255), u \in Seq(0..255) :
          t = FirstHalf(cp) /\ u = SecondHalf(cp) /\ EncodePair(cp) = t \o u
    BY Halves
  <2>5. utf8' = utf8 \o (t \o u) /\ i' = (n + 1) + 1
    <3>1. utf8' = utf8 \o EncodePair(cp) /\ i' = n + 2
      BY <1>5, <2>1, <2>3 DEF PushPair, w1
    <3>2. n + 2 = (n + 1) + 1
      OBVIOUS
    <3>3. QED
      BY <2>4, <3>1, <3>2
  <2>6. t = UnitBytes[n]
    <3>1. Leads(n)
      BY <1>1, <2>1 DEF Leads
    <3>2. UnitBytes[n] = BytesOf(n)
      BY <1>1, UnitBytesIs
    <3>3. QED
      BY <2>3, <2>4, <3>1, <3>2 DEF BytesOf
  <2>7. u = UnitBytes[n + 1]
    <3>1. ~IsHigh(W(n + 1))
      BY <2>1, <2>2, NotBoth
    <3>2. (n + 1) - 1 = n /\ n + 1 > 0
      OBVIOUS
    <3>3. ~Leads(n + 1) /\ Ended(n + 1)
      BY <2>1, <3>1, <3>2 DEF Leads, Ended
    <3>4. UnitBytes[n + 1] = BytesOf(n + 1)
      BY <1>1, <2>1, UnitBytesIs
    <3>5. QED
      BY <2>3, <2>4, <3>2, <3>3, <3>4 DEF BytesOf
  <2>8. PICK v \in Seq(0..255) : v = utf8 \o t /\ LaidOut(UnitBytes, n + 1, v)
    <3>1. LaidOut(UnitBytes, n + 1, utf8 \o t)
      BY <1>1, <1>3, <2>1, <2>6, PileMore
    <3>2. utf8 \o t \in Seq(0..255)
      BY <1>3, ConcatProperties
    <3>3. QED
      BY <3>1, <3>2
  <2>9. LaidOut(UnitBytes, (n + 1) + 1, v \o u)
    <3>1. n + 1 \in 0..(Len(utf16) - 1)
      BY <1>1, <2>1
    <3>2. QED
      BY <2>7, <2>8, <3>1, PileMore
  <2>10. v \o u = utf8 \o (t \o u)
    BY <1>3, <2>8, BytesJoin
  <2>11. Followed(utf8 \o (t \o u))
    <3>1. t \o u \in Seq(0..255) /\ Followed(t \o u)
      BY <2>4, EncodePairType, PairFollowed
    <3>2. QED
      BY <1>3, <3>1, FollowedJoins
  <2>12. QED
    BY <1>2, <2>5, <2>9, <2>10, <2>11 DEF Piled
<1>6. CASE Throw \/ Return \/ UNCHANGED vars
  <2>1. i' = i /\ utf8' = utf8
    BY <1>6 DEF Throw, Return, vars
  <2>2. QED
    BY <1>2, <1>3, <2>1 DEF Piled
<1>7. QED
  BY <1>4, <1>5, <1>6 DEF Next

LEMMA NothingPiled == (i = 0 /\ utf8 = <<>>) => Piled
<1> SUFFICES ASSUME i = 0, utf8 = <<>> PROVE Piled
  OBVIOUS
<1>1. Followed(<<>>)
  <2>1. Len(<<>>) = 0 /\ 1..0 = {}
    OBVIOUS
  <2>2. QED
    BY <2>1 DEF Followed
<1>2. QED
  BY <1>1, NothingLaidOut DEF Piled

LEMMA NothingPiledWaiting == Waiting /\ pc = "generate" => Piled
BY NothingPiled DEF Waiting

LEMMA PiledHolds == BenchmarkSpec => []Piled
<1>1. BenchmarkInit => Piled
  BY NothingPiled DEF BenchmarkInit, StartMain, Init
<1>2. Waiting' /\ (pc = "generate")' => Piled'
  BY NothingPiledWaiting, PTL
<1>3. Waiting /\ Waiting' /\ Piled /\ [BenchmarkNext]_allVars => Piled'
  <2> SUFFICES ASSUME Waiting, Waiting', Piled, [BenchmarkNext]_allVars PROVE Piled'
    OBVIOUS
  <2>1. CASE [Next]_vars
    BY <2>1, PiledStays DEF Waiting
  <2>2. CASE \E cp \in Draws : PushBasic(cp) \/ PushSupplementary(cp)
    <3>1. pc' = "generate"
      BY <2>2, PushIs
    <3>2. QED
      BY <1>2, <3>1
  <2>3. CASE Convert
    <3>1. UNCHANGED <<utf16, le, i, utf8>>
      BY <2>3 DEF Convert
    <3>2. UnitBytes' = UnitBytes
      BY <3>1 DEF UnitBytes, BytesOf, Leads, Ended, W
    <3>3. QED
      BY <3>1, <3>2 DEF Piled
  <2>4. QED
    BY <2>1, <2>2, <2>3, BenchmarkSteps
<1>4. QED
  BY <1>1, <1>3, WaitingHolds, PTL DEF BenchmarkSpec
-----------------------------------------------------------------------------
(* Main's two results.                                                     *)

Plain == {w \in Unit : ~IsSurrogate(w)}
BasicPoints == {cp \in Nat : cp < \h10000}

\* Surrogates are in the string exactly if a character beyond the basic plane
\* was drawn.
Mirrored == ByMain => (utf16 \in Seq(Plain) <=> drawn \in Seq(BasicPoints))

LEMMA ConcatIn ==
  ASSUME NEW S, NEW T, NEW s \in Seq(T), NEW t \in Seq(T)
  PROVE  s \o t \in Seq(S) <=> s \in Seq(S) /\ t \in Seq(S)
<1>1. s \in Seq(S) /\ t \in Seq(S) => s \o t \in Seq(S)
  BY ConcatProperties
<1>2. PICK N \in Nat, k \in Nat : N = Len(s) /\ k = Len(t)
  BY LenProperties
<1>3. s \o t \in Seq(T) /\ Len(s \o t) = N + k
  BY <1>2, ConcatProperties
<1>4. \A n \in 1..(N + k) : (s \o t)[n] = IF n <= N THEN s[n] ELSE t[n - N]
  BY <1>2, ConcatProperties
<1>5. ASSUME s \o t \in Seq(S) PROVE s \in Seq(S)
  <2>1. ASSUME NEW n \in 1..N PROVE s[n] \in S
    <3>1. n \in 1..(N + k) /\ n <= N
      OBVIOUS
    <3>2. (s \o t)[n] \in S
      BY <1>3, <1>5, <3>1, ElementOfSeq
    <3>3. QED
      BY <1>4, <3>1, <3>2
  <2>2. s = [n \in 1..N |-> s[n]]
    BY <1>2, LenProperties
  <2>3. s \in [1..N -> S]
    BY <2>1, <2>2
  <2>4. QED
    BY <2>3, SeqDef
<1>6. ASSUME s \o t \in Seq(S) PROVE t \in Seq(S)
  <2>1. ASSUME NEW n \in 1..k PROVE t[n] \in S
    <3>1. N + n \in 1..(N + k) /\ ~(N + n <= N) /\ (N + n) - N = n
      OBVIOUS
    <3>2. (s \o t)[N + n] \in S
      BY <1>3, <1>6, <3>1, ElementOfSeq
    <3>3. QED
      BY <1>4, <3>1, <3>2
  <2>2. t = [n \in 1..k |-> t[n]]
    BY <1>2, LenProperties
  <2>3. t \in [1..k -> S]
    BY <2>1, <2>2
  <2>4. QED
    BY <2>3, SeqDef
<1>7. QED
  BY <1>1, <1>5, <1>6

LEMMA MirroredStays ==
  ASSUME Waiting, Mirrored, [BenchmarkNext]_allVars
  PROVE  Mirrored'
<1>1. CASE [Next]_vars /\ drawn' = drawn
  <2>1. utf16' = utf16 /\ (ByMain' => ByMain)
    BY <1>1 DEF ByMain, Next, PushUnit, PushPair, Throw, Return, vars
  <2>2. QED
    BY <1>1, <2>1 DEF Mirrored
<1>2. CASE \E cp \in Draws : PushBasic(cp) \/ PushSupplementary(cp)
  <2>1. PICK cp \in Draws : PushBasic(cp) \/ PushSupplementary(cp)
    BY <1>2
  <2>2. /\ pc = "generate" /\ drawn' = Append(drawn, cp)
        /\ \/ cp \in Unit /\ ~IsSurrogate(cp) /\ utf16' = utf16 \o <<cp>>
           \/ cp \in CodePoints /\ utf16' = utf16 \o Surrogates(cp)
    BY <2>1, PushIs
  <2>3. utf16 \in Seq(Unit) /\ drawn \in Seq(Nat) /\ cp \in Nat
    BY DrawnIs, SMT DEF Waiting, TypeOK
  <2>4. drawn' = drawn \o <<cp>> /\ <<cp>> \in Seq(Nat)
    BY <2>2, <2>3
  <2>5. drawn' \in Seq(BasicPoints) <=> drawn \in Seq(BasicPoints) /\ <<cp>> \in Seq(BasicPoints)
    BY <2>3, <2>4, ConcatIn
  <2>6. \A S, x : <<x>> \in Seq(S) <=> x \in S
    <3> SUFFICES ASSUME NEW S, NEW x PROVE <<x>> \in Seq(S) <=> x \in S
      OBVIOUS
    <3>1. x \in S => <<x>> \in Seq(S)
      OBVIOUS
    <3>2. ASSUME <<x>> \in Seq(S) PROVE x \in S
      <4>1. Len(<<x>>) = 1 /\ <<x>>[1] = x /\ 1 \in 1..1
        OBVIOUS
      <4>2. <<x>>[1] \in S
        BY <3>2, <4>1, ElementOfSeq
      <4>3. QED
        BY <4>1, <4>2
    <3>3. QED
      BY <3>1, <3>2
  <2>7. utf16 \in Seq(Plain) <=> drawn \in Seq(BasicPoints)
    BY <2>2 DEF Mirrored, ByMain
  <2>8. CASE cp \in Unit /\ ~IsSurrogate(cp) /\ utf16' = utf16 \o <<cp>>
    <3>1. cp \in Plain /\ cp \in BasicPoints
      <4>1. cp < \h10000
        BY <2>8, UnitIs, SMT
      <4>2. QED
        BY <2>3, <2>8, <4>1 DEF Plain, BasicPoints
    <3>2. <<cp>> \in Seq(Unit)
      BY <2>6, <2>8
    <3>3. utf16' \in Seq(Plain) <=> utf16 \in Seq(Plain) /\ <<cp>> \in Seq(Plain)
      BY <2>3, <2>8, <3>2, ConcatIn
    <3>4. <<cp>> \in Seq(Plain) /\ <<cp>> \in Seq(BasicPoints)
      BY <2>6, <3>1
    <3>5. QED
      BY <2>5, <2>7, <3>3, <3>4 DEF Mirrored
  <2>9. CASE cp \in CodePoints /\ utf16' = utf16 \o Surrogates(cp)
    <3>1. cp \notin BasicPoints
      <4>1. ~(cp < \h10000)
        BY <2>9, CodePointIs, SMT
      <4>2. QED
        BY <4>1 DEF BasicPoints
    <3>2. PICK h \in Unit, l \in Unit : Surrogates(cp) = <<h, l>> /\ IsHigh(h)
      BY <2>9, SupplementaryIs
    <3>3. <<h, l>> \in Seq(Unit) /\ <<h, l>> \notin Seq(Plain)
      <4>1. <<h, l>> \in Seq(Unit) /\ Len(<<h, l>>) = 2 /\ <<h, l>>[1] = h /\ 1 \in 1..2
        OBVIOUS
      <4>2. h \notin Plain
        BY <3>2 DEF Plain, IsSurrogate
      <4>3. ASSUME <<h, l>> \in Seq(Plain) PROVE FALSE
        <5>1. <<h, l>>[1] \in Plain
          BY <4>1, <4>3, ElementOfSeq
        <5>2. QED
          BY <4>1, <4>2, <5>1
      <4>4. QED
        BY <4>1, <4>3
    <3>4. utf16' \notin Seq(Plain)
      BY <2>3, <2>9, <3>2, <3>3, ConcatIn
    <3>5. drawn' \notin Seq(BasicPoints)
      BY <2>5, <2>6, <3>1
    <3>6. QED
      BY <3>4, <3>5 DEF Mirrored
  <2>10. QED
    BY <2>2, <2>8, <2>9
<1>3. CASE Convert
  BY <1>3 DEF Convert, Mirrored, ByMain
<1>4. QED
  BY <1>1, <1>2, <1>3, BenchmarkSteps

LEMMA MirroredHolds == BenchmarkSpec => []Mirrored
<1>1. BenchmarkInit => Mirrored
  <2>1. <<>> \in Seq(Plain) /\ <<>> \in Seq(BasicPoints)
    OBVIOUS
  <2>2. QED
    BY <2>1 DEF BenchmarkInit, StartMain, Init, Mirrored, ByMain
<1>2. Waiting /\ Mirrored /\ [BenchmarkNext]_allVars => Mirrored'
  BY MirroredStays
<1>3. QED
  BY <1>1, <1>2, WaitingHolds, PTL DEF BenchmarkSpec
LEMMA ByMainStays ==
  ASSUME Waiting, Drawn, ByMain, [BenchmarkNext]_allVars
  PROVE  ByMain'
<1>1. CASE [Next]_vars /\ drawn' = drawn
  <2>1. pc = "generate" => pc' = "generate"
    BY <1>1 DEF Next, PushUnit, PushPair, Throw, Return, Looping, vars
  <2>2. QED
    BY <1>1, <2>1 DEF ByMain
<1>2. CASE \E cp \in Draws : PushBasic(cp) \/ PushSupplementary(cp)
  BY <1>2, PushIs DEF ByMain
<1>3. CASE Convert
  <2>1. drawn' = drawn /\ Len(utf16) >= Length
    BY <1>3 DEF Convert
  <2>2. drawn # <<>>
    <3>1. SUFFICES ASSUME drawn = <<>> PROVE FALSE
      OBVIOUS
    <3>2. PICK off : Ends(drawn, utf16, off)
      BY DEF Drawn
    <3>3. Len(utf16) = 0
      BY <3>1, <3>2 DEF Ends
    <3>4. QED
      BY <2>1, <3>3, DrawsAssumption
  <2>3. QED
    BY <2>1, <2>2 DEF ByMain
<1>4. QED
  BY <1>1, <1>2, <1>3, BenchmarkSteps

\* Only main converts a second time.
OnlyMain == Main => ByMain

LEMMA OnlyMainHolds == BenchmarkSpec => []OnlyMain
<1>1. BenchmarkInit => OnlyMain
  BY DEF BenchmarkInit, StartMain, VectorInit, OnlyMain, Main, ByMain
<1>2. Waiting /\ Drawn /\ OnlyMain /\ [BenchmarkNext]_allVars => OnlyMain'
  <2> SUFFICES ASSUME Waiting, Drawn, OnlyMain, [BenchmarkNext]_allVars PROVE Main' => ByMain'
    BY DEF OnlyMain
  <2>1. Main' => Main
    <3>1. CASE ConvertAgain
      BY <3>1 DEF ConvertAgain, Vector!Next, Vector!CompareBlock, Vector!WriteLane,
                  Vector!AppendBlock, Vector!LeaveBlocks, Vector!WriteTailUnit,
                  Vector!Return, Main
    <3>2. CASE vPc' = vPc
      BY <3>2 DEF Main
    <3>3. QED
      BY <3>1, <3>2 DEF BenchmarkNext, PushBasic, PushSupplementary, Reject, Convert,
                        allVars, vectorVars
  <2>2. QED
    BY <2>1, ByMainStays DEF OnlyMain
<1>3. QED
  BY <1>1, <1>2, WaitingHolds, DrawnHolds, PTL DEF BenchmarkSpec

\* Bytes are not put together of pieces of which some are shorter.
ShorterIn(cut, p, q, N) ==
  \A n \in 0..(N - 1) :
    /\ Len(p[n]) \in Nat /\ Len(q[n]) \in Nat
    /\ n \in cut => Len(p[n]) < Len(q[n])
    /\ n \notin cut => Len(p[n]) = Len(q[n])

LEMMA NoneShorter ==
  ASSUME NEW N \in Nat, NEW p, NEW q, NEW s, LaidOut(p, N, s), LaidOut(q, N, s),
         NEW cut, ShorterIn(cut, p, q, N)
  PROVE  \A n \in 0..(N - 1) : n \notin cut
<1> USE DEF ShorterIn
<1>1. PICK c \in [0..N -> Nat] : IsLayout(p, c, N, s)
  BY DEF LaidOut
<1>2. PICK d \in [0..N -> Nat] : IsLayout(q, d, N, s)
  BY DEF LaidOut
<1> DEFINE Behind(n) == \E l \in 0..(n - 1) : l \in cut
           Goes == {n \in Nat : n <= N => c[n] <= d[n] /\ (Behind(n) => c[n] < d[n])}
<1>3. 0 \in Goes
  <2>1. c[0] = 0 /\ d[0] = 0
    BY <1>1, <1>2 DEF IsLayout
  <2>2. ~Behind(0)
    OBVIOUS
  <2>3. QED
    BY <2>1, <2>2
<1>4. ASSUME NEW n \in Nat, n \in Goes PROVE n + 1 \in Goes
  <2>1. SUFFICES ASSUME n + 1 <= N
                 PROVE  c[n + 1] <= d[n + 1] /\ (Behind(n + 1) => c[n + 1] < d[n + 1])
    OBVIOUS
  <2>2. n \in 0..(N - 1) /\ n \in 0..N /\ n + 1 \in 0..N /\ n <= N
    BY <2>1
  <2>3. c[n] <= d[n] /\ (Behind(n) => c[n] < d[n])
    BY <1>4, <2>2
  <2>4. Behind(n + 1) => Behind(n) \/ n \in cut
    <3>1. \A l \in 0..((n + 1) - 1) : l = n \/ l \in 0..(n - 1)
      OBVIOUS
    <3>2. QED
      BY <3>1
  <2> HIDE DEF Behind
  <2>5. PICK x \in Nat, y \in Nat, a \in Nat, b \in Nat :
          x = c[n] /\ y = d[n] /\ a = Len(p[n]) /\ b = Len(q[n])
    BY <2>2
  <2>6. c[n + 1] = x + a /\ d[n + 1] = y + b
    BY <1>1, <1>2, <2>2, <2>5 DEF IsLayout
  <2>7. x <= y /\ (Behind(n) => x < y)
    BY <2>3, <2>5
  <2>8. n \in cut => a < b
    BY <2>2, <2>5
  <2>9. n \notin cut => a = b
    BY <2>2, <2>5
  <2>10. x + a <= y + b /\ (Behind(n) \/ n \in cut => x + a < y + b)
    BY <2>7, <2>8, <2>9
  <2>11. QED
    BY <2>4, <2>6, <2>10
<1>5. N \in Goes
  <2> HIDE DEF Goes
  <2>1. QED
    BY <1>3, <1>4, SetInduction
<1>6. c[N] = d[N] /\ c[N] \in Nat
  BY <1>1, <1>2 DEF IsLayout
<1>7. ~Behind(N)
  BY <1>5, <1>6
<1>8. QED
  BY <1>7

LEMMA LaidOutSame ==
  ASSUME NEW r \in Nat, NEW p, NEW q, NEW s, \A n \in 0..(r - 1) : p[n] = q[n], LaidOut(p, r, s)
  PROVE  LaidOut(q, r, s)
<1>1. PICK c \in [0..r -> Nat] : IsLayout(p, c, r, s)
  BY DEF LaidOut
<1>2. IsLayout(q, c, r, s)
  BY <1>1 DEF IsLayout
<1>3. QED
  BY <1>2 DEF LaidOut

\* What the vector converter has written, in the words of this module.
LEMMA SecondResult ==
  ASSUME Running, vPc = "done", NEW N \in Nat, N = Len(utf16)
  PROVE  \E p \in [0..(N - 1) -> Seq(0..255)] : \E cut \in SUBSET (0..(N - 1)) :
           /\ LaidOut(p, N, vUtf8) /\ vUtf8 \in Seq(0..255)
           /\ \A n \in cut : Len(p[n]) = 1 /\ W(n) >= 128
           /\ \A n \in 0..(N - 1) : n \notin cut => p[n] = EncodeUnit(W(n))
           /\ Vector!NoneMisjudged <=> cut = {}
<1>1. PICK p \in [0..(N - 1) -> Seq(0..255)], cut \in SUBSET (0..(N - 1)) :
        VP!Outcome(p, cut) /\ (VP!NoneMisjudged <=> cut = {})
  <2>1. VP!Inv /\ VP!Layout
    BY DEF Running
  <2>2. \E p \in [0..(Len(utf16) - 1) -> Seq(0..255)] :
          \E cut \in SUBSET (0..(Len(utf16) - 1)) :
            VP!Outcome(p, cut) /\ (VP!NoneMisjudged <=> cut = {})
    BY <2>1, VP!OutcomeIs, VectorMayRun
  <2>3. QED
    BY <2>2
<1>2. \A n : VP!W(n) = W(n)
  BY DEF VP!W, VP!Host, VP!SwapBytes, W, Host, SwapBytes
<1>3. \A w : VP!EncodeUnit(w) = EncodeUnit(w)
  BY DEF VP!EncodeUnit, EncodeUnit
<1>4. VP!LaidOut(p, N, vUtf8) <=> LaidOut(p, N, vUtf8)
  BY DEF VP!LaidOut, VP!IsLayout, LaidOut, IsLayout
<1>5. vUtf8 \in Seq(0..255)
  BY DEF Running, VP!Inv, VP!TypeOK
<1>6. LaidOut(p, N, vUtf8)
  BY <1>1, <1>4 DEF VP!Outcome
<1>7. \A n \in cut : Len(p[n]) = 1 /\ W(n) >= 128
  BY <1>1, <1>2 DEF VP!Outcome
<1>8. \A n \in 0..(N - 1) : n \notin cut => p[n] = EncodeUnit(W(n))
  BY <1>1, <1>2, <1>3 DEF VP!Outcome
<1>9. Vector!NoneMisjudged <=> cut = {}
  BY <1>1, SameMisjudged
<1>10. QED
  BY <1>5, <1>6, <1>7, <1>8, <1>9
LEMMA NoHalfWritten ==
  ASSUME NEW N \in Nat, NEW p, NEW s, LaidOut(p, N, s), Followed(s), Len(s) \in Nat,
         NEW n \in 0..(N - 1), NEW w \in Unit, p[n] = EncodeUnit(w)
  PROVE  ~IsSurrogate(w)
<1>1. SUFFICES ASSUME IsSurrogate(w) PROVE FALSE
  OBVIOUS
<1>2. p[n][1] = 237 /\ p[n][2] >= 160 /\ Len(p[n]) = 3
  BY <1>1, UnitFollowed
<1>3. PICK c \in [0..N -> Nat] : IsLayout(p, c, N, s)
  BY DEF LaidOut
<1>4. n \in 0..N /\ n + 1 \in 0..N
  OBVIOUS
<1>5. PICK x \in Nat : x = c[n]
  BY <1>3, <1>4
<1>6. PICK u : u = p[n] /\ u[1] = 237 /\ Len(u) = 3 /\ u[2] \in Int /\ ~(u[2] < 160)
  <2>1. PICK v \in Seq(0..255) : v = p[n]
    BY EncodeUnitType
  <2>2. v[1] = 237 /\ v[2] >= 160 /\ Len(v) = 3
    BY <1>2, <2>1
  <2>3. 2 \in 1..Len(v)
    BY <2>2
  <2>4. v[2] \in 0..255
    BY <2>3, ElementOfSeq
  <2>5. v[2] \in Int
    BY <2>4, ByteIs
  <2>6. ~(v[2] < 160)
    BY <2>2, <2>5
  <2>7. QED
    BY <2>1, <2>2, <2>5, <2>6
<1>7. /\ c[n + 1] = c[n] + Len(u) /\ c[n + 1] <= Len(s)
      /\ \A k \in 1..Len(u) : s[c[n] + k] = u[k]
  BY <1>3, <1>6 DEF IsLayout
<1>8. x + 3 <= Len(s) /\ s[x + 1] = u[1] /\ s[x + 2] = u[2]
  <2>1. x + 3 <= Len(s)
    BY <1>5, <1>6, <1>7
  <2>2. 1 \in 1..3 /\ 2 \in 1..3
    OBVIOUS
  <2>3. \A k \in 1..3 : s[x + k] = u[k]
    BY <1>5, <1>6, <1>7
  <2>4. QED
    BY <2>1, <2>2, <2>3
<1>9. PICK y \in Nat : y = x + 1
  BY <1>5
<1>10. y \in 1..Len(s) /\ y + 1 = x + 2 /\ s[y] = 237
  BY <1>6, <1>8, <1>9
<1>11. s[y + 1] < 160
  BY <1>10 DEF Followed
<1>12. s[y + 1] = u[2]
  BY <1>8, <1>10
<1>13. QED
  BY <1>6, <1>11, <1>12

\* The text as main's string has it, in the machine's byte order.
LEMMA PlainText ==
  ASSUME TypeOK, le = TRUE, NEW N \in Nat, N = Len(utf16)
  PROVE  utf16 \in Seq(Plain) <=> \A n \in 0..(N - 1) : ~IsSurrogate(W(n))
<1>1. \A n \in 0..(N - 1) : W(n) = utf16[n + 1]
  BY DEF W, Host
<1>2. ASSUME utf16 \in Seq(Plain), NEW n \in 0..(N - 1) PROVE ~IsSurrogate(W(n))
  <2>1. n + 1 \in 1..N
    OBVIOUS
  <2>2. utf16[n + 1] \in Plain
    BY <1>2, <2>1, ElementOfSeq
  <2>3. QED
    BY <1>1, <2>2 DEF Plain
<1>3. ASSUME \A n \in 0..(N - 1) : ~IsSurrogate(W(n)) PROVE utf16 \in Seq(Plain)
  <2>1. ASSUME NEW n \in 1..N PROVE utf16[n] \in Plain
    <3>1. PICK k \in 0..(N - 1) : k + 1 = n
      <4>1. n - 1 \in 0..(N - 1) /\ (n - 1) + 1 = n
        OBVIOUS
      <4>2. QED
        BY <4>1
    <3>2. W(k) \in Unit /\ ~IsSurrogate(W(k)) /\ W(k) = utf16[n]
      BY <1>1, <1>3, <3>1, TextIs
    <3>3. QED
      BY <3>2 DEF Plain
  <2>2. utf16 = [n \in 1..N |-> utf16[n]]
    BY LenProperties DEF TypeOK
  <2>3. utf16 \in [1..N -> Plain]
    BY <2>1, <2>2
  <2>4. QED
    BY <2>3, SeqDef
<1>4. QED
  BY <1>2, <1>3

LEMMA AllBasic ==
  ASSUME drawn \in Seq(Nat)
  PROVE  drawn \in Seq(BasicPoints) <=> \A n \in DOMAIN drawn : drawn[n] < \h10000
<1> DEFINE Basic(x) == x < \h10000
<1>1. \A x \in Nat : x \in BasicPoints <=> Basic(x)
  BY DEF BasicPoints
<1> HIDE DEF Basic
<1>2. PICK N \in Nat : N = Len(drawn)
  BY LenProperties
<1>3. DOMAIN drawn = 1..N /\ drawn = [n \in 1..N |-> drawn[n]]
  BY <1>2, LenProperties
<1>4. \A n \in 1..N : drawn[n] \in Nat
  BY <1>2, ElementOfSeq
<1>5. ASSUME drawn \in Seq(BasicPoints), NEW n \in 1..N PROVE Basic(drawn[n])
  <2>1. drawn[n] \in BasicPoints
    BY <1>2, <1>5, ElementOfSeq
  <2>2. QED
    BY <1>1, <1>4, <2>1
<1>6. ASSUME \A n \in 1..N : Basic(drawn[n]) PROVE drawn \in Seq(BasicPoints)
  <2>1. drawn \in [1..N -> BasicPoints]
    BY <1>1, <1>3, <1>4, <1>6
  <2>2. QED
    BY <2>1, SeqDef
<1>7. drawn \in Seq(BasicPoints) <=> \A n \in DOMAIN drawn : Basic(drawn[n])
  BY <1>3, <1>5, <1>6
<1>8. QED
  BY <1>7 DEF Basic

\* The first result and the second, when all of the string is in both.
LEMMA BothDone ==
  ASSUME TypeOK, le = TRUE, Piled, Running, vPc = "done", i = Len(utf16)
  PROVE  vUtf8 = utf8 <=> Vector!NoneMisjudged /\ utf16 \in Seq(Plain)
<1>1. PICK N \in Nat : N = Len(utf16)
  BY LenProperties DEF TypeOK
<1>2. \E p \in [0..(N - 1) -> Seq(0..255)] : \E cut \in SUBSET (0..(N - 1)) :
        /\ LaidOut(p, N, vUtf8) /\ vUtf8 \in Seq(0..255)
        /\ \A n \in cut : Len(p[n]) = 1 /\ W(n) >= 128
        /\ \A n \in 0..(N - 1) : n \notin cut => p[n] = EncodeUnit(W(n))
        /\ Vector!NoneMisjudged <=> cut = {}
  BY <1>1, SecondResult
<1>3. PICK p \in [0..(N - 1) -> Seq(0..255)], cut \in SUBSET (0..(N - 1)) :
        /\ LaidOut(p, N, vUtf8) /\ vUtf8 \in Seq(0..255)
        /\ \A n \in cut : Len(p[n]) = 1 /\ W(n) >= 128
        /\ \A n \in 0..(N - 1) : n \notin cut => p[n] = EncodeUnit(W(n))
        /\ Vector!NoneMisjudged <=> cut = {}
  BY <1>2
<1>4. utf16 \in Seq(Plain) <=> \A n \in 0..(N - 1) : ~IsSurrogate(W(n))
  BY <1>1, PlainText
<1>5. PICK q : q = UnitBytes
  OBVIOUS
<1>6. LaidOut(q, N, utf8) /\ Followed(utf8) /\ utf8 \in Seq(0..255)
  BY <1>1, <1>5 DEF Piled, TypeOK
<1>7. ASSUME NEW n \in 0..(N - 1)
      PROVE  /\ q[n] \in Seq(0..255) /\ W(n) \in Unit
             /\ ~IsSurrogate(W(n)) => q[n] = EncodeUnit(W(n))
             /\ W(n) >= 128 => Len(q[n]) >= 2
  BY <1>1, <1>5, <1>7, UnitBytesIs, TextIs
<1>8. ASSUME vUtf8 = utf8 PROVE cut = {} /\ utf16 \in Seq(Plain)
  <2>1. LaidOut(p, N, utf8)
    BY <1>3, <1>8
  <2>2. ASSUME NEW n \in 0..(N - 1), n \notin cut PROVE ~IsSurrogate(W(n))
    <3>1. p[n] = EncodeUnit(W(n))
      BY <1>3, <2>2
    <3>2. W(n) \in Unit
      BY <1>7
    <3>3. Len(utf8) \in Nat
      BY <1>6, LenProperties
    <3>4. QED
      BY <1>6, <2>1, <3>1, <3>2, <3>3, NoHalfWritten
  <2>3. ASSUME NEW n \in 0..(N - 1)
        PROVE  /\ Len(p[n]) \in Nat /\ Len(q[n]) \in Nat
               /\ n \in cut => Len(p[n]) < Len(q[n])
               /\ n \notin cut => Len(p[n]) = Len(q[n])
    <3>1. Len(p[n]) \in Nat /\ Len(q[n]) \in Nat
      BY <1>7, LenProperties
    <3>2. ASSUME n \in cut PROVE Len(p[n]) < Len(q[n])
      <4>1. Len(p[n]) = 1 /\ W(n) >= 128
        BY <1>3, <3>2
      <4>2. Len(q[n]) >= 2
        BY <1>7, <4>1
      <4>3. QED
        BY <3>1, <4>1, <4>2
    <3>3. ASSUME n \notin cut PROVE Len(p[n]) = Len(q[n])
      BY <1>3, <1>7, <2>2, <3>3
    <3>4. QED
      BY <3>1, <3>2, <3>3
  <2>4. ShorterIn(cut, p, q, N)
    BY <2>3 DEF ShorterIn
  <2>5. \A n \in 0..(N - 1) : n \notin cut
    BY <1>1, <1>6, <2>1, <2>4, NoneShorter
  <2>6. QED
    BY <1>4, <2>2, <2>5
<1>9. ASSUME cut = {}, utf16 \in Seq(Plain) PROVE vUtf8 = utf8
  <2>1. \A n \in 0..(N - 1) : p[n] = q[n]
    BY <1>3, <1>4, <1>7, <1>9
  <2>2. LaidOut(q, N, vUtf8)
    BY <1>3, <2>1, LaidOutSame
  <2>3. \A n \in 0..(N - 1) : q[n] \in Seq(0..255)
    BY <1>7
  <2>4. QED
    BY <1>3, <1>6, <2>2, <2>3, LaidOutOnce
<1>10. QED
  BY <1>3, <1>8, <1>9

\* When main's two conversions are done their results agree exactly if no block
\* was misjudged and nothing beyond the basic plane was drawn: a surrogate that
\* the vector converter writes on its own, and a unit that it cuts to a byte,
\* are in no result of the scalar converter, and neither makes up for another.
THEOREM BothConversionsAgree == BenchmarkSpec => []ConversionsAgree
<1>1. Waiting /\ Paired /\ Drawn /\ TextSurvives /\ Piled /\ Mirrored /\ SecondConversion
        /\ OnlyMain => ConversionsAgree
  <2> SUFFICES ASSUME Waiting, Paired, Drawn, TextSurvives, Piled, Mirrored, SecondConversion,
                      OnlyMain, vPc = "done"
               PROVE  vUtf8 = utf8 <=>
                        (Vector!NoneMisjudged /\ \A n \in DOMAIN drawn : drawn[n] < \h10000)
    BY DEF ConversionsAgree
  <2>1. Running /\ ByMain
    BY DEF Main, SecondConversion, OnlyMain
  <2>2. pc \notin {"generate", "loop"}
    BY DEF SecondConversion, Fresh
  <2>3. drawn # <<>> /\ le = TRUE
    BY <2>1, <2>2 DEF Drawn
  <2>4. pc = "done"
    <3>1. pc # "thrown"
      BY <2>3 DEF TextSurvives
    <3>2. pc \in {"generate", "loop", "done", "thrown"}
      BY DEF Waiting, TypeOK
    <3>3. QED
      BY <2>2, <3>1, <3>2
  <2>5. TypeOK /\ i = Len(utf16)
    BY <2>4 DEF Paired
  <2>6. vUtf8 = utf8 <=> Vector!NoneMisjudged /\ utf16 \in Seq(Plain)
    BY <2>1, <2>3, <2>5, BothDone
  <2>7. utf16 \in Seq(Plain) <=> drawn \in Seq(BasicPoints)
    BY <2>1 DEF Mirrored
  <2>8. drawn \in Seq(BasicPoints) <=> \A n \in DOMAIN drawn : drawn[n] < \h10000
    BY AllBasic, DrawnIs DEF Waiting
  <2>9. QED
    BY <2>6, <2>7, <2>8
<1>2. QED
  BY <1>1, WaitingHolds, PairedInBenchmark, DrawnHolds, DrawnTextSurvives, PiledHolds,
     MirroredHolds, SecondHolds, OnlyMainHolds, PTL
=============================================================================
