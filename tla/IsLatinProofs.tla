---------------------------- MODULE IsLatinProofs ----------------------------
(***************************************************************************)
(* What TLAPS proves about IsLatin, for all strings and vector lengths:    *)
(* every function of every build decides whether the string is Latin, also *)
(* when LatinBenchmark's main calls one after the other on what it drew.   *)
(***************************************************************************)
EXTENDS LatinBenchmark, SequenceTheorems, TLAPS

\* The loop invariant: everything before i has been found Latin.
Inv ==
  /\ TypeOK
  /\ pc \in {"chunks", "bytes"} => \A n \in 0..(i - 1) : Unsigned(n) < 128
  /\ SameAnswer

\* A byte is below 128 if and only if its high bit is clear.
LEMMA HighBitMeans == \A b \in Byte : HighBit(b) <=> b >= 128
  BY DEF Byte, HighBit

LEMMA StringType ==
  ASSUME TypeOK
  PROVE  len \in Nat /\ \A n \in 0..(len - 1) : Unsigned(n) \in Byte
<1>1. str \in Seq(Byte)
  BY StringsAssumption DEF TypeOK
<1>2. len \in Nat /\ str \in [1..len -> Byte]
  BY <1>1, LenProperties DEF len
<1>3. QED
  BY <1>2 DEF Unsigned

LEMMA ChunksAreInside ==
  ASSUME TypeOK, NEW n \in Chunks
  PROVE  n \in Nat /\ i + n <= len
<1>1. len \in Nat /\ i \in 0..len
  BY StringType DEF TypeOK
<1>2. CASE kernel = "RISCV"
  BY <1>1, <1>2, LanesAssumption DEF Chunks, VectorLengths
<1>3. CASE kernel # "RISCV"
  BY <1>1, <1>3, LanesAssumption DEF Chunks, Lanes
<1>4. QED
  BY <1>2, <1>3

LEMMA InvStep == Inv /\ [Next]_vars => Inv'
<1> SUFFICES ASSUME Inv, [Next]_vars PROVE Inv'
  OBVIOUS
<1>1. TypeOK /\ len \in Nat /\ i \in 0..len /\ \A n \in 0..(len - 1) : Unsigned(n) \in Byte
  BY StringType DEF Inv, TypeOK
<1>2. ASSUME TestChunk PROVE Inv'
  <2>1. PICK n \in Chunks :
          \/ AnyHighBit(n) /\ ReturnFalse
          \/ ~AnyHighBit(n) /\ i' = Advance(n) /\ UNCHANGED <<pc, result>>
    BY <1>2 DEF TestChunk
  <2>2. n \in Nat /\ i + n <= len
    BY <1>1, ChunksAreInside
  <2>3. UNCHANGED <<str, kernel>> /\ pc = "chunks"
    BY <1>2 DEF TestChunk
  <2>4. CASE AnyHighBit(n) /\ ReturnFalse
    <3>1. PICK j \in i..(i + n - 1) : HighBit(Unsigned(j))
      BY <2>4 DEF AnyHighBit
    <3>2. j \in 0..(len - 1) /\ Unsigned(j) >= 128
      BY <1>1, <2>2, <3>1, HighBitMeans
    <3>3. ~Latin
      BY <1>1, <3>2 DEF Latin, Byte
    <3>4. QED
      BY <1>1, <2>3, <2>4, <3>3
         DEF ReturnFalse, Inv, TypeOK, SameAnswer, Latin, len, Unsigned
  <2>5. CASE ~AnyHighBit(n) /\ i' = i + n /\ UNCHANGED <<pc, result>>
    <3>1. \A j \in i..(i + n - 1) : Unsigned(j) < 128
      <4>1. SUFFICES ASSUME NEW j \in i..(i + n - 1) PROVE Unsigned(j) < 128
        OBVIOUS
      <4>2. Unsigned(j) \in Byte
        BY <1>1, <2>2
      <4>3. ~HighBit(Unsigned(j))
        BY <2>5 DEF AnyHighBit
      <4>4. QED
        BY <4>2, <4>3, HighBitMeans DEF Byte
    <3>2. \A j \in 0..(i + n - 1) : Unsigned(j) < 128
      BY <1>1, <2>2, <2>3, <3>1 DEF Inv
    <3>3. QED
      BY <1>1, <2>2, <2>3, <2>5, <3>2 DEF Inv, TypeOK, SameAnswer, len, Unsigned
  <2>6. QED
    BY <2>1, <2>4, <2>5 DEF Advance
<1>3. ASSUME LeaveChunks PROVE Inv'
  BY <1>1, <1>3 DEF LeaveChunks, Inv, TypeOK, SameAnswer, Latin, len, Unsigned
<1>4. ASSUME TestByte PROVE Inv'
  <2>1. UNCHANGED <<str, kernel>> /\ pc = "bytes" /\ i \in 0..(len - 1)
    BY <1>1, <1>4 DEF TestByte
  <2>2. CASE Unsigned(i) >= 128 /\ ReturnFalse
    <3>1. ~Latin
      BY <1>1, <2>1, <2>2 DEF Latin, Byte
    <3>2. QED
      BY <1>1, <2>1, <2>2, <3>1
         DEF ReturnFalse, Inv, TypeOK, SameAnswer, Latin, len, Unsigned
  <2>3. CASE Unsigned(i) < 128 /\ i' = i + 1 /\ UNCHANGED <<pc, result>>
    <3>1. \A j \in 0..((i + 1) - 1) : Unsigned(j) < 128
      BY <1>1, <2>1, <2>3 DEF Inv
    <3>2. QED
      BY <1>1, <2>1, <2>3, <3>1 DEF Inv, TypeOK, SameAnswer, len, Unsigned
  <2>4. QED
    BY <1>4, <2>2, <2>3 DEF TestByte
<1>5. ASSUME ReturnTrue PROVE Inv'
  <2>1. UNCHANGED <<str, kernel, i>> /\ pc = "bytes" /\ i = len
    BY <1>1, <1>5 DEF ReturnTrue
  <2>2. Latin
    BY <1>1, <2>1 DEF Latin, Inv
  <2>3. QED
    BY <1>1, <1>5, <2>1, <2>2 DEF ReturnTrue, Inv, TypeOK, SameAnswer, Latin, len, Unsigned
<1>6. CASE UNCHANGED vars
  BY <1>6 DEF vars, Inv, TypeOK, SameAnswer, Latin, len, Unsigned
<1>7. QED
  BY <1>2, <1>3, <1>4, <1>5, <1>6 DEF Next

LEMMA InvAtFirst == Init => Inv
<1> SUFFICES ASSUME Init PROVE Inv
  OBVIOUS
<1>1. len \in Nat
  BY StringsAssumption, LenProperties DEF Init, len
<1>2. str \in Seq(Byte)
  BY StringsAssumption DEF Init
<1>3. kernel \in Functions
  BY DEF Init, Selected, Functions, Builds
<1>4. pc \in {"bytes", "chunks"} /\ i = 0 /\ result = TRUE
  BY DEF Init, Entry
<1>5. TypeOK
  BY <1>1, <1>2, <1>3, <1>4 DEF TypeOK
<1>6. \A n \in 0..(i - 1) : Unsigned(n) < 128
  <2>1. 0..(i - 1) = {}
    BY <1>4
  <2>2. QED
    BY <2>1
<1>7. SameAnswer
  BY <1>4 DEF SameAnswer
<1>8. QED
  BY <1>5, <1>6, <1>7 DEF Inv

LEMMA InvHolds == Spec => []Inv
BY InvAtFirst, InvStep, PTL DEF Spec

\* No function reads past the end of the string: the index stays within it.
THEOREM Typing == Spec => []TypeOK
<1>1. Inv => TypeOK
  BY DEF Inv
<1>2. QED
  BY <1>1, InvHolds, PTL

\* Every function of every build answers what the baseline's test answers,
\* whatever the lengths of string and vectors.
THEOREM EveryKernelAgrees == Spec => []SameAnswer
<1>1. Inv => SameAnswer
  BY DEF Inv
<1>2. QED
  BY <1>1, InvHolds, PTL

-----------------------------------------------------------------------------
(* The benchmark.                                                          *)

\* What main draws is text.
OnlyText == caller = "main" => IsText(str)

\* Main has printed results, and what it draws is text.
MainInv == Inv /\ printed \in Seq(BOOLEAN) /\ OnlyText

\* A character drawn makes the string longer by a byte that is not NUL.
LEMMA DrawnByte ==
  ASSUME MainInv, GenerateByte
  PROVE  MainInv'
<1>1. TypeOK /\ len \in Nat /\ i \in 0..len /\ str \in Seq(Byte) /\ Len(str) \in Nat
  BY StringType DEF MainInv, Inv, TypeOK
<1>2. PICK d \in Draws : str' = Append(str, Charset[d + 1])
  BY DEF GenerateByte
<1>3. d + 1 \in 1..Len(Charset) /\ d + 1 # Len(Charset)
  BY <1>2, CharsetAssumption DEF Draws
<1>4. Charset[d + 1] \in Byte /\ Charset[d + 1] # 0
  BY <1>3, CharsetAssumption
<1>5. /\ str' \in Seq(Byte) /\ Len(str') = Len(str) + 1
      /\ \A n \in 1..Len(str') : str'[n] = IF n <= Len(str) THEN str[n] ELSE Charset[d + 1]
  BY <1>1, <1>2, <1>4
<1>6. pc = "main" /\ pc' = "main" /\ UNCHANGED <<kernel, i, result, caller, printed>>
  BY DEF GenerateByte
<1>7. i' \in 0..len'
  BY <1>1, <1>5, <1>6 DEF len
<1>8. Inv'
  BY <1>1, <1>5, <1>6, <1>7 DEF Inv, TypeOK, SameAnswer
<1>9. OnlyText'
  <2>1. SUFFICES ASSUME caller = "main", NEW n \in 1..Len(str') PROVE str'[n] # 0
    BY <1>6 DEF OnlyText, IsText
  <2>2. n <= Len(str) => n \in 1..Len(str)
    BY <1>1, <1>5
  <2>3. QED
    BY <1>4, <1>5, <2>1, <2>2 DEF OnlyText, IsText, MainInv
<1>10. QED
  BY <1>6, <1>8, <1>9 DEF MainInv

\* Main calls functions that exist, from their beginning, on the same string.
LEMMA FunctionCalled ==
  ASSUME MainInv, Call
  PROVE  MainInv'
<1>1. TypeOK /\ len \in Nat /\ str \in Seq(Byte) /\ Len(printed) \in Nat
  BY StringType DEF MainInv, Inv, TypeOK
<1>2. Len(Called) = 3 /\ Called[1] = "Baseline" /\ Called[2] = "SSE2" /\ Called[3] = "AVX2"
  BY DEF Called
<1>3. kernel' = Called[Len(printed) + 1] /\ Len(printed) + 1 \in 1..3
  BY <1>1, <1>2 DEF Call
<1>4. kernel' \in Functions
  BY <1>2, <1>3 DEF Functions
<1>5. /\ i' = 0 /\ pc' \in {"chunks", "bytes"}
      /\ UNCHANGED <<str, result, caller, printed>>
  BY DEF Call, Entry
<1>6. 0..(i' - 1) = {}
  BY <1>5
<1>7. i' \in 0..len'
  BY <1>1, <1>5 DEF len
<1>8. Inv'
  BY <1>1, <1>4, <1>5, <1>6, <1>7 DEF Inv, TypeOK, SameAnswer
<1>9. QED
  BY <1>5, <1>8 DEF MainInv, OnlyText

LEMMA MainInvHolds == BenchmarkSpec => []MainInv
<1>1. BenchmarkInit => MainInv
  <2>1. ASSUME StartMain, printed = <<>> PROVE MainInv
    <3>1. str = <<>> /\ Len(str) = 0 /\ str \in Seq(Byte) /\ i = 0
      BY <2>1 DEF StartMain
    <3>2. Inv
      BY <2>1, <3>1 DEF StartMain, Inv, TypeOK, SameAnswer, Functions, len
    <3>3. QED
      BY <2>1, <3>1, <3>2 DEF MainInv, OnlyText, IsText
  <2>2. ASSUME Init, caller = "other", printed = <<>> PROVE MainInv
    BY <2>2, InvAtFirst DEF MainInv, OnlyText
  <2>3. QED
    BY <2>1, <2>2 DEF BenchmarkInit
<1>2. MainInv /\ [BenchmarkNext]_allVars => MainInv'
  <2>1. ASSUME MainInv, PrintResult PROVE MainInv'
    <3>1. printed' \in Seq(BOOLEAN)
      BY <2>1 DEF PrintResult, MainInv, Inv, TypeOK
    <3>2. Inv'
      BY <2>1 DEF PrintResult, MainInv, Inv, TypeOK, SameAnswer, len
    <3>3. QED
      BY <2>1, <3>1, <3>2 DEF PrintResult, MainInv, OnlyText
  <2>2. ASSUME MainInv, Next, UNCHANGED <<caller, printed>> PROVE MainInv'
    <3>1. Inv'
      BY <2>2, InvStep DEF MainInv
    <3>2. UNCHANGED str
      BY <2>2 DEF Next, TestChunk, LeaveChunks, TestByte, ReturnTrue
    <3>3. QED
      BY <2>2, <3>1, <3>2 DEF MainInv, OnlyText
  <2>3. ASSUME MainInv, UNCHANGED allVars PROVE MainInv'
    <3>1. Inv'
      BY <2>3, InvStep DEF MainInv, allVars
    <3>2. QED
      BY <2>3, <3>1 DEF MainInv, OnlyText, allVars, vars
  <2>4. QED
    BY <2>1, <2>2, <2>3, DrawnByte, FunctionCalled DEF BenchmarkNext
<1>3. QED
  BY <1>1, <1>2, PTL DEF BenchmarkSpec

\* Also where main calls one function after the other, each from its
\* beginning, every function answers what the baseline's test answers.
THEOREM EveryKernelAgreesInMain == BenchmarkSpec => []SameAnswer
<1>1. MainInv => SameAnswer
  BY DEF MainInv, Inv
<1>2. QED
  BY <1>1, MainInvHolds, PTL

\* Whatever the random numbers, main measures the functions on text: the NUL
\* that ends the charset is never drawn.
THEOREM OnlyTextIsMeasured == BenchmarkSpec => []OnlyText
<1>1. MainInv => OnlyText
  BY DEF MainInv
<1>2. QED
  BY <1>1, MainInvHolds, PTL
=============================================================================
