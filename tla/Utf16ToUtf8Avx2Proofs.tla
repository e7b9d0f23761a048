------------------------ MODULE Utf16ToUtf8Avx2Proofs ------------------------
(***************************************************************************)
(* What TLAPS proves about Utf16ToUtf8Avx2, for every string, number of    *)
(* lanes and buffer of three bytes a lane: the buffer does not overflow,   *)
(* text that is converted alike is converted unit by unit as the scalar    *)
(* converter does, and the units come back from the bytes exactly if no    *)
(* block is misjudged.                                                     *)
(***************************************************************************)
EXTENDS Utf16ToUtf8Avx2, Utf16Proofs

\* How much of the buffer is used: three bytes a lane at most in a block, and
\* in the tail three bytes for each unit since some point from which fewer
\* than Lanes units are left.
Used ==
  /\ pc = "blocks" => buffer = <<>> /\ j = 0
  /\ pc = "lanes" => Len(buffer) <= 3 * j /\ i + Lanes <= Len(utf16)
  /\ pc \in {"tail", "done"} =>
       \E m \in 0..i : Len(buffer) <= 3 * (i - m) /\ m + Lanes > Len(utf16)

Inv == TypeOK /\ Used

LEMMA UnitType ==
  ASSUME TypeOK, NEW n \in 0..(Len(utf16) - 1)
  PROVE  W(n) \in Unit
<1>1. utf16 \in Seq(Unit) /\ le \in BOOLEAN
  BY DEF TypeOK
<1>2. utf16[n + 1] \in Unit
  BY <1>1, ElementOfSeq, LenProperties
<1>3. QED
  BY <1>1, <1>2, HostType DEF W

LEMMA LaneBytesType ==
  ASSUME NEW w \in Unit
  PROVE  LaneBytes(w) \in Seq(0..255) /\ Len(LaneBytes(w)) \in 1..3
<1>1. CASE ascii
  <2>1. w % 256 \in 0..255
    BY UnitIs
  <2>2. QED
    BY <1>1, <2>1 DEF LaneBytes
<1>2. CASE ~ascii
  BY <1>2, EncodeUnitType DEF LaneBytes
<1>3. QED
  BY <1>1, <1>2

LEMMA InvStep == Inv /\ [Next]_vars => Inv'
<1> USE BufferAssumption
<1> SUFFICES ASSUME Inv, [Next]_vars PROVE Inv'
  OBVIOUS
<1>1. TypeOK /\ Used /\ Len(utf16) \in Nat /\ Len(buffer) \in Nat
  BY LenProperties DEF Inv, TypeOK
<1>2. ASSUME CompareBlock PROVE Inv'
  <2>1. LooksAscii(i) \in BOOLEAN
    BY DEF LooksAscii
  <2>2. Len(<<>>) = 0
    OBVIOUS
  <2>3. QED
    BY <1>1, <1>2, <2>1, <2>2 DEF CompareBlock, Inv, TypeOK, Used
<1>3. ASSUME WriteLane PROVE Inv'
  <2>1. W(i + j) \in Unit
    BY <1>1, <1>3, UnitType DEF WriteLane, Used, TypeOK
  <2> DEFINE t == LaneBytes(W(i + j))
  <2>2. t \in Seq(0..255) /\ Len(t) \in 1..3
    BY <2>1, LaneBytesType
  <2>3. buffer' = buffer \o t /\ j' = j + 1 /\ UNCHANGED <<utf16, le, i, utf8, pc, ascii>>
    BY <1>3 DEF WriteLane
  <2> HIDE DEF t
  <2>4. buffer' \in Seq(0..255) /\ Len(buffer') = Len(buffer) + Len(t)
    BY <1>1, <2>2, <2>3, ConcatProperties DEF TypeOK
  <2>5. TypeOK'
    BY <1>1, <1>3, <2>3, <2>4 DEF WriteLane, TypeOK
  <2>6. Used'
    <3>1. Len(buffer) <= 3 * j /\ pc = "lanes" /\ j \in Nat /\ i + Lanes <= Len(utf16)
      BY <1>1, <1>3 DEF WriteLane, TypeOK, Used
    <3>2. Len(buffer') <= 3 * (j + 1)
      <4>1. \A a, b \in Nat, d \in 1..3 : a <= 3 * b => a + d <= 3 * (b + 1)
        OBVIOUS
      <4>2. Len(buffer) + Len(t) <= 3 * (j + 1)
        BY <1>1, <2>2, <3>1, <4>1
      <4>3. QED
        BY <2>4, <4>2
    <3>3. QED
      BY <2>3, <3>1, <3>2 DEF Used
  <2>7. QED
    BY <2>5, <2>6 DEF Inv
<1>4. ASSUME AppendBlock PROVE Inv'
  <2>1. utf8' \in Seq(0..255)
    BY <1>1, <1>4, ConcatProperties DEF AppendBlock, NextBlock, TypeOK
  <2>2. QED
    BY <1>1, <1>4, <2>1 DEF AppendBlock, NextBlock, Reset, Inv, TypeOK, Used
<1>5. ASSUME LeaveBlocks PROVE Inv'
  <2>1. Len(buffer) = 0 /\ UNCHANGED <<utf16, le, i, utf8, j, ascii, buffer>> /\ pc' = "tail"
    BY <1>1, <1>5 DEF LeaveBlocks, Used
  <2>2. TypeOK'
    BY <1>1, <2>1 DEF TypeOK
  <2>3. i \in 0..i /\ Len(buffer) <= 3 * (i - i) /\ i + Lanes > Len(utf16)
    BY <1>1, <1>5, <2>1 DEF LeaveBlocks, TypeOK
  <2>4. QED
    BY <2>1, <2>2, <2>3 DEF Inv, Used
<1>6. ASSUME WriteTailUnit PROVE Inv'
  <2>1. W(i) \in Unit
    BY <1>1, <1>6, UnitType DEF WriteTailUnit, TypeOK
  <2> DEFINE t == EncodeUnit(W(i))
  <2>2. t \in Seq(0..255) /\ Len(t) \in 1..3
    BY <2>1, EncodeUnitType
  <2>3. buffer' = buffer \o t /\ i' = i + 1 /\ UNCHANGED <<utf16, le, utf8, pc, j, ascii>>
    BY <1>6 DEF WriteTailUnit
  <2> HIDE DEF t
  <2>4. buffer' \in Seq(0..255) /\ Len(buffer') = Len(buffer) + Len(t)
    BY <1>1, <2>2, <2>3, ConcatProperties DEF TypeOK
  <2>5. TypeOK'
    BY <1>1, <1>6, <2>3, <2>4 DEF WriteTailUnit, TypeOK
  <2>6. PICK m \in 0..i : Len(buffer) <= 3 * (i - m) /\ m + Lanes > Len(utf16)
    BY <1>1, <1>6 DEF WriteTailUnit, Used
  <2>7. m \in 0..i' /\ Len(buffer') <= 3 * (i' - m) /\ m + Lanes > Len(utf16')
    <3>1. i \in Nat /\ i' = i + 1 /\ utf16' = utf16
      BY <1>1, <2>3 DEF TypeOK
    <3>2. Len(buffer) + Len(t) <= 3 * (i - m) + 3
      <4>1. \A a, b, c \in Int, d \in 1..3 : a <= 3 * (b - c) => a + d <= 3 * (b - c) + 3
        OBVIOUS
      <4>2. m \in Int /\ i \in Int /\ Len(buffer) \in Int
        BY <1>1, <3>1
      <4>3. QED
        BY <2>2, <2>6, <4>1, <4>2
    <3>3. QED
      BY <2>4, <2>6, <3>1, <3>2
  <2>8. QED
    BY <1>6, <2>3, <2>5, <2>7 DEF WriteTailUnit, Inv, Used
<1>7. ASSUME Return PROVE Inv'
  <2>1. utf8' \in Seq(0..255)
    BY <1>1, <1>7, ConcatProperties DEF Return, TypeOK
  <2>2. QED
    BY <1>1, <1>7, <2>1 DEF Return, Inv, TypeOK, Used
<1>8. CASE UNCHANGED vars
  BY <1>1, <1>8 DEF vars, Inv, TypeOK, Used
<1>9. QED
  BY <1>2, <1>3, <1>4, <1>5, <1>6, <1>7, <1>8 DEF Next

LEMMA InvHolds == Spec => []Inv
<1>1. Init => Inv
  <2> SUFFICES ASSUME Init PROVE Inv
    OBVIOUS
  <2>1. utf16 \in Seq(Unit) /\ Len(utf16) \in Nat
    BY StringsAssumption, LenProperties DEF Init
  <2>2. QED
    <3>1. <<>> \in Seq(0..255)
      OBVIOUS
    <3>2. TypeOK
      <4>1. le \in BOOLEAN /\ ascii \in BOOLEAN
        BY DEF Init
      <4>2. i \in 0..Len(utf16) /\ j \in 0..Lanes
        BY <2>1, BufferAssumption DEF Init
      <4>3. QED
        BY <2>1, <3>1, <4>1, <4>2 DEF Init, TypeOK
    <3>3. Used
      BY DEF Init, Used
    <3>4. QED
      BY <3>2, <3>3 DEF Inv
<1>2. QED
  BY <1>1, InvStep, PTL DEF Spec

\* The loops read no unit outside the string and fill no lane beyond the last,
\* and every byte written is a byte.
THEOREM Typing == Spec => []TypeOK
<1>1. Inv => TypeOK
  BY DEF Inv
<1>2. QED
  BY <1>1, InvHolds, PTL

\* No write to the buffer on the stack goes past its end, for every string,
\* byte order and number of lanes, if it has three bytes a lane.
THEOREM BufferNeverOverflows == Spec => []BufferFits
<1>1. Inv => BufferFits
  <2> SUFFICES ASSUME Inv PROVE BufferFits
    OBVIOUS
  <2>1. Len(utf16) \in Nat /\ Len(buffer) \in Nat /\ i \in 0..Len(utf16) /\ j \in 0..Lanes
    BY LenProperties DEF Inv, TypeOK
  <2>2. Len(buffer) <= 3 * Lanes
    <3>1. CASE pc = "blocks"
      BY <3>1, BufferAssumption DEF Inv, Used
    <3>2. CASE pc = "lanes"
      BY <2>1, <3>2, BufferAssumption DEF Inv, Used
    <3>3. CASE pc \in {"tail", "done"}
      BY <2>1, <3>3, BufferAssumption DEF Inv, Used
    <3>4. QED
      BY <3>1, <3>2, <3>3 DEF Inv, TypeOK
  <2>3. QED
    BY <2>1, <2>2, BufferAssumption DEF BufferFits
<1>2. QED
  BY <1>1, InvHolds, PTL

-----------------------------------------------------------------------------
(* The vector converter implements the scalar one.                         *)

\* What the scalar converter has read and written, and where it is.
ReadBar == IF Differs THEN 0 ELSE IF pc = "lanes" THEN i + j ELSE i
WrittenBar ==
  IF Differs THEN <<>> ELSE IF pc = "done" THEN utf8 ELSE utf8 \o buffer
PcBar == IF pc = "done" /\ ~Differs THEN "done" ELSE "loop"

\* The scalar converter's state and the two of its steps that are taken.
LEMMA ScalarIs ==
  /\ Scalar!Init <=> /\ utf16 \in Strings /\ le \in BOOLEAN
                     /\ ReadBar = 0 /\ WrittenBar = <<>> /\ PcBar = "loop"
  /\ Scalar!PushUnit <=>
       /\ PcBar = "loop" /\ ReadBar < Len(utf16) /\ ~IsSurrogate(W(ReadBar))
       /\ WrittenBar' = WrittenBar \o EncodeUnit(W(ReadBar)) /\ ReadBar' = ReadBar + 1
       /\ UNCHANGED <<utf16, le, PcBar>>
  /\ Scalar!Return <=>
       /\ PcBar = "loop" /\ ReadBar >= Len(utf16)
       /\ PcBar' = "done" /\ UNCHANGED <<utf16, le, ReadBar, WrittenBar>>
<1>1. Scalar!Init <=> /\ utf16 \in Strings /\ le \in BOOLEAN
                      /\ ReadBar = 0 /\ WrittenBar = <<>> /\ PcBar = "loop"
  BY DEF Scalar!Init, ReadBar, WrittenBar, PcBar
<1>2. Scalar!w1 = W(ReadBar)
  BY DEF Scalar!w1, Scalar!W, Scalar!Host, Scalar!SwapBytes, W, Host, SwapBytes, ReadBar
<1>3. \A w : Scalar!EncodeUnit(w) = EncodeUnit(w)
  BY DEF Scalar!EncodeUnit, EncodeUnit
<1>4. \A w : Scalar!IsSurrogate(w) <=> IsSurrogate(w)
  BY DEF Scalar!IsSurrogate, Scalar!IsHigh, Scalar!IsLow, IsSurrogate, IsHigh, IsLow
<1>5. Scalar!Looping <=> PcBar = "loop" /\ ReadBar < Len(utf16)
  BY DEF Scalar!Looping, PcBar, ReadBar
<1>6. Scalar!PushUnit <=>
       /\ Scalar!Looping /\ ~Scalar!IsSurrogate(Scalar!w1)
       /\ WrittenBar' = WrittenBar \o Scalar!EncodeUnit(Scalar!w1) /\ ReadBar' = ReadBar + 1
       /\ UNCHANGED <<utf16, le, PcBar>>
  BY DEF Scalar!PushUnit, ReadBar, WrittenBar, PcBar
<1>7. Scalar!Return <=>
       /\ PcBar = "loop" /\ ReadBar >= Len(utf16)
       /\ PcBar' = "done" /\ UNCHANGED <<utf16, le, ReadBar, WrittenBar>>
  BY DEF Scalar!Return, ReadBar, WrittenBar, PcBar
<1>8. QED
  BY <1>1, <1>2, <1>3, <1>4, <1>5, <1>6, <1>7

LEMMA Unmoved ==
  /\ utf16' = utf16 /\ le' = le
  /\ ReadBar' = ReadBar /\ WrittenBar' = WrittenBar /\ PcBar' = PcBar
  => UNCHANGED Scalar!vars
BY DEF Scalar!vars, ReadBar, WrittenBar, PcBar

\* Blocks are read one behind the other, and the open one was looked at.
Blocks ==
  /\ pc \in {"blocks", "lanes"} => \E b \in Nat : i = Lanes * b
  /\ pc = "lanes" => ascii = LooksAscii(i)

LEMMA BlocksStep == Inv /\ Blocks /\ [Next]_vars => Blocks'
<1> USE BufferAssumption
<1> SUFFICES ASSUME Inv, Blocks, [Next]_vars PROVE Blocks'
  OBVIOUS
<1>1. LooksAscii(i)' = LooksAscii(i) \/ i' # i
  BY DEF LooksAscii, W, Next, CompareBlock, WriteLane, AppendBlock, LeaveBlocks,
         WriteTailUnit, Return, vars
<1>2. CASE CompareBlock
  BY <1>1, <1>2 DEF CompareBlock, Blocks
<1>3. CASE WriteLane
  BY <1>1, <1>3 DEF WriteLane, Blocks
<1>4. CASE AppendBlock
  <2>1. PICK b \in Nat : i = Lanes * b
    BY <1>4 DEF AppendBlock, Blocks
  <2>2. Lanes * b + Lanes = Lanes * (b + 1) /\ b + 1 \in Nat
    OBVIOUS
  <2>3. i' = Lanes * (b + 1) /\ pc' = "blocks"
    BY <1>4, <2>1, <2>2 DEF AppendBlock, NextBlock
  <2>4. QED
    BY <2>2, <2>3 DEF Blocks
<1>5. CASE LeaveBlocks \/ WriteTailUnit \/ Return
  BY <1>5 DEF LeaveBlocks, WriteTailUnit, Return, Blocks
<1>6. CASE UNCHANGED vars
  BY <1>1, <1>6 DEF vars, Blocks
<1>7. QED
  BY <1>2, <1>3, <1>4, <1>5, <1>6 DEF Next

\* The units the comparison finds not to be ASCII.
Recognized == \h81..\h7FFF

\* A lane of a block that was judged right is written as the scalar converter
\* writes it.
LEMMA LaneIsUnit ==
  ASSUME Inv, Blocks, pc = "lanes", j < Lanes, ~Differs
  PROVE  LaneBytes(W(i + j)) = EncodeUnit(W(i + j)) /\ ~IsSurrogate(W(i + j))
<1>1. PICK b \in Nat, N \in Nat :
        i = Lanes * b /\ N = Len(utf16) /\ i + Lanes <= N /\ i \in Nat /\ j \in 0..(Lanes - 1)
  <2>1. PICK b \in Nat : i = Lanes * b
    BY DEF Blocks
  <2>2. PICK N \in Nat : N = Len(utf16)
    BY LenProperties DEF Inv, TypeOK
  <2>3. i + Lanes <= N /\ i \in 0..N /\ j \in 0..Lanes
    BY <2>2 DEF Inv, TypeOK, Used
  <2>4. i \in Nat /\ j \in 0..(Lanes - 1)
    BY <2>3, BufferAssumption
  <2>5. QED
    BY <2>1, <2>2, <2>3, <2>4
<1>2. W(i + j) \in Unit
  <2>1. i + j \in 0..(N - 1)
    BY <1>1, BufferAssumption
  <2>2. QED
    BY <1>1, <2>1, UnitType DEF Inv
<1>3. ~IsSurrogate(W(i + j))
  <2>1. PICK n \in 1..N : n = i + j + 1 /\ n - 1 = i + j
    BY <1>1, BufferAssumption
  <2>2. Text[n] = W(i + j)
    BY <1>1, <2>1 DEF Text
  <2>3. QED
    BY <1>1, <2>1, <2>2 DEF Differs, NoSurrogates
<1>4. CASE ~ascii
  BY <1>3, <1>4 DEF LaneBytes
<1>5. CASE ascii
  <2>1. \A l \in i..(i + Lanes - 1) : Signed(W(l)) <= 128 /\ W(l) \in Unit
    <3>1. ASSUME NEW l \in i..(i + Lanes - 1) PROVE W(l) \in Unit
      <4>1. l \in 0..(N - 1)
        BY <1>1, BufferAssumption
      <4>2. QED
        BY <1>1, <4>1, UnitType DEF Inv
    <3>2. QED
      BY <1>5, <3>1 DEF Blocks, LooksAscii
  <2>2. ~Misjudged(i)
    <3>1. Lanes * (b + 1) = Lanes * b + Lanes
      BY BufferAssumption
    <3>2. b <= Lanes * b
      BY BufferAssumption
    <3>3. b \in 0..N /\ Lanes * (b + 1) <= N
      BY <1>1, <3>1, <3>2, BufferAssumption
    <3>4. QED
      BY <1>1, <3>3 DEF Differs, NoneMisjudged
  <2> DEFINE block == {W(l) : l \in i..(i + Lanes - 1)}
  <2>3. block \cap Recognized = {}
    <3>1. ASSUME NEW w \in Unit, Signed(w) <= 128 PROVE w < 129 \/ 32767 < w
      BY <3>1, UnitIs, SMT DEF Signed
    <3>2. \A w \in block : w < 129 \/ 32767 < w
      BY <2>1, <3>1, SMT
    <3> HIDE DEF block
    <3>3. ASSUME NEW w \in block, w \in Recognized PROVE FALSE
      <4>1. w < 129 \/ 32767 < w
        BY <3>2, SMT
      <4>2. w \in Int /\ 129 <= w /\ w <= 32767
        BY <3>3, SMT DEF Recognized
      <4>3. QED
        BY <4>1, <4>2, SMT
    <3>4. QED
      BY <3>3
  <2>4. ~ \E w \in block : w >= 128
    <3>1. Misjudged(i) <=> (block \cap Recognized = {} /\ \E w \in block : w >= 128)
      BY DEF Misjudged, Recognized
    <3> HIDE DEF block
    <3>2. QED
      BY <2>2, <2>3, <3>1
  <2>5. W(i + j) \in block
    <3>1. i + j \in i..(i + Lanes - 1)
      BY <1>1, BufferAssumption
    <3>2. QED
      BY <3>1
  <2>6. W(i + j) < 128
    <3> HIDE DEF block
    <3>1. QED
      BY <1>2, <2>4, <2>5, UnitIs
  <2>7. EncodeUnit(W(i + j)) = <<W(i + j)>> /\ W(i + j) % 256 = W(i + j)
    BY <1>2, <2>6, UnitIs DEF EncodeUnit
  <2>8. QED
    BY <1>3, <1>5, <2>7 DEF LaneBytes
<1>6. QED
  BY <1>3, <1>4, <1>5

\* Every step is one of the scalar converter's, or changes none of its state.
LEMMA StepSimulates ==
  ASSUME Inv, Blocks, [Next]_vars
  PROVE  Scalar!PushUnit \/ Scalar!Return \/ UNCHANGED Scalar!vars
<1>1. utf16' = utf16 /\ le' = le
  BY DEF Next, CompareBlock, WriteLane, AppendBlock, LeaveBlocks, WriteTailUnit, Return, vars
<1>2. Differs' = Differs
  BY <1>1 DEF Differs, NoSurrogates, NoneMisjudged, Misjudged, Text, W
<1>3. CASE Differs
  BY <1>1, <1>2, <1>3, Unmoved DEF ReadBar, WrittenBar, PcBar
<1>4. CASE ~Differs
  <2>1. /\ utf8 \in Seq(0..255) /\ buffer \in Seq(0..255)
        /\ utf8 \o <<>> = utf8 /\ (utf8 \o buffer) \o <<>> = utf8 \o buffer
    <3>1. utf8 \in Seq(0..255) /\ buffer \in Seq(0..255)
      BY DEF Inv, TypeOK
    <3>2. utf8 \o buffer \in Seq(0..255)
      BY <3>1, ConcatProperties
    <3>3. QED
      BY <3>1, <3>2, ConcatEmptySeq
  <2>2. PICK N \in Nat : N = Len(utf16) /\ i \in 0..N
    BY LenProperties DEF Inv, TypeOK
  <2>3. CASE CompareBlock
    <3>1. /\ pc = "blocks" /\ pc' = "lanes" /\ j = 0 /\ j' = 0
          /\ i' = i /\ utf8' = utf8 /\ buffer' = buffer
      BY <2>3 DEF CompareBlock, Inv, Used
    <3>2. i + 0 = i
      BY <2>2
    <3>3. ReadBar' = ReadBar /\ WrittenBar' = WrittenBar /\ PcBar' = PcBar
      BY <1>2, <1>4, <3>1, <3>2 DEF ReadBar, WrittenBar, PcBar
    <3>4. QED
      BY <1>1, <3>3, Unmoved
  <2>4. CASE WriteLane
    <3>1. /\ pc = "lanes" /\ pc' = "lanes" /\ j' = j + 1 /\ i' = i /\ utf8' = utf8
          /\ j < Lanes /\ buffer' = buffer \o LaneBytes(W(i + j))
      BY <2>4 DEF WriteLane
    <3>2. PICK t \in Seq(0..255) :
            t = EncodeUnit(W(i + j)) /\ t = LaneBytes(W(i + j)) /\ ~IsSurrogate(W(i + j))
      <4>1. i + j \in 0..(N - 1)
        BY <2>2, <3>1, BufferAssumption DEF Inv, TypeOK, Used
      <4>2. W(i + j) \in Unit
        BY <2>2, <4>1, UnitType DEF Inv
      <4>3. QED
        BY <1>4, <3>1, <4>2, LaneIsUnit, EncodeUnitType
    <3>3. ReadBar = i + j /\ WrittenBar = utf8 \o buffer /\ PcBar = "loop"
      BY <1>4, <3>1 DEF ReadBar, WrittenBar, PcBar
    <3>4. /\ i + (j + 1) = (i + j) + 1 /\ i + j < N
      BY <2>2, <3>1, BufferAssumption DEF Inv, TypeOK, Used
    <3>5. ReadBar' = (i + j) + 1 /\ PcBar' = "loop" /\ WrittenBar' = utf8 \o (buffer \o t)
      BY <1>2, <1>4, <3>1, <3>2, <3>4 DEF ReadBar, WrittenBar, PcBar
    <3>6. utf8 \o (buffer \o t) = (utf8 \o buffer) \o t
      BY <2>1, <3>2, BytesJoin, ZenonT(40)
    <3>7. Scalar!PushUnit
      BY <1>1, <2>2, <3>2, <3>3, <3>4, <3>5, <3>6, ScalarIs
    <3>8. QED
      BY <3>7
  <2>5. CASE AppendBlock
    <3>1. /\ pc = "lanes" /\ pc' = "blocks" /\ j = Lanes
          /\ i' = i + Lanes /\ utf8' = utf8 \o buffer /\ buffer' = <<>>
      BY <2>5 DEF AppendBlock, Reset, NextBlock
    <3>2. ReadBar' = ReadBar /\ WrittenBar' = WrittenBar /\ PcBar' = PcBar
      BY <1>2, <1>4, <2>1, <3>1 DEF ReadBar, WrittenBar, PcBar
    <3>3. QED
      BY <1>1, <3>2, Unmoved
  <2>6. CASE LeaveBlocks
    <3>1. /\ pc = "blocks" /\ pc' = "tail"
          /\ i' = i /\ utf8' = utf8 /\ buffer' = buffer
      BY <2>6 DEF LeaveBlocks
    <3>2. ReadBar' = ReadBar /\ WrittenBar' = WrittenBar /\ PcBar' = PcBar
      BY <1>2, <1>4, <3>1 DEF ReadBar, WrittenBar, PcBar
    <3>3. QED
      BY <1>1, <3>2, Unmoved
  <2>7. CASE WriteTailUnit
    <3>1. /\ pc = "tail" /\ pc' = "tail" /\ i' = i + 1 /\ utf8' = utf8
          /\ i < N /\ buffer' = buffer \o EncodeUnit(W(i))
      BY <2>2, <2>7 DEF WriteTailUnit
    <3>2. PICK t \in Seq(0..255) : t = EncodeUnit(W(i)) /\ ~IsSurrogate(W(i))
      <4>1. i \in 0..(N - 1) /\ i + 1 \in 1..N /\ (i + 1) - 1 = i
        BY <2>2, <3>1
      <4>2. W(i) \in Unit
        BY <2>2, <4>1, UnitType DEF Inv
      <4>3. Text[i + 1] = W(i)
        BY <2>2, <4>1 DEF Text
      <4>4. QED
        BY <1>4, <2>2, <4>1, <4>2, <4>3, EncodeUnitType DEF Differs, NoSurrogates
    <3>3. ReadBar = i /\ WrittenBar = utf8 \o buffer /\ PcBar = "loop"
      BY <1>4, <3>1 DEF ReadBar, WrittenBar, PcBar
    <3>4. ReadBar' = i + 1 /\ PcBar' = "loop" /\ WrittenBar' = utf8 \o (buffer \o t)
      BY <1>2, <1>4, <3>1, <3>2 DEF ReadBar, WrittenBar, PcBar
    <3>5. utf8 \o (buffer \o t) = (utf8 \o buffer) \o t
      BY <2>1, <3>2, BytesJoin, ZenonT(40)
    <3>6. Scalar!PushUnit
      BY <1>1, <2>2, <3>1, <3>2, <3>3, <3>4, <3>5, ScalarIs
    <3>7. QED
      BY <3>6
  <2>8. CASE Return
    <3>1. /\ pc = "tail" /\ pc' = "done" /\ i' = i /\ i >= N
          /\ utf8' = utf8 \o buffer
      BY <2>2, <2>8 DEF Return
    <3>2. /\ ReadBar = i /\ ReadBar' = i /\ PcBar = "loop" /\ PcBar' = "done"
          /\ WrittenBar' = WrittenBar
      BY <1>2, <1>4, <3>1 DEF ReadBar, WrittenBar, PcBar
    <3>3. Scalar!Return
      BY <1>1, <2>2, <3>1, <3>2, ScalarIs
    <3>4. QED
      BY <3>3
  <2>9. CASE UNCHANGED vars
    <3>1. ReadBar' = ReadBar /\ WrittenBar' = WrittenBar /\ PcBar' = PcBar
      BY <1>2, <2>9 DEF vars, ReadBar, WrittenBar, PcBar
    <3>2. QED
      BY <1>1, <3>1, Unmoved
  <2>10. QED
    BY <2>3, <2>4, <2>5, <2>6, <2>7, <2>8, <2>9 DEF Next
<1>5. QED
  BY <1>3, <1>4

\* Where there is no surrogate and no block is misjudged, the vector converter
\* does unit by unit what the scalar one does, for every string, byte order
\* and number of lanes.
THEOREM ImplementsScalar == Spec => RefinesScalar
<1>1. Init => Scalar!Init
  <2> SUFFICES ASSUME Init PROVE Scalar!Init
    OBVIOUS
  <2>1. utf8 \o buffer = <<>>
    BY DEF Init
  <2>2. utf16 \in Strings /\ le \in BOOLEAN /\ i = 0 /\ pc = "blocks"
    BY DEF Init
  <2>3. QED
    BY <2>1, <2>2, ScalarIs DEF ReadBar, WrittenBar, PcBar
<1>2. Init => Blocks
  <2>1. Lanes * 0 = 0
    BY BufferAssumption
  <2>2. QED
    BY <2>1 DEF Init, Blocks
<1>3. Inv /\ Blocks /\ [Next]_vars => [Scalar!Next]_Scalar!vars
  BY StepSimulates DEF Scalar!Next
<1>4. QED
  BY <1>1, <1>2, <1>3, InvHolds, BlocksStep, PTL DEF Spec, RefinesScalar, Scalar!Spec
-----------------------------------------------------------------------------
(* Where the bytes of each unit are.                                       *)

\* Unit n is in a block that is taken for ASCII.
InAscii(n) ==
  \E b \in Nat : /\ Lanes * b <= n /\ n < Lanes * b + Lanes
                 /\ Lanes * b + Lanes <= Len(utf16) /\ LooksAscii(Lanes * b)

\* What is written for each unit, counted from 0.
Pieces ==
  [n \in 0..(Len(utf16) - 1) |-> IF InAscii(n) THEN <<W(n) % 256>> ELSE EncodeUnit(W(n))]

\* The pieces are written one behind the other; the tail begins in the last
\* block, which is not complete.
Layout ==
  /\ pc = "lanes" => LaidOut(Pieces, i + j, utf8 \o buffer)
  /\ pc \in {"blocks", "tail"} => LaidOut(Pieces, i, utf8 \o buffer)
  /\ pc = "done" => LaidOut(Pieces, i, utf8) /\ i = Len(utf16)
  /\ pc \in {"tail", "done"} =>
       \E b \in Nat : Lanes * b <= i /\ Lanes * b + Lanes > Len(utf16)

LEMMA PiecesType ==
  ASSUME TypeOK, NEW n \in 0..(Len(utf16) - 1)
  PROVE  /\ W(n) \in Unit /\ Pieces[n] \in Seq(0..255)
         /\ InAscii(n) => Pieces[n] = <<W(n) % 256>>
         /\ ~InAscii(n) => Pieces[n] = EncodeUnit(W(n))
<1>1. W(n) \in Unit
  BY UnitType
<1>2. InAscii(n) => Pieces[n] = <<W(n) % 256>>
  BY DEF Pieces
<1>3. ~InAscii(n) => Pieces[n] = EncodeUnit(W(n))
  BY DEF Pieces
<1>4. <<W(n) % 256>> \in Seq(0..255)
  <2>1. PICK w \in Unit : w = W(n)
    BY <1>1
  <2>2. w \in Int
    BY UnitIs
  <2>3. w % 256 \in 0..255
    BY <2>2
  <2>4. QED
    BY <2>1, <2>3
<1>5. QED
  BY <1>1, <1>2, <1>3, <1>4, EncodeUnitType

\* Blocks do not overlap.
LEMMA Multiples ==
  ASSUME NEW a \in Nat, NEW c \in Nat, a < c
  PROVE  Lanes * a \in Nat /\ Lanes * a + Lanes <= Lanes * c
<1> USE BufferAssumption
<1>1. PICK d \in Nat : c = a + 1 + d
  <2>1. c - a - 1 \in Nat
    OBVIOUS
  <2>2. c = a + 1 + (c - a - 1)
    OBVIOUS
  <2>3. QED
    BY <2>1, <2>2
<1>2. Lanes * (a + 1 + d) = Lanes * a + Lanes + Lanes * d
  OBVIOUS
<1>3. Lanes * a \in Nat /\ Lanes * d \in Nat
  OBVIOUS
<1>4. QED
  BY <1>1, <1>2, <1>3

\* A unit of the open block is written as the block was judged.
LEMMA LaneIsPiece ==
  ASSUME Inv, Blocks, pc = "lanes", j < Lanes
  PROVE  i + j \in 0..(Len(utf16) - 1) /\ LaneBytes(W(i + j)) = Pieces[i + j]
<1>1. PICK b \in Nat, N \in Nat, l \in Nat :
        /\ i = Lanes * b /\ N = Len(utf16) /\ l = i + j
        /\ Lanes * b \in Nat /\ Lanes * b <= l /\ l < Lanes * b + Lanes
        /\ Lanes * b + Lanes <= N
  <2>1. PICK b \in Nat : i = Lanes * b
    BY DEF Blocks
  <2>2. PICK N \in Nat : N = Len(utf16)
    BY LenProperties DEF Inv, TypeOK
  <2>3. i + Lanes <= N /\ i \in 0..N /\ j \in 0..Lanes
    BY <2>2 DEF Inv, TypeOK, Used
  <2>4. i + j \in Nat /\ i <= i + j /\ i + j < i + Lanes /\ i \in Nat
    BY <2>3, BufferAssumption
  <2>5. QED
    BY <2>1, <2>2, <2>3, <2>4
<1>2. l \in 0..(Len(utf16) - 1)
  BY <1>1, BufferAssumption
<1>3. InAscii(l) <=> ascii
  <2>1. ascii = LooksAscii(Lanes * b)
    BY <1>1 DEF Blocks
  <2>2. ASSUME ascii PROVE InAscii(l)
    BY <1>1, <2>1, <2>2 DEF InAscii
  <2>3. ASSUME InAscii(l) PROVE ascii
    <3>1. PICK c \in Nat : /\ Lanes * c <= l /\ l < Lanes * c + Lanes
                           /\ LooksAscii(Lanes * c)
      BY <2>3 DEF InAscii
    <3>2. ~(b < c)
      <4>1. SUFFICES ASSUME b < c PROVE FALSE
        OBVIOUS
      <4>2. Lanes * b + Lanes <= Lanes * c /\ Lanes * b \in Nat
        BY <4>1, Multiples
      <4>3. PICK x \in Int : x = Lanes * c
        BY BufferAssumption
      <4>4. QED
        BY <1>1, <3>1, <4>2, <4>3, BufferAssumption
    <3>3. ~(c < b)
      <4>1. SUFFICES ASSUME c < b PROVE FALSE
        OBVIOUS
      <4>2. Lanes * c + Lanes <= Lanes * b /\ Lanes * c \in Nat
        BY <4>1, Multiples
      <4>3. QED
        BY <1>1, <3>1, <4>2, BufferAssumption
    <3>4. b = c
      BY <3>2, <3>3
    <3>5. QED
      BY <2>1, <3>1, <3>4
  <2>4. ascii \in BOOLEAN
    BY DEF Inv, TypeOK
  <2>5. QED
    BY <2>2, <2>3, <2>4
<1>4. Pieces[l] = LaneBytes(W(l))
  BY <1>2, <1>3, PiecesType DEF LaneBytes, Inv
<1>5. QED
  BY <1>1, <1>2, <1>4

\* A unit of the tail is in no block.
LEMMA TailIsPiece ==
  ASSUME Inv, Layout, pc = "tail", i < Len(utf16)
  PROVE  EncodeUnit(W(i)) = Pieces[i]
<1>1. PICK N \in Nat, b \in Nat, x \in Int :
        /\ N = Len(utf16) /\ i \in 0..N /\ i < N
        /\ x = Lanes * b /\ x <= i /\ x + Lanes > N
  <2>1. PICK N \in Nat : N = Len(utf16)
    BY LenProperties DEF Inv, TypeOK
  <2>2. PICK b \in Nat : Lanes * b <= i /\ Lanes * b + Lanes > N
    BY <2>1 DEF Layout
  <2>3. Lanes * b \in Int
    BY BufferAssumption
  <2>4. QED
    BY <2>1, <2>2, <2>3 DEF Inv, TypeOK
<1>2. ~InAscii(i)
  <2>1. SUFFICES ASSUME InAscii(i) PROVE FALSE
    OBVIOUS
  <2>2. PICK c \in Nat : Lanes * c <= i /\ i < Lanes * c + Lanes /\ Lanes * c + Lanes <= N
    BY <1>1, <2>1 DEF InAscii
  <2>3. PICK y \in Int : y = Lanes * c
    BY BufferAssumption
  <2>4. ~(c < b)
    <3>1. SUFFICES ASSUME c < b PROVE FALSE
      OBVIOUS
    <3>2. Lanes * c + Lanes <= Lanes * b
      BY <3>1, Multiples
    <3>3. y + Lanes <= x /\ i < y + Lanes
      BY <1>1, <2>2, <2>3, <3>2
    <3>4. QED
      BY <1>1, <3>3, BufferAssumption
  <2>5. ~(b < c)
    <3>1. SUFFICES ASSUME b < c PROVE FALSE
      OBVIOUS
    <3>2. Lanes * b + Lanes <= Lanes * c
      BY <3>1, Multiples
    <3>3. x + Lanes <= y /\ y + Lanes <= N
      BY <1>1, <2>2, <2>3, <3>2
    <3>4. QED
      BY <1>1, <3>3, BufferAssumption
  <2>6. b = c
    BY <2>4, <2>5
  <2>7. x + Lanes <= N
    BY <1>1, <2>2, <2>6
  <2>8. QED
    BY <1>1, <2>7, BufferAssumption
<1>3. i \in 0..(Len(utf16) - 1)
  BY <1>1
<1>4. QED
  BY <1>2, <1>3, PiecesType DEF Inv
LEMMA LayoutStep == Inv /\ Blocks /\ Layout /\ [Next]_vars => Layout'
<1> SUFFICES ASSUME Inv, Blocks, Layout, [Next]_vars PROVE Layout'
  OBVIOUS
<1>1. utf16' = utf16 /\ Pieces' = Pieces /\ Len(utf16') = Len(utf16)
  <2>1. utf16' = utf16 /\ le' = le
    BY DEF Next, CompareBlock, WriteLane, AppendBlock, LeaveBlocks, WriteTailUnit, Return, vars
  <2>2. QED
    BY <2>1 DEF Pieces, InAscii, LooksAscii, W
<1>2. /\ utf8 \in Seq(0..255) /\ buffer \in Seq(0..255) /\ utf8 \o buffer \in Seq(0..255)
      /\ (utf8 \o buffer) \o <<>> = utf8 \o buffer
  <2>1. utf8 \in Seq(0..255) /\ buffer \in Seq(0..255)
    BY DEF Inv, TypeOK
  <2>2. utf8 \o buffer \in Seq(0..255)
    BY <2>1, ConcatProperties
  <2>3. QED
    BY <2>1, <2>2, ConcatEmptySeq
<1>3. PICK N \in Nat : N = Len(utf16) /\ i \in 0..N
  BY LenProperties DEF Inv, TypeOK
<1>4. \A n \in 0..(N - 1) : Pieces[n] \in Seq(0..255)
  BY <1>3, PiecesType DEF Inv
<1>5. ASSUME NEW r \in 0..(N - 1), NEW t, t = Pieces[r], LaidOut(Pieces, r, utf8 \o buffer)
      PROVE  LaidOut(Pieces, r + 1, utf8 \o (buffer \o t))
  <2>1. \A n \in 0..r : Pieces[n] \in Seq(0..255)
    <3>1. \A n \in 0..r : n \in 0..(N - 1)
      OBVIOUS
    <3>2. QED
      BY <1>4, <3>1
  <2>2. t \in Seq(0..255)
    BY <1>4, <1>5
  <2>3. LaidOut(Pieces, r + 1, (utf8 \o buffer) \o t)
    <3> DEFINE p == Pieces
               s == utf8 \o buffer
    <3>1. s \in Seq(0..255) /\ LaidOut(p, r, s) /\ t = p[r] /\ \A n \in 0..r : p[n] \in Seq(0..255)
      BY <1>2, <1>5, <2>1
    <3> HIDE DEF p, s
    <3>2. LaidOut(p, r + 1, s \o t)
      BY <2>2, <3>1, LayOutMore
    <3>3. QED
      BY <3>2 DEF p, s
  <2>4. (utf8 \o buffer) \o t = utf8 \o (buffer \o t)
    BY <1>2, <2>2, BytesJoin, ZenonT(40)
  <2>5. QED
    BY <2>3, <2>4
<1>6. CASE CompareBlock
  <2>1. /\ pc = "blocks" /\ pc' = "lanes" /\ j' = 0 /\ i' = i /\ utf8' = utf8 /\ buffer' = buffer
    BY <1>6 DEF CompareBlock, Inv, Used
  <2>2. i + 0 = i
    BY <1>3
  <2>3. LaidOut(Pieces, i + 0, utf8 \o buffer)
    BY <2>1, <2>2 DEF Layout
  <2>4. QED
    BY <1>1, <2>1, <2>3 DEF Layout
<1>7. CASE WriteLane
  <2>1. /\ pc = "lanes" /\ pc' = "lanes" /\ j' = j + 1 /\ i' = i /\ utf8' = utf8
        /\ j < Lanes /\ buffer' = buffer \o LaneBytes(W(i + j))
    BY <1>7 DEF WriteLane
  <2>2. PICK r \in 0..(N - 1) : r = i + j
    BY <1>3, <2>1, LaneIsPiece
  <2>3. PICK t : t = LaneBytes(W(i + j)) /\ t = Pieces[r]
    BY <2>1, <2>2, LaneIsPiece
  <2>4. LaidOut(Pieces, r, utf8 \o buffer)
    BY <2>1, <2>2 DEF Layout
  <2>5. LaidOut(Pieces, r + 1, utf8 \o (buffer \o t))
    BY <1>5, <2>3, <2>4
  <2>6. r + 1 = i + (j + 1)
    BY <1>3, <2>2, BufferAssumption DEF Inv, TypeOK
  <2>7. QED
    BY <1>1, <2>1, <2>3, <2>5, <2>6 DEF Layout
<1>8. CASE AppendBlock
  <2>1. /\ pc = "lanes" /\ pc' = "blocks" /\ j = Lanes
        /\ i' = i + Lanes /\ utf8' = utf8 \o buffer /\ buffer' = <<>>
    BY <1>8 DEF AppendBlock, Reset, NextBlock
  <2>2. LaidOut(Pieces, i + Lanes, (utf8 \o buffer) \o <<>>)
    BY <1>2, <2>1 DEF Layout
  <2>3. QED
    BY <1>1, <2>1, <2>2 DEF Layout
<1>9. CASE LeaveBlocks
  <2>1. /\ pc = "blocks" /\ pc' = "tail" /\ i + Lanes > N
        /\ i' = i /\ utf8' = utf8 /\ buffer' = buffer
    BY <1>3, <1>9 DEF LeaveBlocks
  <2>2. PICK b \in Nat : i = Lanes * b
    BY <2>1 DEF Blocks
  <2>3. Lanes * b <= i' /\ Lanes * b + Lanes > N
    BY <1>3, <2>1, <2>2, BufferAssumption
  <2>4. LaidOut(Pieces, i, utf8 \o buffer)
    BY <2>1 DEF Layout
  <2>5. QED
    BY <1>1, <1>3, <2>1, <2>3, <2>4 DEF Layout
<1>10. CASE WriteTailUnit
  <2>1. /\ pc = "tail" /\ pc' = "tail" /\ i' = i + 1 /\ utf8' = utf8
        /\ i < N /\ buffer' = buffer \o EncodeUnit(W(i))
    BY <1>3, <1>10 DEF WriteTailUnit
  <2>2. PICK r \in 0..(N - 1), t \in Seq(0..255) : r = i /\ t = EncodeUnit(W(i)) /\ t = Pieces[r]
    <3>1. i \in 0..(N - 1)
      BY <1>3, <2>1
    <3>2. Pieces[i] \in Seq(0..255)
      BY <1>4, <3>1
    <3>3. QED
      BY <1>3, <2>1, <3>1, <3>2, TailIsPiece
  <2>3. LaidOut(Pieces, r, utf8 \o buffer)
    BY <2>1, <2>2 DEF Layout
  <2>4. LaidOut(Pieces, r + 1, utf8 \o (buffer \o t))
    BY <1>5, <2>2, <2>3
  <2>5. PICK b \in Nat : Lanes * b <= i /\ Lanes * b + Lanes > N
    BY <1>3, <2>1 DEF Layout
  <2>6. Lanes * b <= i'
    <3>1. Lanes * b \in Int
      BY BufferAssumption
    <3>2. QED
      BY <1>3, <2>1, <2>5, <3>1
  <2>7. QED
    BY <1>1, <1>3, <2>1, <2>2, <2>4, <2>5, <2>6 DEF Layout
<1>11. CASE Return
  <2>1. /\ pc = "tail" /\ pc' = "done" /\ i' = i /\ i >= N
        /\ utf8' = utf8 \o buffer
    BY <1>3, <1>11 DEF Return
  <2>2. i = N
    BY <1>3, <2>1
  <2>3. QED
    BY <1>1, <1>3, <2>1, <2>2 DEF Layout
<1>12. CASE UNCHANGED vars
  BY <1>1, <1>12 DEF vars, Layout
<1>13. QED
  BY <1>6, <1>7, <1>8, <1>9, <1>10, <1>11, <1>12 DEF Next

LEMMA LayoutHolds == Spec => []Inv /\ []Layout
<1>1. Init => Blocks
  <2>1. Lanes * 0 = 0
    BY BufferAssumption
  <2>2. QED
    BY <2>1 DEF Init, Blocks
<1>2. Init => Layout
  <2> SUFFICES ASSUME Init PROVE Layout
    OBVIOUS
  <2>1. utf8 \o buffer = <<>> /\ pc = "blocks" /\ i = 0
    BY DEF Init
  <2>2. QED
    BY <2>1, NothingLaidOut DEF Layout
<1>3. QED
  BY <1>1, <1>2, InvHolds, BlocksStep, LayoutStep, PTL DEF Spec
-----------------------------------------------------------------------------
(* The decoder that takes each sequence for a unit.                        *)

\* Whether it can go on at place n, with which unit and where.
Goes(b, n) == SequenceLength(b[n]) \in 1..3 /\ n + SequenceLength(b[n]) <= Len(b) + 1
Taken(b, n) ==
  CASE SequenceLength(b[n]) = 1 -> b[n]
    [] SequenceLength(b[n]) = 2 -> (b[n] - \hC0) * 64 + b[n + 1] - \h80
    [] OTHER -> (b[n] - \hE0) * 4096 + (b[n + 1] - \h80) * 64 + b[n + 2] - \h80
After(b, n) == n + SequenceLength(b[n])

TakeFrom(b, f, n) ==
  IF n > Len(b) THEN <<>>
  ELSE IF Goes(b, n) THEN <<Taken(b, n)>> \o f[After(b, n)] ELSE <<Invalid>>
IsTaker(b, f) == f = [n \in 1..(Len(b) + 1) |-> TakeFrom(b, f, n)]
Taker(b) == CHOOSE f : IsTaker(b, f)

LEMMA UnitsInIsTaker == \A b : UnitsIn(b) = Taker(b)[1]
BY DEF UnitsIn, Taker, IsTaker, TakeFrom, Goes, Taken, After

LEMMA TakenType ==
  ASSUME NEW b \in Seq(0..255), NEW n \in 1..Len(b), Goes(b, n)
  PROVE  After(b, n) \in (n + 1)..(Len(b) + 1) /\ Taken(b, n) \in Int
<1>1. PICK N \in Nat, k \in 1..3 :
        N = Len(b) /\ k = SequenceLength(b[n]) /\ n + k <= N + 1 /\ n \in 1..N
  BY LenProperties DEF Goes
<1>2. After(b, n) \in (n + 1)..(N + 1)
  BY <1>1 DEF After
<1>3. ASSUME NEW m \in 1..N PROVE b[m] \in Int
  <2>1. b[m] \in 0..255
    BY <1>1, ElementOfSeq
  <2>2. PICK x \in 0..255 : x = b[m]
    BY <2>1
  <2>3. x \in Int
    OBVIOUS
  <2>4. QED
    BY <2>2, <2>3
<1>4. CASE k = 1
  <2>1. Taken(b, n) = b[n]
    BY <1>1, <1>4 DEF Taken
  <2>2. QED
    BY <1>1, <1>2, <1>3, <2>1
<1>5. CASE k = 2
  <2>1. Taken(b, n) = (b[n] - 192) * 64 + b[n + 1] - 128
    BY <1>1, <1>5 DEF Taken
  <2>2. PICK x \in Int, y \in Int : x = b[n] /\ y = b[n + 1]
    <3>1. n \in 1..N /\ n + 1 \in 1..N
      BY <1>1, <1>5
    <3>2. QED
      BY <1>3, <3>1
  <2>3. (x - 192) * 64 + y - 128 \in Int
    OBVIOUS
  <2>4. QED
    BY <1>1, <1>2, <2>1, <2>2, <2>3
<1>6. CASE k = 3
  <2>1. Taken(b, n) = (b[n] - 224) * 4096 + (b[n + 1] - 128) * 64 + b[n + 2] - 128
    BY <1>1, <1>6 DEF Taken
  <2>2. PICK x \in Int, y \in Int, z \in Int : x = b[n] /\ y = b[n + 1] /\ z = b[n + 2]
    <3>1. n \in 1..N /\ n + 1 \in 1..N /\ n + 2 \in 1..N
      BY <1>1, <1>6
    <3>2. QED
      BY <1>3, <3>1
  <2>3. (x - 224) * 4096 + (y - 128) * 64 + z - 128 \in Int
    OBVIOUS
  <2>4. QED
    BY <1>1, <1>2, <2>1, <2>2, <2>3
<1>7. QED
  BY <1>4, <1>5, <1>6

\* It depends on the places behind n.
LEMMA TakeFromLater ==
  ASSUME NEW b \in Seq(0..255), NEW f, NEW g, NEW n \in Places(b),
         \A m \in Places(b) : m > n => f[m] = g[m]
  PROVE  TakeFrom(b, f, n) = TakeFrom(b, g, n)
<1>1. CASE n > Len(b)
  BY <1>1 DEF TakeFrom
<1>2. CASE ~(n > Len(b)) /\ ~Goes(b, n)
  BY <1>2 DEF TakeFrom
<1>3. CASE ~(n > Len(b)) /\ Goes(b, n)
  <2>1. n \in 1..Len(b) /\ Len(b) \in Nat
    BY <1>3, LenProperties DEF Places
  <2>2. After(b, n) \in (n + 1)..(Len(b) + 1)
    BY <1>3, <2>1, TakenType
  <2>3. After(b, n) \in Places(b) /\ After(b, n) > n
    BY <2>1, <2>2 DEF Places
  <2>4. f[After(b, n)] = g[After(b, n)]
    BY <2>3
  <2>5. QED
    BY <1>3, <2>4 DEF TakeFrom
<1>4. QED
  BY <1>1, <1>2, <1>3

\* The decoder of any bytes exists: it is built from the end.
LEMMA TakerExists ==
  ASSUME NEW b \in Seq(0..255)
  PROVE  \A n \in Places(b) : /\ Taker(b)[n] = TakeFrom(b, Taker(b), n)
                              /\ Taker(b)[n] \in Seq(Int)
<1>0. PICK N \in Nat : N = Len(b)
  BY LenProperties
<1>1. Places(b) = 1..(N + 1)
  BY <1>0 DEF Places
<1> DEFINE Takes(f, m) == /\ f = [n \in Places(b) |-> f[n]]
                          /\ \A n \in Places(b) : n >= N + 1 - m => f[n] = TakeFrom(b, f, n)
           Upto == {m \in Nat : m <= N => \E f : Takes(f, m)}
<1>2. 0 \in Upto
  <2> DEFINE f == [n \in Places(b) |-> <<>>]
  <2>1. f = [n \in Places(b) |-> f[n]]
    OBVIOUS
  <2>2. ASSUME NEW n \in Places(b), n >= N + 1 - 0 PROVE f[n] = TakeFrom(b, f, n)
    <3>1. n > Len(b)
      BY <1>0, <1>1, <2>2
    <3>2. TakeFrom(b, f, n) = <<>>
      BY <3>1 DEF TakeFrom
    <3>3. QED
      BY <3>2
  <2> HIDE DEF f
  <2>3. QED
    BY <2>1, <2>2
<1>3. ASSUME NEW m \in Nat, m \in Upto PROVE m + 1 \in Upto
  <2>1. SUFFICES ASSUME m + 1 <= N PROVE \E f : Takes(f, m + 1)
    OBVIOUS
  <2>2. PICK f : Takes(f, m)
    BY <1>3, <2>1
  <2>3. PICK p \in Places(b) : p = N - m
    BY <1>1, <2>1
  <2> DEFINE g == [n \in Places(b) |-> IF n = p THEN TakeFrom(b, f, p) ELSE f[n]]
  <2>4. /\ g = [n \in Places(b) |-> g[n]] /\ g[p] = TakeFrom(b, f, p)
        /\ \A n \in Places(b) : n # p => g[n] = f[n]
    OBVIOUS
  <2> HIDE DEF g
  <2>5. ASSUME NEW n \in Places(b), n >= p PROVE TakeFrom(b, g, n) = TakeFrom(b, f, n)
    <3>1. \A l \in Places(b) : l > n => g[l] = f[l]
      <4>1. \A l \in Places(b) : l > n => l # p
        BY <1>1, <2>5
      <4>2. QED
        BY <2>4, <4>1
    <3>2. QED
      BY <3>1, TakeFromLater
  <2>6. ASSUME NEW n \in Places(b), n >= N + 1 - (m + 1) PROVE g[n] = TakeFrom(b, g, n)
    <3>1. n >= p /\ (n = p \/ n >= N + 1 - m)
      BY <1>1, <2>3, <2>6
    <3>2. TakeFrom(b, g, n) = TakeFrom(b, f, n)
      BY <2>5, <3>1
    <3>3. CASE n = p
      BY <2>4, <3>2, <3>3
    <3>4. CASE n # p
      BY <2>2, <2>4, <3>1, <3>2, <3>4
    <3>5. QED
      BY <3>3, <3>4
  <2>7. QED
    BY <2>4, <2>6
<1>4. N \in Upto
  <2> HIDE DEF Upto
  <2>1. QED
    BY <1>2, <1>3, SetInduction
<1>5. PICK f : f = [n \in Places(b) |-> f[n]] /\ \A n \in Places(b) : f[n] = TakeFrom(b, f, n)
  <2>1. \A n \in Places(b) : n >= N + 1 - N
    BY <1>1
  <2>2. QED
    BY <1>4, <2>1
<1>6. IsTaker(b, f)
  <2>1. f = [n \in Places(b) |-> TakeFrom(b, f, n)]
    BY <1>5
  <2>2. QED
    BY <2>1 DEF IsTaker, Places
<1> DEFINE d == Taker(b)
<1>7. IsTaker(b, d)
  BY <1>6 DEF Taker
<1>8. \A n \in Places(b) : d[n] = TakeFrom(b, d, n)
  <2> HIDE DEF d
  <2>1. d = [n \in Places(b) |-> TakeFrom(b, d, n)]
    BY <1>7 DEF IsTaker, Places
  <2>2. QED
    BY <2>1
<1> HIDE DEF d
<1> DEFINE Typed == {m \in Nat : \A n \in Places(b) : n >= N + 1 - m => d[n] \in Seq(Int)}
<1>9. 0 \in Typed
  <2>1. ASSUME NEW n \in Places(b), n >= N + 1 - 0 PROVE d[n] \in Seq(Int)
    <3>1. n > Len(b)
      BY <1>0, <1>1, <2>1
    <3>2. d[n] = <<>>
      BY <1>8, <3>1 DEF TakeFrom
    <3>3. QED
      BY <3>2
  <2>2. QED
    BY <2>1
<1>10. ASSUME NEW m \in Nat, m \in Typed PROVE m + 1 \in Typed
  <2>1. ASSUME NEW n \in Places(b), n >= N + 1 - (m + 1) PROVE d[n] \in Seq(Int)
    <3>1. CASE n > Len(b)
      <4>1. d[n] = <<>>
        BY <1>8, <3>1 DEF TakeFrom
      <4>2. QED
        BY <4>1
    <3>2. CASE ~(n > Len(b)) /\ ~Goes(b, n)
      <4>1. d[n] = <<Invalid>>
        BY <1>8, <3>2 DEF TakeFrom
      <4>2. Invalid \in Int
        BY DEF Invalid
      <4>3. QED
        BY <4>1, <4>2
    <3>3. CASE ~(n > Len(b)) /\ Goes(b, n)
      <4>1. n \in 1..Len(b)
        BY <1>0, <1>1, <3>3
      <4>2. After(b, n) \in (n + 1)..(N + 1) /\ Taken(b, n) \in Int
        BY <1>0, <3>3, <4>1, TakenType
      <4>3. After(b, n) \in Places(b) /\ After(b, n) >= N + 1 - m
        BY <1>1, <2>1, <4>2
      <4>4. d[After(b, n)] \in Seq(Int) /\ <<Taken(b, n)>> \in Seq(Int)
        BY <1>10, <4>2, <4>3
      <4>5. d[n] = <<Taken(b, n)>> \o d[After(b, n)]
        BY <1>8, <3>3 DEF TakeFrom
      <4>6. QED
        BY <4>4, <4>5, ConcatProperties
    <3>4. QED
      BY <3>1, <3>2, <3>3
  <2>2. QED
    BY <2>1
<1>11. N \in Typed
  <2> HIDE DEF Typed
  <2>1. QED
    BY <1>9, <1>10, SetInduction
<1>12. \A n \in Places(b) : d[n] \in Seq(Int)
  <2>1. \A n \in Places(b) : n >= N + 1 - N
    BY <1>1
  <2>2. QED
    BY <1>11, <2>1
<1>13. QED
  BY <1>8, <1>12 DEF d
\* The shape of the bytes of a unit.
Single(w, t) == w < 128 /\ Len(t) = 1 /\ t[1] = w
Double(w, t) ==
  /\ 128 <= w /\ w < 2048 /\ Len(t) = 2
  /\ t[1] \in 192..223 /\ t[2] - 128 \in 0..63
  /\ w = (t[1] - 192) * 64 + t[2] - 128
Triple(w, t) ==
  /\ 2048 <= w /\ Len(t) = 3
  /\ t[1] \in 224..239 /\ t[2] - 128 \in 0..63 /\ t[3] - 128 \in 0..63
  /\ w = (t[1] - 224) * 4096 + (t[2] - 128) * 64 + t[3] - 128

LEMMA UnitShape ==
  ASSUME NEW w \in Unit, NEW t, t = EncodeUnit(w)
  PROVE  Single(w, t) \/ Double(w, t) \/ Triple(w, t)
<1>1. w \in Int /\ 0 <= w /\ w <= 65535
  BY UnitIs
<1>2. CASE w < 128
  BY <1>2 DEF EncodeUnit, Single
<1>3. CASE 128 <= w /\ w < 2048
  <2> DEFINE b1 == 192 + w \div 64
             b2 == 128 + (w % 64)
  <2>1. t = <<b1, b2>>
    BY <1>1, <1>3 DEF EncodeUnit
  <2>2. b1 \in 192..223 /\ b2 - 128 \in 0..63 /\ w = (b1 - 192) * 64 + b2 - 128
    BY <1>1, <1>3
  <2> HIDE DEF b1, b2
  <2>3. Len(t) = 2 /\ t[1] = b1 /\ t[2] = b2
    BY <2>1
  <2>4. Double(w, t)
    BY <1>3, <2>2, <2>3 DEF Double
  <2>5. QED
    BY <2>4
<1>4. CASE 2048 <= w
  <2> DEFINE b1 == 224 + w \div 4096
             b2 == 128 + ((w \div 64) % 64)
             b3 == 128 + (w % 64)
  <2>1. t = <<b1, b2, b3>>
    BY <1>1, <1>4 DEF EncodeUnit
  <2>2. /\ b1 \in 224..239 /\ b2 - 128 \in 0..63 /\ b3 - 128 \in 0..63
        /\ (b1 - 224) * 4096 + (b2 - 128) * 64 + (b3 - 128) = w
    BY <1>1, <1>4
  <2> HIDE DEF b1, b2, b3
  <2>3. Len(t) = 3 /\ t[1] = b1 /\ t[2] = b2 /\ t[3] = b3
    BY <2>1
  <2>4. Triple(w, t)
    BY <1>4, <2>2, <2>3 DEF Triple
  <2>5. QED
    BY <2>4
<1>5. QED
  BY <1>1, <1>2, <1>3, <1>4

\* Only 110xxxxx can be 0xDF.
LEMMA NotDF ==
  ASSUME NEW x \in Int
  PROVE  /\ x - 128 \in 0..63 => x # 223 /\ ~(x >= 192)
         /\ x \in 224..239 => x # 223
OBVIOUS

\* The first byte gives the number of bytes away.
LEMMA FirstByte ==
  ASSUME NEW x \in Int
  PROVE  /\ x < 128 <=> SequenceLength(x) = 1
         /\ x \in 192..223 <=> SequenceLength(x) = 2
         /\ x \in 224..239 <=> SequenceLength(x) = 3
BY DEF SequenceLength

\* The bytes of a unit are taken for this unit.
LEMMA UnitIsTaken ==
  ASSUME NEW b \in Seq(0..255), NEW p \in Nat, NEW w \in Unit, NEW t, t = EncodeUnit(w),
         p + Len(t) <= Len(b), \A k \in 1..Len(t) : b[p + k] = t[k]
  PROVE  /\ Goes(b, p + 1) /\ After(b, p + 1) = (p + Len(t)) + 1 /\ Taken(b, p + 1) = w
<1>1. PICK N \in Nat : N = Len(b)
  BY LenProperties
<1>2. CASE Single(w, t)
  <2>1. Len(t) = 1 /\ t[1] = w /\ w < 128 /\ w \in Int
    BY <1>2, UnitIs DEF Single
  <2>2. b[p + 1] = w /\ p + 1 <= N
    BY <1>1, <2>1
  <2>3. SequenceLength(b[p + 1]) = 1
    BY <2>1, <2>2, FirstByte
  <2>4. (p + 1) + 1 <= N + 1
    BY <2>2
  <2>5. QED
    BY <1>1, <2>1, <2>2, <2>3, <2>4 DEF Goes, After, Taken
<1>3. CASE Double(w, t)
  <2>1. PICK x \in 192..223, y \in Int :
          /\ Len(t) = 2 /\ x = t[1] /\ y = t[2] /\ w = (x - 192) * 64 + y - 128
    <3>1. Len(t) = 2 /\ t[1] \in 192..223 /\ w = (t[1] - 192) * 64 + t[2] - 128
      BY <1>3 DEF Double
    <3>2. t[2] \in Int
      <4>1. t \in Seq(0..255)
        BY EncodeUnitType
      <4>2. 2 \in 1..Len(t)
        BY <3>1
      <4>3. t[2] \in 0..255
        BY <4>1, <4>2, ElementOfSeq
      <4>4. QED
        BY <4>3, ByteIs
    <3>3. QED
      BY <3>1, <3>2
  <2>2. b[p + 1] = x /\ b[p + 2] = y /\ p + 2 <= N
    BY <1>1, <2>1
  <2>3. SequenceLength(b[p + 1]) = 2
    BY <2>2, FirstByte
  <2>4. (p + 1) + 2 <= N + 1 /\ (p + 1) + 2 = (p + 2) + 1 /\ (p + 1) + 1 = p + 2
    BY <2>2
  <2>5. Goes(b, p + 1) /\ After(b, p + 1) = (p + 2) + 1
    BY <1>1, <2>3, <2>4 DEF Goes, After
  <2>6. Taken(b, p + 1) = (x - 192) * 64 + y - 128
    BY <2>2, <2>3, <2>4 DEF Taken
  <2>7. QED
    BY <2>1, <2>5, <2>6
<1>4. CASE Triple(w, t)
  <2>0. /\ Len(t) = 3 /\ t[1] \in 224..239
        /\ w = (t[1] - 224) * 4096 + (t[2] - 128) * 64 + t[3] - 128
    BY <1>4 DEF Triple
  <2>1. PICK x \in 224..239, y \in Int, z \in Int : x = t[1] /\ y = t[2] /\ z = t[3]
    <3>1. t \in Seq(0..255)
      BY EncodeUnitType
    <3>2. 2 \in 1..Len(t) /\ 3 \in 1..Len(t)
      BY <2>0
    <3>3. t[2] \in 0..255
      BY <3>1, <3>2, ElementOfSeq
    <3>4. t[3] \in 0..255
      BY <3>1, <3>2, ElementOfSeq
    <3>5. t[2] \in Int /\ t[3] \in Int
      BY <3>3, <3>4, ByteIs
    <3>6. t[1] \in 224..239
      BY <2>0
    <3>7. QED
      BY <3>5, <3>6
  <2>2. b[p + 1] = x /\ b[p + 2] = y /\ b[p + 3] = z /\ p + 3 <= N
    <3>1. Len(t) = 3
      BY <2>0
    <3>2. QED
      BY <1>1, <2>1, <3>1
  <2>3. SequenceLength(b[p + 1]) = 3
    BY <2>2, FirstByte
  <2>4. /\ (p + 1) + 3 <= N + 1 /\ (p + 1) + 3 = (p + 3) + 1
        /\ (p + 1) + 1 = p + 2 /\ (p + 1) + 2 = p + 3
    BY <2>2
  <2>5. Goes(b, p + 1) /\ After(b, p + 1) = (p + 3) + 1
    BY <1>1, <2>3, <2>4 DEF Goes, After
  <2>6. Taken(b, p + 1) = (x - 224) * 4096 + (y - 128) * 64 + z - 128
    <3>1. b[(p + 1) + 1] = y /\ b[(p + 1) + 2] = z
      BY <2>2, <2>4
    <3>2. QED
      BY <2>2, <2>3, <3>1 DEF Taken
  <2>7. QED
    BY <2>0, <2>1, <2>5, <2>6
<1>5. QED
  BY <1>2, <1>3, <1>4, UnitShape

\* A unit is not taken from fewer bytes than it has, with one exception: two
\* bytes of which the second is none that follows the first in a sequence.
LEMMA TakenBound ==
  ASSUME NEW b \in Seq(0..255), NEW n \in 1..Len(b), Goes(b, n),
         NEW w \in Unit, w = Taken(b, n), NEW k \in 1..3, k = SequenceLength(b[n])
  PROVE  /\ w >= 128 => k >= 2
         /\ w >= 2048 => k = 3 \/ (b[n] = 223 /\ n + 1 <= Len(b) /\ b[n + 1] >= 192)
         /\ w >= 2112 => k = 3
<1>1. PICK N \in Nat, x \in 0..255 : N = Len(b) /\ n \in 1..N /\ n + k <= N + 1 /\ x = b[n]
  <2>1. Len(b) \in Nat /\ b[n] \in 0..255 /\ n + k <= Len(b) + 1
    BY LenProperties, ElementOfSeq DEF Goes
  <2>2. QED
    BY <2>1
<1>2. CASE k = 1
  <2>1. x < 128
    <3>1. SequenceLength(x) = 1 /\ x \in Int
      BY <1>1, <1>2, ByteIs
    <3>2. QED
      BY <3>1, FirstByte
  <2>2. w = x
    BY <1>1, <1>2 DEF Taken
  <2>3. QED
    BY <2>1, <2>2
<1>3. CASE k = 2
  <2>1. x \in 192..223
    <3>1. SequenceLength(x) = 2 /\ x \in Int
      BY <1>1, <1>3, ByteIs
    <3>2. QED
      BY <3>1, FirstByte
  <2>2. PICK y \in 0..255 : y = b[n + 1] /\ n + 1 <= N
    <3>1. n + 1 \in 1..N
      BY <1>1, <1>3
    <3>2. b[n + 1] \in 0..255
      BY <1>1, <3>1, ElementOfSeq
    <3>3. n + 1 <= N
      BY <3>1
    <3>4. QED
      BY <3>2, <3>3
  <2>3. w = (x - 192) * 64 + y - 128
    BY <1>1, <1>3, <2>2 DEF Taken
  <2>4. (x - 192) * 64 + y - 128 >= 2048 => x = 223 /\ y >= 192
    BY <2>1
  <2>5. (x - 192) * 64 + y - 128 < 2112
    BY <2>1
  <2>6. QED
    BY <1>1, <1>3, <2>2, <2>3, <2>4, <2>5
<1>4. CASE k = 3
  BY <1>4
<1>5. QED
  BY <1>2, <1>3, <1>4

-----------------------------------------------------------------------------
(* Bytes are weighed: every byte one, and two the first of the exception.  *)

Heavy(b, p) == b[p] = 223 /\ p + 1 <= Len(b) /\ b[p + 1] >= 192
IsWeight(b, e, N) ==
  e[0] = 0 /\ \A p \in 0..(N - 1) : e[p + 1] = e[p] + (IF Heavy(b, p + 1) THEN 2 ELSE 1)

LEMMA WeightExists ==
  ASSUME NEW b
  PROVE  \A N \in Nat : \E e \in [0..N -> Nat] : IsWeight(b, e, N)
<1> DEFINE Has == {N \in Nat : \E e \in [0..N -> Nat] : IsWeight(b, e, N)}
<1>1. 0 \in Has
  <2> DEFINE e == [n \in 0..0 |-> 0]
  <2>1. e \in [0..0 -> Nat] /\ e[0] = 0
    OBVIOUS
  <2> HIDE DEF e
  <2>2. IsWeight(b, e, 0)
    BY <2>1 DEF IsWeight
  <2>3. QED
    BY <2>1, <2>2
<1>2. ASSUME NEW N \in Nat, N \in Has PROVE N + 1 \in Has
  <2>1. PICK e \in [0..N -> Nat] : IsWeight(b, e, N)
    BY <1>2
  <2>2. PICK x \in Nat, y \in 1..2 : x = e[N] /\ y = IF Heavy(b, N + 1) THEN 2 ELSE 1
    <3>1. e[N] \in Nat
      BY <2>1
    <3>2. QED
      BY <3>1
  <2> DEFINE f == [n \in 0..(N + 1) |-> IF n = N + 1 THEN x + y ELSE e[n]]
  <2>3. /\ f \in [0..(N + 1) -> Nat] /\ f[N + 1] = x + y
        /\ \A n \in 0..N : f[n] = e[n]
    <3>1. \A n \in 0..(N + 1) : n = N + 1 \/ n \in 0..N
      OBVIOUS
    <3>2. \A n \in 0..N : n # N + 1 /\ n \in 0..(N + 1)
      OBVIOUS
    <3>3. x + y \in Nat /\ N + 1 \in 0..(N + 1)
      OBVIOUS
    <3>4. QED
      BY <2>1, <3>1, <3>2, <3>3
  <2> HIDE DEF f
  <2>4. ASSUME NEW p \in 0..((N + 1) - 1)
        PROVE  f[p + 1] = f[p] + (IF Heavy(b, p + 1) THEN 2 ELSE 1)
    <3>1. CASE p = N
      BY <2>2, <2>3, <3>1
    <3>2. CASE p # N
      <4>1. p \in 0..(N - 1) /\ p \in 0..N /\ p + 1 \in 0..N
        BY <3>2
      <4>2. e[p + 1] = e[p] + (IF Heavy(b, p + 1) THEN 2 ELSE 1)
        BY <2>1, <4>1 DEF IsWeight
      <4>3. QED
        BY <2>3, <4>1, <4>2
    <3>3. QED
      BY <3>1, <3>2
  <2>5. f[0] = 0
    BY <2>1, <2>3 DEF IsWeight
  <2>6. IsWeight(b, f, N + 1)
    BY <2>4, <2>5 DEF IsWeight
  <2>7. QED
    BY <2>3, <2>6
<1>3. QED
  <2> HIDE DEF Has
  <2>1. \A N \in Nat : N \in Has
    BY <1>1, <1>2, SetInduction
  <2>2. QED
    BY <2>1 DEF Has

\* The weight of a few bytes.
LEMMA WeightOf ==
  ASSUME NEW b, NEW N \in Nat, NEW e \in [0..N -> Nat], IsWeight(b, e, N),
         NEW q \in Nat
  PROVE  /\ q + 1 <= N => e[q + 1] = e[q] + (IF Heavy(b, q + 1) THEN 2 ELSE 1)
         /\ q + 2 <= N => e[q + 2] = e[q] + (IF Heavy(b, q + 1) THEN 2 ELSE 1)
                                          + (IF Heavy(b, q + 2) THEN 2 ELSE 1)
         /\ q + 3 <= N => e[q + 3] = e[q] + (IF Heavy(b, q + 1) THEN 2 ELSE 1)
                                          + (IF Heavy(b, q + 2) THEN 2 ELSE 1)
                                          + (IF Heavy(b, q + 3) THEN 2 ELSE 1)
<1>1. ASSUME NEW p \in Nat, p + 1 <= N
      PROVE  e[p + 1] = e[p] + (IF Heavy(b, p + 1) THEN 2 ELSE 1)
  <2>1. p \in 0..(N - 1)
    BY <1>1
  <2>2. QED
    BY <2>1 DEF IsWeight
<1>2. (q + 1) + 1 = q + 2 /\ (q + 2) + 1 = q + 3
  OBVIOUS
<1>3. q + 2 <= N => e[q + 2] = e[q + 1] + (IF Heavy(b, q + 2) THEN 2 ELSE 1)
  BY <1>1, <1>2
<1>4. q + 3 <= N => e[q + 3] = e[q + 2] + (IF Heavy(b, q + 3) THEN 2 ELSE 1)
  BY <1>1, <1>2
<1>5. q + 2 <= N => q + 1 <= N
  OBVIOUS
<1>6. q + 3 <= N => q + 2 <= N
  OBVIOUS
<1>7. QED
  BY <1>1, <1>3, <1>4, <1>5, <1>6
-----------------------------------------------------------------------------
(* The units in the result.                                                *)

\* A unit of a block that is taken for ASCII, which is none.
Truncated(n) == InAscii(n) /\ W(n) >= 128

LEMMA TextIs ==
  ASSUME TypeOK
  PROVE  /\ Text \in Seq(Unit) /\ Text \in Seq(Int) /\ Len(Text) = Len(utf16)
         /\ \A n \in 0..(Len(utf16) - 1) : Text[n + 1] = W(n)
<1>1. PICK N \in Nat : N = Len(utf16)
  BY LenProperties DEF TypeOK
<1>2. ASSUME NEW n \in 1..N PROVE W(n - 1) \in Unit
  <2>1. n - 1 \in 0..(N - 1)
    OBVIOUS
  <2>2. QED
    BY <1>1, <2>1, UnitType
<1>3. Text \in [1..N -> Unit]
  BY <1>1, <1>2 DEF Text
<1>4. Text \in Seq(Unit) /\ Len(Text) = N
  BY <1>3, SeqDef, LenProperties
<1>5. Unit \subseteq Int
  BY UnitIs
<1>6. Text \in Seq(Int)
  BY <1>4, <1>5, SeqMonotonic
<1>7. ASSUME NEW n \in 0..(N - 1) PROVE Text[n + 1] = W(n)
  <2>1. n + 1 \in 1..N /\ (n + 1) - 1 = n
    OBVIOUS
  <2>2. QED
    BY <1>1, <2>1 DEF Text
<1>8. QED
  BY <1>1, <1>4, <1>6, <1>7

\* What the comparison takes for ASCII.
LEMMA AsciiUnit ==
  ASSUME TypeOK, NEW n \in 0..(Len(utf16) - 1), InAscii(n)
  PROVE  W(n) <= 128 \/ W(n) >= 32768
<1>1. PICK b \in Nat : Lanes * b <= n /\ n < Lanes * b + Lanes /\ LooksAscii(Lanes * b)
  BY DEF InAscii
<1>2. PICK x \in Int : x = Lanes * b
  BY BufferAssumption
<1>3. n \in x..(x + Lanes - 1)
  BY <1>1, <1>2, BufferAssumption
<1>4. Signed(W(n)) <= 128
  BY <1>1, <1>2, <1>3 DEF LooksAscii
<1>5. W(n) \in Unit
  BY UnitType
<1>6. QED
  BY <1>4, <1>5, UnitIs, SMT DEF Signed

Before(x, s) == <<x>> \o s

LEMMA BeforeInjective ==
  ASSUME NEW x \in Int, NEW y \in Int, NEW s \in Seq(Int), NEW t \in Seq(Int),
         Before(x, s) = Before(y, t)
  PROVE  x = y /\ s = t
<1>0. <<x>> \o s = <<y>> \o t
  BY DEF Before
<1>1. /\ Len(<<x>> \o s) = 1 + Len(s) /\ (<<x>> \o s)[1] = x
      /\ \A n \in 1..Len(s) : (<<x>> \o s)[1 + n] = s[n]
  OBVIOUS
<1>2. /\ Len(<<y>> \o t) = 1 + Len(t) /\ (<<y>> \o t)[1] = y
      /\ \A n \in 1..Len(t) : (<<y>> \o t)[1 + n] = t[n]
  OBVIOUS
<1>3. Len(s) \in Nat /\ Len(t) \in Nat
  BY LenProperties
<1>4. x = y
  BY <1>0, <1>1, <1>2
<1>5. Len(s) = Len(t)
  BY <1>0, <1>1, <1>2, <1>3
<1>6. \A n \in 1..Len(s) : s[n] = t[n]
  BY <1>0, <1>1, <1>2, <1>5
<1>7. QED
  BY <1>4, <1>5, <1>6, SeqEqual

\* The rest of a sequence.
LEMMA RestOf ==
  ASSUME NEW s \in Seq(Int), NEW n \in 1..Len(s)
  PROVE  /\ SubSeq(s, n, Len(s)) = <<s[n]>> \o SubSeq(s, n + 1, Len(s))
         /\ SubSeq(s, n + 1, Len(s)) \in Seq(Int) /\ s[n] \in Int
<1>1. PICK N \in Nat : N = Len(s)
  BY LenProperties
<1>2. \A l \in 1..N : s[l] \in Int
  BY <1>1, ElementOfSeq
<1>3. \A l \in (n + 1)..N : s[l] \in Int
  <2>1. \A l \in (n + 1)..N : l \in 1..N
    OBVIOUS
  <2>2. QED
    BY <1>2, <2>1
<1>4. SubSeq(s, n + 1, N) \in Seq(Int)
  BY <1>3, SubSeqProperties
<1>5. SubSeq(s, n, N) = <<s[n]>> \o SubSeq(s, n + 1, N)
  BY <1>1, SubSeqRecursiveFirst
<1>6. QED
  BY <1>1, <1>2, <1>4, <1>5

LEMMA AsciiByte ==
  ASSUME NEW w \in Unit, ~(w >= 128)
  PROVE  EncodeUnit(w) = <<w % 256>>
<1>1. w \in 0..127
  BY UnitIs
<1>2. w % 256 = w
  BY <1>1
<1>3. EncodeUnit(w) = <<w>>
  BY <1>1 DEF EncodeUnit
<1>4. QED
  BY <1>2, <1>3

\* Where all is in place, each unit is taken from its own bytes.
LEMMA UnitsComeBack ==
  ASSUME Inv, Layout, pc = "done", \A n \in 0..(Len(utf16) - 1) : ~Truncated(n)
  PROVE  UnitsIn(utf8) = Text
<1>1. PICK L \in Nat, N \in Nat, b \in Seq(0..255) :
        L = Len(utf16) /\ b = utf8 /\ N = Len(b)
  <2>1. utf8 \in Seq(0..255) /\ Len(utf8) \in Nat /\ Len(utf16) \in Nat
    BY LenProperties DEF Inv, TypeOK
  <2>2. QED
    BY <2>1
<1>2. PICK c \in [0..L -> Nat] : IsLayout(Pieces, c, L, b)
  BY <1>1 DEF Layout, LaidOut
<1>3. /\ Text \in Seq(Int) /\ Len(Text) = L
      /\ \A n \in 0..(L - 1) : Text[n + 1] = W(n) /\ W(n) \in Unit
  BY <1>1, TextIs, PiecesType DEF Inv
<1>4. ASSUME NEW n \in 0..(L - 1) PROVE Pieces[n] = EncodeUnit(W(n))
  <2>1. W(n) \in Unit
    BY <1>3
  <2>2. /\ InAscii(n) => Pieces[n] = <<W(n) % 256>>
        /\ ~InAscii(n) => Pieces[n] = EncodeUnit(W(n))
    BY <1>1, PiecesType DEF Inv
  <2>3. CASE InAscii(n)
    <3>1. ~(W(n) >= 128)
      BY <1>1, <2>3 DEF Truncated
    <3>2. EncodeUnit(W(n)) = <<W(n) % 256>>
      BY <2>1, <3>1, AsciiByte
    <3>3. QED
      BY <2>2, <2>3, <3>2
  <2>4. QED
    BY <2>2, <2>3
<1> DEFINE f == Taker(b)
           Rest(n) == SubSeq(Text, n + 1, L)
<1>5. \A n \in Places(b) : f[n] = TakeFrom(b, f, n) /\ f[n] \in Seq(Int)
  BY TakerExists
<1>6. Places(b) = 1..(N + 1)
  BY <1>1 DEF Places
<1> HIDE DEF f
<1> DEFINE Back == {m \in Nat : m <= L => f[c[L - m] + 1] = Rest(L - m)}
<1>7. 0 \in Back
  <2>1. c[L] = N /\ N + 1 \in Places(b) /\ L - 0 = L
    BY <1>1, <1>2, <1>6 DEF IsLayout
  <2>2. f[N + 1] = <<>>
    <3>1. N + 1 > Len(b)
      BY <1>1
    <3>2. QED
      BY <1>5, <2>1, <3>1 DEF TakeFrom
  <2>3. Rest(L) = <<>>
    BY SubSeqEmpty
  <2>4. QED
    BY <2>1, <2>2, <2>3
<1>8. ASSUME NEW m \in Nat, m \in Back PROVE m + 1 \in Back
  <2>1. SUFFICES ASSUME m + 1 <= L PROVE f[c[L - (m + 1)] + 1] = Rest(L - (m + 1))
    OBVIOUS
  <2>2. PICK n \in 0..(L - 1) : n = L - (m + 1) /\ n + 1 = L - m
    <3>1. L - (m + 1) \in 0..(L - 1) /\ (L - (m + 1)) + 1 = L - m
      BY <2>1
    <3>2. QED
      BY <3>1
  <2>3. PICK p \in Nat, w \in Unit, t \in Seq(0..255) :
          p = c[n] /\ w = W(n) /\ t = EncodeUnit(w)
    <3>1. n \in 0..L
      OBVIOUS
    <3>2. c[n] \in Nat /\ W(n) \in Unit /\ EncodeUnit(W(n)) \in Seq(0..255)
      BY <1>3, <3>1, EncodeUnitType
    <3>3. QED
      BY <3>2
  <2>4. /\ c[n + 1] = p + Len(t) /\ p + Len(t) <= Len(b)
        /\ \A k \in 1..Len(t) : b[p + k] = t[k]
    <3>1. Pieces[n] = t
      BY <1>4, <2>3
    <3>2. /\ c[n + 1] = c[n] + Len(Pieces[n]) /\ c[n + 1] <= Len(b)
          /\ \A k \in 1..Len(Pieces[n]) : b[c[n] + k] = Pieces[n][k]
      BY <1>2 DEF IsLayout
    <3>3. QED
      BY <2>3, <3>1, <3>2
  <2>5. Goes(b, p + 1) /\ After(b, p + 1) = (p + Len(t)) + 1 /\ Taken(b, p + 1) = w
    <3>1. t = EncodeUnit(w)
      BY <2>3
    <3>2. p + Len(t) <= Len(b) /\ \A k \in 1..Len(t) : b[p + k] = t[k]
      BY <2>4
    <3>3. QED
      BY <3>1, <3>2, UnitIsTaken
  <2>6. f[(p + Len(t)) + 1] = Rest(n + 1)
    <3>1. m <= L
      BY <2>1
    <3>2. QED
      BY <1>8, <2>2, <2>4, <3>1
  <2>7. f[p + 1] = <<w>> \o f[(p + Len(t)) + 1]
    <3>1. PICK k \in 1..3 : k = Len(t)
      BY <2>3, EncodeUnitType
    <3>2. p + 1 \in 1..N
      <4>1. p + k <= N
        BY <1>1, <2>4, <3>1
      <4>2. QED
        BY <4>1
    <3>3. p + 1 \in Places(b) /\ ~(p + 1 > Len(b))
      BY <1>1, <1>6, <3>2
    <3>4. QED
      BY <1>5, <2>5, <3>3 DEF TakeFrom
  <2>8. Rest(n) = <<w>> \o Rest(n + 1)
    <3>1. n + 1 \in 1..L
      OBVIOUS
    <3>2. SubSeq(Text, n + 1, L) = <<Text[n + 1]>> \o SubSeq(Text, (n + 1) + 1, L)
      BY <1>3, <3>1, RestOf
    <3>3. QED
      BY <1>3, <2>3, <3>2
  <2>9. QED
    BY <2>2, <2>3, <2>6, <2>7, <2>8
<1>9. L \in Back
  <2> HIDE DEF Back
  <2>1. QED
    BY <1>7, <1>8, SetInduction
<1>10. f[1] = Text
  <2>1. f[c[0] + 1] = Rest(0)
    BY <1>9
  <2>2. c[0] = 0 /\ Rest(0) = Text
    BY <1>2, <1>3, SubSeqFull DEF IsLayout
  <2>3. QED
    BY <2>1, <2>2
<1>11. QED
  BY <1>1, <1>10, UnitsInIsTaker DEF f
\* Where the units come back, all is in place: the bytes of what is taken for a
\* unit are at least as heavy as those that were written for it, and heavier if
\* it was truncated; all the bytes weigh what they weigh.
LEMMA NothingTruncated ==
  ASSUME Inv, Layout, pc = "done", UnitsIn(utf8) = Text
  PROVE  \A n \in 0..(Len(utf16) - 1) : ~Truncated(n)
<1>1. PICK L \in Nat, N \in Nat, b \in Seq(0..255) :
        L = Len(utf16) /\ b = utf8 /\ N = Len(b)
  <2>1. utf8 \in Seq(0..255) /\ Len(utf8) \in Nat /\ Len(utf16) \in Nat
    BY LenProperties DEF Inv, TypeOK
  <2>2. QED
    BY <2>1
<1>2. PICK c \in [0..L -> Nat] : IsLayout(Pieces, c, L, b)
  BY <1>1 DEF Layout, LaidOut
<1>3. /\ Text \in Seq(Int) /\ Len(Text) = L
      /\ \A n \in 0..(L - 1) : Text[n + 1] = W(n) /\ W(n) \in Unit
  BY <1>1, TextIs, PiecesType DEF Inv
<1>4. PICK e \in [0..N -> Nat] : IsWeight(b, e, N)
  BY WeightExists
<1> DEFINE f == Taker(b)
           Rest(n) == SubSeq(Text, n + 1, L)
           Any(n) == IF \E m \in 0..(n - 1) : Truncated(m) THEN 1 ELSE 0
<1>5. \A n \in Places(b) : f[n] = TakeFrom(b, f, n) /\ f[n] \in Seq(Int)
  BY TakerExists
<1>6. Places(b) = 1..(N + 1)
  BY <1>1 DEF Places
<1>7. f[1] = Text
  BY <1>1, UnitsInIsTaker
<1> HIDE DEF f
<1> DEFINE Wrote(n, g) ==
             /\ c[n] \in 0..N /\ e[c[n + 1]] = e[c[n]] + g
             /\ Truncated(n) => g = 1 \/ (g = 2 /\ W(n) >= 32768)
             /\ ~Truncated(n) => g = 1 \/ (g = 2 /\ W(n) >= 128) \/ (g = 3 /\ W(n) >= 2048)
           Took(n, q, r, h) ==
             /\ f[r + 1] = Rest(n + 1) /\ e[r] = e[q] + h /\ h >= 1
             /\ W(n) >= 128 => h >= 2
             /\ W(n) >= 2048 => h >= 3
\* What is written for one unit.
<1>8. ASSUME NEW n \in 0..(L - 1)
      PROVE  \E g \in 1..3 : Wrote(n, g)
  <2>1. PICK p \in Nat, w \in Unit, t \in Seq(0..255) :
          p = c[n] /\ w = W(n) /\ t = Pieces[n] /\ n \in 0..L
    <3>1. n \in 0..L
      OBVIOUS
    <3>2. c[n] \in Nat /\ W(n) \in Unit
      BY <1>3, <3>1
    <3>3. Pieces[n] \in Seq(0..255)
      <4>1. n \in 0..(Len(utf16) - 1)
        BY <1>1
      <4>2. QED
        BY <4>1, PiecesType DEF Inv
    <3>4. QED
      BY <3>1, <3>2, <3>3
  <2>2. /\ c[n + 1] = p + Len(t) /\ p + Len(t) <= N
        /\ \A k \in 1..Len(t) : b[p + k] = t[k]
    <3>1. /\ c[n + 1] = c[n] + Len(Pieces[n]) /\ c[n + 1] <= Len(b)
          /\ \A k \in 1..Len(Pieces[n]) : b[c[n] + k] = Pieces[n][k]
      BY <1>2 DEF IsLayout
    <3>2. QED
      BY <1>1, <2>1, <3>1
  <2>3. /\ InAscii(n) => t = <<w % 256>> /\ (w <= 128 \/ w >= 32768)
        /\ ~InAscii(n) => t = EncodeUnit(w)
    <3>1. n \in 0..(Len(utf16) - 1)
      BY <1>1
    <3>2. /\ InAscii(n) => Pieces[n] = <<W(n) % 256>>
          /\ ~InAscii(n) => Pieces[n] = EncodeUnit(W(n))
      BY <3>1, PiecesType DEF Inv
    <3>3. InAscii(n) => W(n) <= 128 \/ W(n) >= 32768
      BY <3>1, AsciiUnit DEF Inv
    <3>4. QED
      BY <2>1, <3>2, <3>3
  <2>4. Truncated(n) <=> InAscii(n) /\ w >= 128
    BY <2>1 DEF Truncated
  <2> DEFINE Weight(q) == IF Heavy(b, q) THEN 2 ELSE 1
  <2>5. /\ p + 1 <= N => e[p + 1] = e[p] + Weight(p + 1)
        /\ p + 2 <= N => e[p + 2] = e[p] + Weight(p + 1) + Weight(p + 2)
        /\ p + 3 <= N => e[p + 3] = e[p] + Weight(p + 1) + Weight(p + 2) + Weight(p + 3)
    BY <1>4, WeightOf
  <2> HIDE DEF Weight
  <2>6. \A q : /\ b[q] # 223 => Weight(q) = 1
               /\ ~(b[q + 1] >= 192) => Weight(q) = 1
               /\ Weight(q) = 1 \/ (Weight(q) = 2 /\ b[q] = 223)
    BY DEF Weight, Heavy
  <2>7. CASE Truncated(n)
    <3>1. t = <<w % 256>> /\ w >= 128 /\ (w <= 128 \/ w >= 32768)
      BY <2>3, <2>4, <2>7
    <3>2. Len(t) = 1 /\ t[1] = w % 256
      BY <3>1
    <3>3. c[n + 1] = p + 1 /\ p + 1 <= N /\ b[p + 1] = w % 256
      BY <2>2, <3>2
    <3>4. PICK g \in 1..2 : g = Weight(p + 1) /\ (g = 2 => b[p + 1] = 223)
      BY <2>6
    <3>5. g = 2 => w >= 32768
      <4>1. SUFFICES ASSUME g = 2, w <= 128 PROVE FALSE
        BY <3>1
      <4>2. w = 128
        BY <3>1, <4>1, UnitIs
      <4>3. w % 256 = 128
        BY <4>2
      <4>4. QED
        BY <3>3, <3>4, <4>1, <4>3
    <3>6. e[c[n + 1]] = e[p] + g /\ p \in 0..N
      BY <2>5, <3>3, <3>4
    <3>7. Wrote(n, g)
      BY <2>1, <2>7, <3>4, <3>5, <3>6
    <3> HIDE DEF Wrote
    <3>8. QED
      BY <3>7
  <2>8. CASE ~Truncated(n)
    <3>1. t = EncodeUnit(w)
      <4>1. CASE InAscii(n)
        BY <2>3, <2>4, <2>8, <4>1, AsciiByte
      <4>2. QED
        BY <2>3, <4>1
    <3>2. \A g \in 1..3 : /\ e[c[n + 1]] = e[p] + g /\ p \in 0..N
                          /\ g = 1 \/ (g = 2 /\ w >= 128) \/ (g = 3 /\ w >= 2048)
                          => Wrote(n, g)
      BY <2>1, <2>8
    <3> HIDE DEF Wrote
    <3>3. CASE Single(w, t)
      <4>1. Len(t) = 1 /\ t[1] = w /\ w < 128
        BY <3>3 DEF Single
      <4>2. c[n + 1] = p + 1 /\ p + 1 <= N /\ b[p + 1] # 223
        BY <2>2, <4>1
      <4>3. Weight(p + 1) = 1
        BY <2>6, <4>2
      <4>4. e[c[n + 1]] = e[p] + 1 /\ p \in 0..N
        BY <2>5, <4>2, <4>3
      <4>5. QED
        BY <3>2, <4>4
    <3>4. CASE Double(w, t)
      <4>1. Len(t) = 2 /\ t[2] - 128 \in 0..63 /\ w >= 128
        BY <3>4 DEF Double
      <4>2. c[n + 1] = p + 2 /\ p + 2 <= N /\ b[p + 2] = t[2]
        BY <2>2, <4>1
      <4>3. b[p + 2] # 223 /\ ~(b[(p + 1) + 1] >= 192)
        <5>1. PICK y \in Int : y = t[2] /\ y - 128 \in 0..63
          <6>1. t \in Seq(0..255)
            BY <3>1, EncodeUnitType
          <6>2. 2 \in 1..Len(t)
            BY <4>1
          <6>3. t[2] \in 0..255
            BY <6>1, <6>2, ElementOfSeq
          <6>4. t[2] \in Int
            BY <6>3, ByteIs
          <6>5. QED
            BY <4>1, <6>4
        <5>2. y # 223 /\ ~(y >= 192)
          BY <5>1, NotDF
        <5>3. (p + 1) + 1 = p + 2
          OBVIOUS
        <5>4. QED
          BY <4>2, <5>1, <5>2, <5>3
      <4>4. Weight(p + 1) = 1 /\ Weight(p + 2) = 1
        BY <2>6, <4>3
      <4>5. e[c[n + 1]] = e[p] + 2 /\ p \in 0..N
        <5>1. e[p + 2] = e[p] + Weight(p + 1) + Weight(p + 2)
          BY <2>5, <4>2
        <5>2. p \in 0..N
          BY <4>2
        <5>3. PICK x \in Nat : x = e[p]
          BY <1>4, <5>2
        <5>4. e[p + 2] = x + 1 + 1
          BY <4>4, <5>1, <5>3
        <5>5. x + 1 + 1 = x + 2
          OBVIOUS
        <5>6. e[c[n + 1]] = x + 2
          BY <4>2, <5>4, <5>5
        <5>7. QED
          BY <5>2, <5>3, <5>6
      <4>6. QED
        BY <3>2, <4>1, <4>5
    <3>5. CASE Triple(w, t)
      <4>1. /\ Len(t) = 3 /\ t[1] \in 224..239 /\ t[2] - 128 \in 0..63
            /\ t[3] - 128 \in 0..63 /\ w >= 2048
        BY <3>5 DEF Triple
      <4>0. t[1] # 223 /\ t[2] # 223 /\ t[3] # 223
        <5>1. t \in Seq(0..255)
          BY <3>1, EncodeUnitType
        <5>2. 1 \in 1..Len(t) /\ 2 \in 1..Len(t) /\ 3 \in 1..Len(t)
          BY <4>1
        <5>3. t[1] \in 0..255 /\ t[2] \in 0..255 /\ t[3] \in 0..255
          <6>1. \A k \in 1..Len(t) : t[k] \in 0..255
            BY <5>1, ElementOfSeq
          <6>2. QED
            BY <5>2, <6>1
        <5>4. PICK x \in Int, y \in Int, z \in Int : x = t[1] /\ y = t[2] /\ z = t[3]
          BY <5>3, ByteIs
        <5>5. x \in 224..239 /\ y - 128 \in 0..63 /\ z - 128 \in 0..63
          BY <4>1, <5>4
        <5>6. x # 223 /\ y # 223 /\ z # 223
          BY <5>5, NotDF
        <5>7. QED
          BY <5>4, <5>6
      <4>2. /\ c[n + 1] = p + 3 /\ p + 3 <= N
            /\ b[p + 1] = t[1] /\ b[p + 2] = t[2] /\ b[p + 3] = t[3]
        BY <2>2, <4>1
      <4>3. b[p + 1] # 223 /\ b[p + 2] # 223 /\ b[p + 3] # 223
        BY <4>0, <4>2
      <4>4. Weight(p + 1) = 1 /\ Weight(p + 2) = 1 /\ Weight(p + 3) = 1
        BY <2>6, <4>3
      <4>5. e[c[n + 1]] = e[p] + 3 /\ p \in 0..N
        <5>1. e[p + 3] = e[p] + Weight(p + 1) + Weight(p + 2) + Weight(p + 3)
          BY <2>5, <4>2
        <5>2. p \in 0..N
          BY <4>2
        <5>3. PICK x \in Nat : x = e[p]
          BY <1>4, <5>2
        <5>4. e[p + 3] = x + 1 + 1 + 1
          BY <4>4, <5>1, <5>3
        <5>5. x + 1 + 1 + 1 = x + 3
          OBVIOUS
        <5>6. e[c[n + 1]] = x + 3
          BY <4>2, <5>4, <5>5
        <5>7. QED
          BY <5>2, <5>3, <5>6
      <4>6. QED
        BY <3>2, <4>1, <4>5
    <3>6. QED
      BY <3>1, <3>3, <3>4, <3>5, UnitShape
  <2>9. QED
    BY <2>7, <2>8
\* What is taken for one unit.
<1>9. ASSUME NEW n \in 0..(L - 1), NEW q \in 0..N, f[q + 1] = Rest(n)
      PROVE  \E r \in 0..N, h \in Nat : Took(n, q, r, h)
  <2>1. PICK w \in Unit, s \in Seq(Int) :
          w = W(n) /\ s = Rest(n + 1) /\ Rest(n) = <<w>> \o s
    <3>1. n + 1 \in 1..L /\ (n + 1) + 1 = n + 2
      OBVIOUS
    <3>2. /\ SubSeq(Text, n + 1, L) = <<Text[n + 1]>> \o SubSeq(Text, (n + 1) + 1, L)
          /\ SubSeq(Text, (n + 1) + 1, L) \in Seq(Int)
      BY <1>3, <3>1, RestOf
    <3>3. Text[n + 1] = W(n) /\ W(n) \in Unit
      BY <1>3
    <3>4. QED
      BY <3>2, <3>3
  <2> HIDE DEF Rest
  <2>2. Len(f[q + 1]) = 1 + Len(s) /\ Len(s) \in Nat /\ f[q + 1][1] = w
    BY <1>9, <2>1, LenProperties
  <2>3. q + 1 \in Places(b) /\ f[q + 1] = TakeFrom(b, f, q + 1)
    <3>1. q + 1 \in 1..(N + 1)
      OBVIOUS
    <3>2. QED
      BY <1>5, <1>6, <3>1
  <2>4. ~(q + 1 > Len(b))
    <3>1. SUFFICES ASSUME q + 1 > Len(b) PROVE FALSE
      OBVIOUS
    <3>2. f[q + 1] = <<>>
      BY <2>3, <3>1 DEF TakeFrom
    <3>3. Len(<<>>) = 0
      OBVIOUS
    <3>4. QED
      BY <2>2, <3>2, <3>3
  <2>5. q + 1 \in 1..Len(b) /\ q \in Nat
    BY <1>1, <2>4
  <2>6. Goes(b, q + 1)
    <3>1. SUFFICES ASSUME ~Goes(b, q + 1) PROVE FALSE
      OBVIOUS
    <3>2. f[q + 1] = <<Invalid>>
      BY <2>3, <2>4, <3>1 DEF TakeFrom
    <3>3. w = Invalid
      BY <2>2, <3>2
    <3>4. QED
      BY <3>3, UnitIs DEF Invalid
  <2>7. After(b, q + 1) \in ((q + 1) + 1)..(Len(b) + 1) /\ Taken(b, q + 1) \in Int
    BY <2>5, <2>6, TakenType
  <2>8. PICK k \in 1..3 : k = SequenceLength(b[q + 1]) /\ After(b, q + 1) = (q + 1) + k
    BY <2>6 DEF Goes, After
  <2>9. (q + k) + 1 = (q + 1) + k /\ q + k <= N /\ q + k \in 0..N
    BY <1>1, <2>7, <2>8
  <2>10. w = Taken(b, q + 1) /\ f[(q + k) + 1] = s
    <3>1. f[(q + k) + 1] \in Seq(Int)
      <4>1. (q + k) + 1 \in 1..(N + 1)
        BY <2>9
      <4>2. QED
        BY <1>5, <1>6, <4>1
    <3>2. f[q + 1] = <<Taken(b, q + 1)>> \o f[(q + k) + 1]
      BY <2>3, <2>4, <2>6, <2>8, <2>9 DEF TakeFrom
    <3>3. w \in Int
      BY UnitIs
    <3>4. <<Taken(b, q + 1)>> \o f[(q + k) + 1] = <<w>> \o s
      BY <1>9, <2>1, <3>2
    <3>5. Taken(b, q + 1) = w /\ f[(q + k) + 1] = s
      <4>1. PICK x \in Int, g \in Seq(Int) : x = Taken(b, q + 1) /\ g = f[(q + k) + 1]
        BY <2>7, <3>1
      <4>2. PICK v \in Int : v = w
        BY <3>3
      <4>3. Before(x, g) = Before(v, s)
        BY <3>4, <4>1, <4>2 DEF Before
      <4>4. x = v /\ g = s
        BY <4>3, BeforeInjective
      <4>5. QED
        BY <4>1, <4>2, <4>4
    <3>6. QED
      BY <3>5
  <2>11. /\ w >= 128 => k >= 2
         /\ w >= 2048 => k = 3 \/ (b[q + 1] = 223 /\ (q + 1) + 1 <= Len(b)
                                    /\ b[(q + 1) + 1] >= 192)
    <3>1. q + 1 \in 1..Len(b) /\ Goes(b, q + 1) /\ w = Taken(b, q + 1)
      BY <2>5, <2>6, <2>10
    <3>2. k = SequenceLength(b[q + 1])
      BY <2>8
    <3>3. QED
      BY <3>1, <3>2, TakenBound
  <2> DEFINE Weight(p) == IF Heavy(b, p) THEN 2 ELSE 1
  <2>12. /\ q + 1 <= N => e[q + 1] = e[q] + Weight(q + 1)
         /\ q + 2 <= N => e[q + 2] = e[q] + Weight(q + 1) + Weight(q + 2)
         /\ q + 3 <= N => e[q + 3] = e[q] + Weight(q + 1) + Weight(q + 2) + Weight(q + 3)
    BY <1>4, <2>5, WeightOf
  <2>13. b[q + 1] = 223 /\ (q + 1) + 1 <= Len(b) /\ b[(q + 1) + 1] >= 192 => Weight(q + 1) = 2
    BY DEF Heavy
  <2>14. \A p : Weight(p) \in 1..2
    OBVIOUS
  <2> HIDE DEF Weight
  <2>15. PICK h \in Nat : /\ e[q + k] = e[q] + h /\ h >= k
                          /\ k = 2 /\ Weight(q + 1) = 2 => h >= 3
    <3>1. PICK x \in Nat, g1 \in 1..2, g2 \in 1..2, g3 \in 1..2 :
            x = e[q] /\ g1 = Weight(q + 1) /\ g2 = Weight(q + 2) /\ g3 = Weight(q + 3)
      BY <1>4, <2>14
    <3>2. CASE k = 1
      <4>1. e[q + k] = x + g1 /\ g1 >= k
        <5>1. q + 1 <= N
          BY <2>9, <3>2
        <5>2. e[q + 1] = e[q] + Weight(q + 1)
          BY <2>12, <5>1
        <5>3. e[q + 1] = x + g1 /\ g1 >= 1
          <6>1. g1 >= 1
            OBVIOUS
          <6>2. x = e[q] /\ g1 = Weight(q + 1)
            BY <3>1
          <6>3. QED
            BY <5>2, <6>1, <6>2
        <5>4. QED
          BY <3>2, <5>3
      <4>2. QED
        BY <3>1, <3>2, <4>1
    <3>3. CASE k = 2
      <4>1. e[q + k] = x + (g1 + g2) /\ g1 + g2 >= k /\ (g1 = 2 => g1 + g2 >= 3)
        <5>1. q + 2 <= N
          BY <2>9, <3>3
        <5>2. e[q + 2] = e[q] + Weight(q + 1) + Weight(q + 2)
          BY <2>12, <5>1
        <5>3. e[q + 2] = x + g1 + g2
          BY <3>1, <5>2
        <5>4. QED
          BY <3>3, <5>3
      <4>2. g1 + g2 \in Nat
        OBVIOUS
      <4>3. Weight(q + 1) = 2 => g1 + g2 >= 3
        <5>1. g1 = Weight(q + 1)
          BY <3>1
        <5>2. QED
          BY <4>1, <5>1
      <4>4. QED
        BY <3>1, <4>1, <4>2, <4>3
    <3>4. CASE k = 3
      <4>1. e[q + k] = x + (g1 + g2 + g3) /\ g1 + g2 + g3 >= k
        <5>1. q + 3 <= N
          BY <2>9, <3>4
        <5>2. e[q + 3] = e[q] + Weight(q + 1) + Weight(q + 2) + Weight(q + 3)
          BY <2>12, <5>1
        <5>3. e[q + 3] = x + g1 + g2 + g3
          BY <3>1, <5>2
        <5>4. QED
          BY <3>4, <5>3
      <4>2. g1 + g2 + g3 \in Nat /\ k # 2
        BY <3>4
      <4>3. QED
        BY <3>1, <4>1, <4>2
    <3>5. QED
      BY <3>2, <3>3, <3>4
  <2>16. h >= 1 /\ (w >= 128 => h >= 2) /\ (w >= 2048 => h >= 3)
    <3>1. w >= 2048 => w >= 128
      BY UnitIs
    <3>2. w >= 128 => k >= 2
      BY <2>11
    <3>3. w >= 2048 => k = 3 \/ Weight(q + 1) = 2
      BY <2>11, <2>13
    <3>4. h >= k /\ (k = 2 /\ Weight(q + 1) = 2 => h >= 3)
      BY <2>15
    <3>5. QED
      BY <3>1, <3>2, <3>3, <3>4
  <2>17. Took(n, q, q + k, h)
    BY <2>1, <2>10, <2>15, <2>16
  <2> HIDE DEF Took
  <2>18. QED
    BY <2>9, <2>17
<1> DEFINE Heavier == {n \in Nat : n <= L =>
                         \E q \in 0..N : f[q + 1] = Rest(n) /\ e[q] >= e[c[n]] + Any(n)}
<1>10. 0 \in Heavier
  <2>1. c[0] = 0 /\ e[0] = 0
    BY <1>2, <1>4 DEF IsLayout, IsWeight
  <2>2. Any(0) = 0
    BY DEF Any
  <2>3. Rest(0) = Text
    BY <1>3, SubSeqFull
  <2>4. f[0 + 1] = Rest(0) /\ 0 \in 0..N /\ e[0] >= e[c[0]] + Any(0)
    BY <1>7, <2>1, <2>2, <2>3
  <2> HIDE DEF Rest, Any
  <2>5. QED
    BY <2>4
<1>11. ASSUME NEW n \in Nat, n \in Heavier PROVE n + 1 \in Heavier
  <2>1. SUFFICES ASSUME n + 1 <= L
                 PROVE  \E r \in 0..N : f[r + 1] = Rest(n + 1) /\ e[r] >= e[c[n + 1]] + Any(n + 1)
    OBVIOUS
  <2>2. n \in 0..(L - 1) /\ n <= L
    BY <2>1
  <2>3. PICK q \in 0..N : f[q + 1] = Rest(n) /\ e[q] >= e[c[n]] + Any(n)
    BY <1>11, <2>2
  <2>4. PICK g \in 1..3 : Wrote(n, g)
    <3> HIDE DEF Wrote
    <3>1. QED
      BY <1>8, <2>2
  <2>5. PICK r \in 0..N, h \in Nat : Took(n, q, r, h)
    <3> HIDE DEF Took, Rest
    <3>1. QED
      BY <1>9, <2>2, <2>3
  <2>6. PICK x \in Nat, y \in Nat, a \in 0..1, w \in Int :
          x = e[q] /\ y = e[c[n]] /\ a = Any(n) /\ w = W(n)
    <3>1. e[c[n]] \in Nat
      BY <2>4
    <3>2. W(n) \in Int
      BY <1>3, <2>2, UnitIs
    <3>3. Any(n) \in 0..1
      OBVIOUS
    <3> HIDE DEF Any
    <3>4. QED
      BY <3>1, <3>2, <3>3
  <2>7. Any(n + 1) = IF Truncated(n) THEN 1 ELSE a
    <3>1. 0..((n + 1) - 1) = (0..(n - 1)) \cup {n}
      OBVIOUS
    <3>2. QED
      BY <2>6, <3>1
  <2>8. /\ e[c[n + 1]] = y + g
        /\ Truncated(n) => g = 1 \/ (g = 2 /\ w >= 32768)
        /\ ~Truncated(n) => g = 1 \/ (g = 2 /\ w >= 128) \/ (g = 3 /\ w >= 2048)
    BY <2>4, <2>6
  <2>9. /\ f[r + 1] = Rest(n + 1) /\ e[r] = x + h /\ h >= 1
        /\ w >= 128 => h >= 2
        /\ w >= 2048 => h >= 3
    <3> HIDE DEF Rest
    <3>1. QED
      BY <2>5, <2>6
  <2>10. x >= y + a
    <3> HIDE DEF Any
    <3>1. QED
      BY <2>3, <2>6
  <2> HIDE DEF Any, Rest
  <2>11. e[r] >= e[c[n + 1]] + Any(n + 1)
    <3>1. CASE Truncated(n)
      <4>1. w >= 128 /\ (g = 1 \/ (g = 2 /\ w >= 32768))
        BY <2>6, <2>8, <3>1 DEF Truncated
      <4>2. h >= g + 1
        BY <2>9, <4>1
      <4>3. x + h >= (y + g) + 1
        BY <2>10, <4>2
      <4>4. QED
        BY <2>7, <2>8, <2>9, <3>1, <4>3
    <3>2. CASE ~Truncated(n)
      <4>1. g = 1 \/ (g = 2 /\ w >= 128) \/ (g = 3 /\ w >= 2048)
        BY <2>8, <3>2
      <4>2. h >= g
        BY <2>9, <4>1
      <4>3. x + h >= (y + g) + a
        BY <2>10, <4>2
      <4>4. QED
        BY <2>7, <2>8, <2>9, <3>2, <4>3
    <3>3. QED
      BY <3>1, <3>2
  <2>12. QED
    BY <2>9, <2>11
<1>12. L \in Heavier
  <2> HIDE DEF Heavier
  <2>1. QED
    BY <1>10, <1>11, SetInduction
<1>13. PICK q \in 0..N : f[q + 1] = <<>> /\ e[q] >= e[N] + Any(L)
  <2>1. c[L] = N /\ Rest(L) = <<>>
    BY <1>1, <1>2, SubSeqEmpty DEF IsLayout
  <2> HIDE DEF Rest, Any
  <2>2. \E q \in 0..N : f[q + 1] = Rest(L) /\ e[q] >= e[c[L]] + Any(L)
    BY <1>12
  <2>3. QED
    BY <2>1, <2>2
<1>14. q = N
  <2>1. SUFFICES ASSUME q # N PROVE FALSE
    OBVIOUS
  <2>2. q + 1 \in Places(b) /\ ~(q + 1 > Len(b)) /\ q + 1 \in 1..Len(b)
    BY <1>1, <1>6, <2>1
  <2>3. f[q + 1] = TakeFrom(b, f, q + 1)
    BY <1>5, <2>2
  <2>4. CASE Goes(b, q + 1)
    <3>1. After(b, q + 1) \in Places(b) /\ Taken(b, q + 1) \in Int
      <4>1. After(b, q + 1) \in ((q + 1) + 1)..(Len(b) + 1) /\ Taken(b, q + 1) \in Int
        BY <2>2, <2>4, TakenType
      <4>2. QED
        BY <1>1, <1>6, <4>1
    <3>2. PICK x \in Int, s \in Seq(Int) : f[q + 1] = <<x>> \o s
      BY <1>5, <2>2, <2>3, <2>4, <3>1 DEF TakeFrom
    <3>3. Len(<<x>> \o s) = 1 + Len(s) /\ Len(s) \in Nat
      BY LenProperties
    <3>4. <<x>> \o s = <<>>
      BY <1>13, <3>2
    <3>5. Len(<<>>) = 0
      OBVIOUS
    <3>6. QED
      BY <3>3, <3>4, <3>5
  <2>5. CASE ~Goes(b, q + 1)
    <3>1. f[q + 1] = <<Invalid>>
      BY <2>2, <2>3, <2>5 DEF TakeFrom
    <3>2. <<Invalid>> = <<>>
      BY <1>13, <3>1
    <3>3. <<Invalid>> # <<>>
      OBVIOUS
    <3>4. QED
      BY <3>2, <3>3
  <2>6. QED
    BY <2>4, <2>5
<1>15. Any(L) = 0
  <2>1. e[N] \in Nat /\ Any(L) \in 0..1
    BY <1>4
  <2>2. QED
    BY <1>13, <1>14, <2>1
<1>16. QED
  BY <1>1, <1>15
\* What the comparison takes for ASCII, seen from the block.
LEMMA JudgedSigned ==
  /\ \A w \in Unit : w \notin Recognized => Signed(w) <= 128
  /\ \A w \in Unit : Signed(w) <= 128 => w \notin Recognized
<1>1. ASSUME NEW w \in Unit PROVE w \notin Recognized <=> w < 129 \/ 32767 < w
  <2>1. w \in Int
    BY UnitIs
  <2>2. w \in Recognized <=> 129 <= w /\ w <= 32767
    BY <2>1, SMT DEF Recognized
  <2>3. w < 129 \/ 32767 < w <=> ~(129 <= w /\ w <= 32767)
    BY <2>1
  <2>4. QED
    BY <2>2, <2>3
<1>2. ASSUME NEW w \in Unit PROVE Signed(w) <= 128 <=> w < 129 \/ 32767 < w
  BY UnitIs, SMT DEF Signed
<1>3. QED
  BY <1>1, <1>2

\* A block is misjudged exactly if one of its units is truncated.
LEMMA MisjudgedTruncates ==
  ASSUME Inv
  PROVE  NoneMisjudged <=> \A n \in 0..(Len(utf16) - 1) : ~Truncated(n)
<1>1. PICK N \in Nat : N = Len(utf16)
  BY LenProperties DEF Inv, TypeOK
<1>2. ASSUME NEW x \in Nat, x + Lanes <= N
      PROVE  /\ \A l \in x..(x + Lanes - 1) : W(l) \in Unit /\ l \in 0..(N - 1)
             /\ Misjudged(x) <=> LooksAscii(x) /\ \E l \in x..(x + Lanes - 1) : W(l) >= 128
  <2>1. ASSUME NEW l \in x..(x + Lanes - 1) PROVE W(l) \in Unit /\ l \in 0..(N - 1)
    <3>1. l \in 0..(N - 1)
      BY <1>2, BufferAssumption
    <3>2. QED
      BY <1>1, <3>1, UnitType DEF Inv
  <2> DEFINE block == {W(l) : l \in x..(x + Lanes - 1)}
  <2>2. Misjudged(x) <=> (block \cap Recognized = {} /\ \E w \in block : w >= 128)
    BY DEF Misjudged, Recognized
  <2>3. (\E w \in block : w >= 128) <=> \E l \in x..(x + Lanes - 1) : W(l) >= 128
    OBVIOUS
  <2>4. block \cap Recognized = {} <=> \A l \in x..(x + Lanes - 1) : W(l) \notin Recognized
    OBVIOUS
  <2>5. LooksAscii(x) <=> \A l \in x..(x + Lanes - 1) : Signed(W(l)) <= 128
    BY DEF LooksAscii
  <2>6. LooksAscii(x) <=> \A l \in x..(x + Lanes - 1) : W(l) \notin Recognized
    BY <2>1, <2>5, JudgedSigned
  <2> HIDE DEF block
  <2>7. QED
    BY <2>1, <2>2, <2>3, <2>4, <2>6
<1>3. ASSUME NoneMisjudged, NEW n \in 0..(N - 1), Truncated(n) PROVE FALSE
  <2>1. PICK b \in Nat : /\ Lanes * b <= n /\ n < Lanes * b + Lanes
                         /\ Lanes * b + Lanes <= N /\ LooksAscii(Lanes * b) /\ W(n) >= 128
    BY <1>1, <1>3 DEF Truncated, InAscii
  <2>2. PICK x \in Nat : x = Lanes * b /\ b <= x
    <3>1. Lanes * b \in Nat /\ b <= Lanes * b
      BY BufferAssumption
    <3>2. QED
      BY <3>1
  <2>3. n \in x..(x + Lanes - 1) /\ x + Lanes <= N
    BY <2>1, <2>2, BufferAssumption
  <2>4. Misjudged(x)
    BY <1>2, <2>1, <2>2, <2>3
  <2>5. Lanes * (b + 1) = x + Lanes
    BY <2>2, BufferAssumption
  <2>6. b \in 0..N
    BY <2>2, <2>3, BufferAssumption
  <2>7. QED
    BY <1>1, <1>3, <2>2, <2>3, <2>4, <2>5, <2>6 DEF NoneMisjudged
<1>4. ASSUME \A n \in 0..(N - 1) : ~Truncated(n),
             NEW b \in 0..N, Lanes * (b + 1) <= N, Misjudged(Lanes * b)
      PROVE  FALSE
  <2>1. PICK x \in Nat : x = Lanes * b /\ x + Lanes = Lanes * (b + 1)
    <3>1. Lanes * b \in Nat /\ Lanes * b + Lanes = Lanes * (b + 1)
      BY BufferAssumption
    <3>2. QED
      BY <3>1
  <2>2. x + Lanes <= N /\ Misjudged(x)
    BY <1>4, <2>1
  <2>3. PICK l \in x..(x + Lanes - 1) : LooksAscii(x) /\ W(l) >= 128 /\ l \in 0..(N - 1)
    BY <1>2, <2>2
  <2>4. InAscii(l)
    <3>1. x <= l /\ l < x + Lanes /\ b \in Nat
      BY BufferAssumption
    <3>2. QED
      BY <1>1, <2>1, <2>2, <2>3, <3>1 DEF InAscii
  <2>5. QED
    BY <1>4, <2>3, <2>4 DEF Truncated
<1>5. QED
  <2>1. NoneMisjudged => \A n \in 0..(N - 1) : ~Truncated(n)
    BY <1>3
  <2>2. (\A n \in 0..(N - 1) : ~Truncated(n)) => NoneMisjudged
    BY <1>1, <1>4 DEF NoneMisjudged
  <2>3. QED
    BY <1>1, <2>1, <2>2

\* On every string, in either byte order and for every number of lanes, the
\* units come back from the bytes, each as it was and where it was, exactly if
\* no block is misjudged: neither the block nor the buffer nor the tail loses
\* or moves one, and nothing makes up for a unit that the comparison let
\* through as ASCII, not even where its byte and the ones behind it look like
\* a sequence.
THEOREM UnitsComeBackUnlessMisjudged == Spec => []UnitsSurvive
<1>1. Inv /\ Layout => UnitsSurvive
  <2> SUFFICES ASSUME Inv, Layout, pc = "done" PROVE UnitsIn(utf8) = Text <=> NoneMisjudged
    BY DEF UnitsSurvive
  <2>1. NoneMisjudged => UnitsIn(utf8) = Text
    BY MisjudgedTruncates, UnitsComeBack
  <2>2. UnitsIn(utf8) = Text => NoneMisjudged
    BY MisjudgedTruncates, NothingTruncated
  <2>3. QED
    BY <2>1, <2>2
<1>2. QED
  BY <1>1, LayoutHolds, PTL
-----------------------------------------------------------------------------
(* A finished call, for those who compare its result with another's.       *)

\* The result is put together of a piece for each unit; of the units in cut
\* only one byte was kept, the others are all there.
Outcome(p, cut) ==
  /\ LaidOut(p, Len(utf16), utf8)
  /\ \A n \in cut : Len(p[n]) = 1 /\ W(n) >= 128
  /\ \A n \in 0..(Len(utf16) - 1) : n \notin cut => p[n] = EncodeUnit(W(n))

LEMMA OutcomeIs ==
  ASSUME Inv, Layout, pc = "done"
  PROVE  \E p \in [0..(Len(utf16) - 1) -> Seq(0..255)] :
           \E cut \in SUBSET (0..(Len(utf16) - 1)) :
             Outcome(p, cut) /\ (NoneMisjudged <=> cut = {})
<1> DEFINE units == 0..(Len(utf16) - 1)
           cut == {n \in units : Truncated(n)}
<1>1. Pieces \in [units -> Seq(0..255)]
  <2>1. \A n \in units : Pieces[n] \in Seq(0..255)
    BY PiecesType DEF Inv
  <2>2. QED
    BY <2>1 DEF Pieces
<1>2. LaidOut(Pieces, Len(utf16), utf8)
  BY DEF Layout
<1>3. ASSUME NEW n \in cut PROVE Len(Pieces[n]) = 1 /\ W(n) >= 128
  <2>1. Pieces[n] = <<W(n) % 256>> /\ W(n) >= 128
    BY <1>3, PiecesType DEF Inv, Truncated
  <2>2. Len(<<W(n) % 256>>) = 1
    OBVIOUS
  <2>3. QED
    BY <2>1, <2>2
<1>4. ASSUME NEW n \in units, n \notin cut PROVE Pieces[n] = EncodeUnit(W(n))
  <2>1. W(n) \in Unit
    BY UnitType DEF Inv
  <2>2. /\ InAscii(n) => Pieces[n] = <<W(n) % 256>>
        /\ ~InAscii(n) => Pieces[n] = EncodeUnit(W(n))
    BY PiecesType DEF Inv
  <2>3. CASE InAscii(n)
    <3>1. ~(W(n) >= 128)
      BY <1>4, <2>3 DEF Truncated
    <3>2. QED
      BY <2>1, <2>2, <2>3, <3>1, AsciiByte
  <2>4. QED
    BY <2>2, <2>3
<1>5. NoneMisjudged <=> cut = {}
  <2>1. cut = {} <=> \A n \in units : ~Truncated(n)
    OBVIOUS
  <2>2. QED
    BY <2>1, MisjudgedTruncates
<1>6. Outcome(Pieces, cut)
  BY <1>2, <1>3, <1>4 DEF Outcome
<1>7. cut \in SUBSET units
  OBVIOUS
<1> HIDE DEF cut
<1>8. QED
  BY <1>1, <1>5, <1>6, <1>7
=============================================================================
