--------------------------- MODULE Utf16ToUtf8Avx2 ---------------------------
(***************************************************************************)
(* The vector converter of string_utf16_to_utf8/main.cpp: one call of      *)
(* utf16_to_utf8_avx2(utf16, is_little_endian).  A block of Lanes units is *)
(* compared at once, and then written unit by unit to a buffer on the      *)
(* stack that is appended to the result; units that do not fill a block    *)
(* are written to the same buffer and appended together.  The two branches *)
(* for a block that is not ASCII do the same.                              *)
(***************************************************************************)
EXTENDS Utf16

CONSTANTS Strings,   \* the arguments, as they are in memory
          Lanes,     \* 16-bit lanes of a vector: 16
          BufSize    \* the size of buffer: 48

ASSUME StringsAssumption == Strings \subseteq Seq(Unit)
ASSUME BufferAssumption == Lanes \in Nat \ {0} /\ BufSize \in Nat /\ 3 * Lanes <= BufSize

VARIABLES
  utf16, le, i, utf8, pc,
  j,        \* the lane that is written next
  ascii,    \* whether the block was taken for ASCII
  buffer    \* the bytes of buffer that are before output
vars == <<utf16, le, i, utf8, pc, j, ascii, buffer>>

Init ==
  /\ utf16 \in Strings /\ le \in BOOLEAN
  /\ i = 0 /\ utf8 = <<>> /\ pc = "blocks"
  /\ j = 0 /\ ascii = FALSE /\ buffer = <<>>

W(n) == Host(utf16[n + 1], le)    \* unit n, counted from 0

\* _mm256_cmpgt_epi16 compares signed numbers.
Signed(w) == IF w < 32768 THEN w ELSE w - 65536

LooksAsciiBug(n) == TRUE
LooksAscii(n) == \A l \in n..(n + Lanes - 1) : Signed(W(l)) <= \h80

CompareBlock ==
  /\ pc = "blocks" /\ i + Lanes <= Len(utf16)
  /\ ascii' = LooksAscii(i) /\ pc' = "lanes"
  /\ UNCHANGED <<utf16, le, i, utf8, j, buffer>>

\* static_cast<char> keeps the lower byte.
LaneBytes(w) == IF ascii THEN <<w % 256>> ELSE EncodeUnit(w)

WriteLane ==
  /\ pc = "lanes" /\ j < Lanes
  /\ buffer' = buffer \o LaneBytes(W(i + j)) /\ j' = j + 1
  /\ UNCHANGED <<utf16, le, i, utf8, pc, ascii>>

\* output = buffer
ResetBug == buffer
Reset == <<>>

NextBlockBug == i + Lanes + 1
NextBlock == i + Lanes

AppendBlock ==
  /\ pc = "lanes" /\ j = Lanes
  /\ utf8' = utf8 \o buffer /\ buffer' = Reset
  /\ i' = NextBlock /\ j' = 0 /\ pc' = "blocks"
  /\ UNCHANGED <<utf16, le, ascii>>

LeaveBlocks ==
  /\ pc = "blocks" /\ i + Lanes > Len(utf16)
  /\ pc' = "tail" /\ UNCHANGED <<utf16, le, i, utf8, j, ascii, buffer>>

WriteTailUnit ==
  /\ pc = "tail" /\ i < Len(utf16)
  /\ buffer' = buffer \o EncodeUnit(W(i)) /\ i' = i + 1
  /\ UNCHANGED <<utf16, le, utf8, pc, j, ascii>>

Return ==
  /\ pc = "tail" /\ i >= Len(utf16)
  /\ utf8' = utf8 \o buffer /\ pc' = "done"
  /\ UNCHANGED <<utf16, le, i, j, ascii, buffer>>

Next ==
  \/ CompareBlock \/ WriteLane \/ AppendBlock \/ LeaveBlocks
  \/ WriteTailUnit \/ Return

Spec == Init /\ [][Next]_vars

-----------------------------------------------------------------------------
(* Properties                                                              *)

TypeOK ==
  /\ utf16 \in Seq(Unit) /\ le \in BOOLEAN /\ i \in 0..Len(utf16)
  /\ utf8 \in Seq(0..255) /\ buffer \in Seq(0..255)
  /\ pc \in {"blocks", "lanes", "tail", "done"}
  /\ j \in 0..Lanes /\ ascii \in BOOLEAN

\* No write goes past the end of the buffer on the stack, in no block and in
\* the tail, which is not appended until it ends.
BufferFits == Len(buffer) <= BufSize

\* The argument in the machine's byte order.
Text == [n \in 1..Len(utf16) |-> W(n - 1)]
NoSurrogates == \A n \in 1..Len(utf16) : ~IsSurrogate(Text[n])

\* The signed comparison errs on a block that holds 0x80 or a unit from 0x8000
\* on, and no other unit that is not ASCII.
Misjudged(n) ==
  LET block == {W(l) : l \in n..(n + Lanes - 1)} IN
  block \cap (\h81..\h7FFF) = {} /\ \E w \in block : w >= \h80

NoneMisjudged ==
  \A b \in 0..Len(utf16) : Lanes * (b + 1) <= Len(utf16) => ~Misjudged(Lanes * b)

\* What is known to be converted differently from the scalar converter.
Differs == ~NoSurrogates \/ ~NoneMisjudged

\* While a call runs, what it has read and written counts the open block.  On
\* text that is converted differently it counts as a call that does not move.
Scalar == INSTANCE Utf16ToUtf8 WITH
  i <- IF Differs THEN 0 ELSE IF pc = "lanes" THEN i + j ELSE i,
  utf8 <- IF Differs THEN <<>> ELSE IF pc = "done" THEN utf8 ELSE utf8 \o buffer,
  pc <- IF pc = "done" /\ ~Differs THEN "done" ELSE "loop"

\* Where there is no surrogate and no block is misjudged, the vector
\* converter does what the scalar one does, unit by unit, across blocks,
\* the tail and both byte orders.
RefinesScalar == Scalar!Spec

\* A decoder that takes each sequence of one to three bytes for a code unit,
\* a surrogate like any other.
UnitsIn(b) ==
  LET value(n, k) == CASE k = 1 -> b[n]
                       [] k = 2 -> (b[n] - \hC0) * 64 + b[n + 1] - \h80
                       [] OTHER -> (b[n] - \hE0) * 4096 + (b[n + 1] - \h80) * 64
                                     + b[n + 2] - \h80
      from[n \in 1..(Len(b) + 1)] ==
        IF n > Len(b) THEN <<>>
        ELSE LET k == SequenceLength(b[n])
             IN IF k \in 1..3 /\ n + k <= Len(b) + 1
                THEN <<value(n, k)>> \o from[n + k] ELSE <<Invalid>>
  IN from[1]

\* No unit is lost, moved or changed on the way through the lanes, the buffer
\* and the tail, exactly if no block is misjudged.  Surrogates are kept one by
\* one: a pair is in the result, as two sequences that are no UTF-8.
UnitsSurvive == pc = "done" => (UnitsIn(utf8) = Text <=> NoneMisjudged)

\* The scalar converter's bytes, for text without surrogates.
ScalarBytes ==
  LET upto[n \in 0..Len(Text)] ==
        IF n = 0 THEN <<>> ELSE upto[n - 1] \o EncodeUnit(Text[n])
  IN upto[Len(Text)]

\* "Its purpose is to speed up UTF16ToUTF8" (README.md:17): text for which
\* one unit is one character is converted to the same bytes, only faster.
SameBytes == pc = "done" /\ NoSurrogates => utf8 = ScalarBytes

=============================================================================
