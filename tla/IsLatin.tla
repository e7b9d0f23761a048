------------------------------- MODULE IsLatin -------------------------------
(***************************************************************************)
(* SIMD/main.cpp and bazel-simd/main.cpp: one call of one of the isLatin   *)
(* functions.  In the first file a build for one architecture has the      *)
(* vector loops of that architecture only, and its other functions call    *)
(* isLatin_Baseline; the second file has AVX-512 and is for x86 alone.     *)
(*                                                                         *)
(* A vector loop tests a chunk of bytes at a time and leaves what does not *)
(* fill a chunk to a byte loop; the baseline is that byte loop alone.      *)
(***************************************************************************)
EXTENDS Integers, Sequences

CONSTANTS Strings,    \* the arguments, as sequences of bytes
          AVX512Lanes, AVX2Lanes, SSE2Lanes, NEONLanes,
                      \* bytes in a vector: 64, 32, 16, 16
          VLMAX       \* the longest vector of the RISC-V machine

Byte == 0..255
ASSUME StringsAssumption == Strings \subseteq Seq(Byte)
ASSUME LanesAssumption == {AVX512Lanes, AVX2Lanes, SSE2Lanes, NEONLanes, VLMAX} \subseteq Nat \ {0}

Functions == {"Baseline", "AVX512", "AVX2", "SSE2", "NEON", "RISCV"}
Builds == {{"AVX512", "AVX2", "SSE2"}, {"AVX2", "SSE2"}, {"NEON"}, {"RISCV"}, {}}

VARIABLES str, kernel, i, pc, result
vars == <<str, kernel, i, pc, result>>

len == Len(str)
Unsigned(n) == str[n + 1]       \* static_cast<unsigned char>(data[n])

\* A function of another architecture's build is the baseline.
Selected(f, b) == IF f \in b THEN f ELSE "Baseline"

\* Where a function begins: the baseline is the byte loop.
Entry(f) == IF f = "Baseline" THEN "bytes" ELSE "chunks"

Init ==
  /\ str \in Strings
  /\ \E f \in Functions, b \in Builds : kernel = Selected(f, b)
  /\ i = 0 /\ result = TRUE /\ pc = Entry(kernel)

Lanes == CASE kernel = "AVX512" -> AVX512Lanes
           [] kernel = "AVX2" -> AVX2Lanes
           [] kernel = "SSE2" -> SSE2Lanes
           [] kernel = "NEON" -> NEONLanes
           [] OTHER -> VLMAX

\* vsetvl, for the bytes that are left: the machine may divide the last two
\* vectors' worth of them as it likes.
VectorLengths(left) ==
  {vl \in 0..VLMAX :
     /\ left <= VLMAX => vl = left
     /\ VLMAX < left /\ left < 2 * VLMAX => left <= 2 * vl
     /\ 2 * VLMAX <= left => vl = VLMAX}

\* The lengths of the chunk that the loop's condition allows next.
Chunks ==
  IF kernel = "RISCV" THEN VectorLengths(len - i) \ {0}
  ELSE {n \in {Lanes} : i + n <= len}

\* AND with 0x80 in every lane, and a test for a lane that is not zero.
HighBit(b) == (b \div 128) % 2 = 1
AnyHighBit(n) == \E j \in i..(i + n - 1) : HighBit(Unsigned(j))

ReturnFalse == result' = FALSE /\ pc' = "done" /\ UNCHANGED i

AdvanceBug(n) == i + n + 1
StuckBug(n) == i
Advance(n) == i + n

TestChunk ==
  /\ pc = "chunks"
  /\ \E n \in Chunks :
       \/ AnyHighBit(n) /\ ReturnFalse
       \/ ~AnyHighBit(n) /\ i' = Advance(n) /\ UNCHANGED <<pc, result>>
  /\ UNCHANGED <<str, kernel>>

LeaveChunks ==
  /\ pc = "chunks" /\ Chunks = {}
  /\ pc' = "bytes" /\ UNCHANGED <<str, kernel, i, result>>

TestByte ==
  /\ pc = "bytes" /\ i < len
  /\ \/ Unsigned(i) >= 128 /\ ReturnFalse
     \/ Unsigned(i) < 128 /\ i' = i + 1 /\ UNCHANGED <<pc, result>>
  /\ UNCHANGED <<str, kernel>>

ReturnTrue ==
  /\ pc = "bytes" /\ i >= len
  /\ result' = TRUE /\ pc' = "done" /\ UNCHANGED <<str, kernel, i>>

Next == TestChunk \/ LeaveChunks \/ TestByte \/ ReturnTrue

Spec == Init /\ [][Next]_vars

\* The one thread of a call runs on.
FairSpec == Spec /\ WF_vars(Next)

-----------------------------------------------------------------------------
(* Properties                                                              *)

TypeOK ==
  /\ str \in Seq(Byte) /\ kernel \in Functions /\ i \in 0..len
  /\ pc \in {"main", "chunks", "bytes", "done", "ended"} /\ result \in BOOLEAN

\* What isLatin means: every byte is below 128.
Latin == \A n \in 0..(len - 1) : Unsigned(n) < 128

\* Whatever the architecture and wherever chunks end, every function gives
\* the answer of the baseline's test: no byte is skipped between the chunks
\* or between the vector loop and the byte loop.
SameAnswer == pc = "done" => result = Latin

\* Every call returns, also where the machine chooses the vector length.
Returns == <>(pc = "done")
=============================================================================
