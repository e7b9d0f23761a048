----------------------------- MODULE Utf16ToUtf8 -----------------------------
(***************************************************************************)
(* The scalar converter of string_utf16_to_utf8/main.cpp: one call of      *)
(* utf16_to_utf8(utf16, is_little_endian), an iteration of its loop a step.*)
(***************************************************************************)
EXTENDS Utf16

CONSTANT Strings    \* the arguments, as they are in memory

ASSUME StringsAssumption == Strings \subseteq Seq(Unit)

VARIABLES utf16, le, i, utf8, pc
vars == <<utf16, le, i, utf8, pc>>

Init ==
  /\ utf16 \in Strings /\ le \in BOOLEAN
  /\ i = 0 /\ utf8 = <<>> /\ pc = "loop"

W(n) == Host(utf16[n + 1], le)    \* w1 or w2 of unit n, counted from 0
w1 == W(i)
HasNext == i + 1 < Len(utf16)

Looping == pc = "loop" /\ i < Len(utf16)

PushUnit ==
  /\ Looping /\ ~IsSurrogate(w1)
  /\ utf8' = utf8 \o EncodeUnit(w1) /\ i' = i + 1
  /\ UNCHANGED <<utf16, le, pc>>

PairFollowsBug == HasNext
PairFollows == HasNext /\ IsLow(W(i + 1))

PushPair ==
  /\ Looping /\ IsHigh(w1) /\ PairFollows
  /\ utf8' = utf8 \o EncodePair(CodePoint(w1, W(i + 1))) /\ i' = i + 2
  /\ UNCHANGED <<utf16, le, pc>>

\* A high surrogate at the end, one before anything but a low one, and a low
\* one by itself.
Throw ==
  /\ Looping
  /\ IsLow(w1) \/ (IsHigh(w1) /\ ~PairFollows)
  /\ pc' = "thrown" /\ UNCHANGED <<utf16, le, i, utf8>>

Return ==
  /\ pc = "loop" /\ i >= Len(utf16)
  /\ pc' = "done" /\ UNCHANGED <<utf16, le, i, utf8>>

Next == PushUnit \/ PushPair \/ Throw \/ Return

Spec == Init /\ [][Next]_vars

-----------------------------------------------------------------------------
(* Properties                                                              *)

TypeOK ==
  /\ utf16 \in Seq(Unit) /\ le \in BOOLEAN /\ i \in 0..Len(utf16)
  /\ utf8 \in Seq(0..255) /\ pc \in {"generate", "loop", "done", "thrown"}

\* The argument in the machine's byte order.
Text == [n \in 1..Len(utf16) |-> W(n - 1)]

\* An independent decoder takes what has been written back to what has been
\* read: valid UTF-8 in shortest form, at every iteration.
RoundTrip == Utf16Of(DecodeUtf8(utf8)) = SubSeq(Text, 1, i)

\* The converter throws for ill-formed UTF-16, and for nothing else, although
\* it looks at a pair only from its first unit.
ThrowsIffIllFormed ==
  /\ pc = "done" => WellFormed(Text)
  /\ pc = "thrown" => ~WellFormed(Text)
=============================================================================
