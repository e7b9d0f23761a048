---------------------------- MODULE LatinBenchmark ----------------------------
(***************************************************************************)
(* SIMD/bazel-simd/main.cpp: main generates a random string and measures   *)
(* three isLatin functions on it, one after the other.  The functions may  *)
(* also be called by others, with any of Strings.                          *)
(***************************************************************************)
EXTENDS IsLatin

CONSTANTS Charset,  \* charset, with the NUL that ends it
          Length    \* the length main asks for

ASSUME CharsetAssumption ==
  /\ Charset \in Seq(Byte) /\ Len(Charset) >= 2 /\ Length \in Nat
  /\ \A n \in 1..Len(Charset) : Charset[n] = 0 <=> n = Len(Charset)

VARIABLES
  caller,   \* who calls: "main" or "other"
  printed   \* what main has printed of the results
allVars == <<vars, caller, printed>>

Called == <<"Baseline", "SSE2", "AVX2">>

StartMain ==
  /\ caller = "main" /\ str = <<>> /\ kernel = "Baseline"
  /\ i = 0 /\ result = TRUE /\ pc = "main"

\* dist, over sizeof(charset) less two: the bounds are inclusive, and the
\* last element of the array is no character.
DrawsBug == 0..(Len(Charset) - 1)
Draws == 0..(Len(Charset) - 2)

GenerateByte ==
  /\ pc = "main" /\ Len(str) < Length
  /\ \E d \in Draws : str' = Append(str, Charset[d + 1])
  /\ UNCHANGED <<kernel, i, pc, result, caller, printed>>

Call ==
  /\ pc = "main" /\ Len(str) >= Length /\ Len(printed) < Len(Called)
  /\ kernel' = Called[Len(printed) + 1]
  /\ i' = 0 /\ pc' = Entry(kernel')
  /\ UNCHANGED <<str, result, caller, printed>>

PrintResult ==
  /\ pc = "done" /\ caller = "main"
  /\ printed' = Append(printed, result)
  /\ pc' = IF Len(printed') < Len(Called) THEN "main" ELSE "ended"
  /\ UNCHANGED <<str, kernel, i, result, caller>>

BenchmarkNext ==
  \/ GenerateByte \/ Call \/ PrintResult
  \/ Next /\ UNCHANGED <<caller, printed>>

BenchmarkInit == (StartMain \/ (Init /\ caller = "other")) /\ printed = <<>>

\* The one thread of the program runs on.
BenchmarkSpec == BenchmarkInit /\ [][BenchmarkNext]_allVars /\ WF_allVars(BenchmarkNext)

-----------------------------------------------------------------------------
(* Properties                                                              *)

IsText(s) == \A n \in 1..Len(s) : s[n] # 0

\* "size-2 to exclude null terminator" (bazel-simd/main.cpp:87): the string
\* is all text.  Main gets to its end, with three results that say that the
\* whole of the string is Latin, so each function was measured on all of it.
MeasuresText ==
  /\ [](caller = "main" => IsText(str))
  /\ caller = "main" ~>
       (pc = "ended" /\ Len(str) = Length /\ printed = <<TRUE, TRUE, TRUE>>)
=============================================================================
