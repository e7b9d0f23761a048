---------------------------- MODULE Utf16Benchmark ----------------------------
(***************************************************************************)
(* The scalar converter of string_utf16_to_utf8/main.cpp and who calls it: *)
(* main, with a string of generate_random_utf16_string and in the byte     *)
(* order of the machine, or any other caller, with one of Strings.  Main   *)
(* converts its string with the vector converter as well, after the other. *)
(* The library converter is external, and changes nothing that others see. *)
(***************************************************************************)
EXTENDS Utf16ToUtf8

CONSTANTS Length,   \* string_length
          Draws,    \* what the distribution over 0..MaxCodePoint may draw
          Lanes, BufSize   \* of the vector converter

MaxCodePoint == \h10FFFF
ASSUME DrawsAssumption == Length \in Nat \ {0} /\ Draws \subseteq 0..MaxCodePoint
ASSUME VectorAssumption == Lanes \in Nat \ {0} /\ BufSize \in Nat /\ 3 * Lanes <= BufSize

VARIABLES
  drawn,    \* history: the code points that main's string was made of
  vI, vUtf8, vPc, j, ascii, buffer   \* the vector converter's
vectorVars == <<vI, vUtf8, vPc, j, ascii, buffer>>
allVars == <<vars, drawn, vectorVars>>

Vector == INSTANCE Utf16ToUtf8Avx2 WITH i <- vI, utf8 <- vUtf8, pc <- vPc

VectorInit(l) ==
  vI = 0 /\ vUtf8 = <<>> /\ vPc = l /\ j = 0 /\ ascii = FALSE /\ buffer = <<>>

StartMain ==
  /\ utf16 = <<>> /\ drawn = <<>> /\ pc = "generate"
  /\ le = TRUE /\ i = 0 /\ utf8 = <<>> /\ VectorInit("blocks")

Generating == pc = "generate" /\ Len(utf16) < Length

BasicPlane(cp) == cp <= \hD7FF \/ (cp >= \hE000 /\ cp <= \hFFFF)

PushBasic(cp) ==
  /\ Generating /\ BasicPlane(cp)
  /\ utf16' = Append(utf16, cp) /\ drawn' = Append(drawn, cp)
  /\ UNCHANGED <<le, i, utf8, pc, vectorVars>>

SurrogatesBug(cp) == <<(cp \div 1024) + \hD800, (cp % 1024) + \hDC00>>
Surrogates(cp) == <<((cp - \h10000) \div 1024) + \hD800, ((cp - \h10000) % 1024) + \hDC00>>

PushSupplementary(cp) ==
  /\ Generating /\ cp >= \h10000 /\ cp <= MaxCodePoint
  /\ utf16' = utf16 \o Surrogates(cp) /\ drawn' = Append(drawn, cp)
  /\ UNCHANGED <<le, i, utf8, pc, vectorVars>>

\* A draw among the surrogates is not used; the loop draws again.
Reject(cp) ==
  /\ Generating /\ ~BasicPlane(cp) /\ cp < \h10000
  /\ UNCHANGED allVars

Convert ==
  /\ pc = "generate" /\ Len(utf16) >= Length
  /\ pc' = "loop" /\ UNCHANGED <<utf16, le, i, utf8, drawn, vectorVars>>

ConvertAgain ==
  /\ drawn # <<>> /\ pc \in {"done", "thrown"}
  /\ Vector!Next /\ UNCHANGED <<i, utf8, pc, drawn>>

BenchmarkNext ==
  \/ \E cp \in Draws : PushBasic(cp) \/ PushSupplementary(cp) \/ Reject(cp)
  \/ Convert \/ ConvertAgain
  \/ Next /\ UNCHANGED <<drawn, vectorVars>>

BenchmarkInit == StartMain \/ (Init /\ drawn = <<>> /\ VectorInit("idle"))

BenchmarkSpec == BenchmarkInit /\ [][BenchmarkNext]_allVars

-----------------------------------------------------------------------------
(* Properties                                                              *)

\* "Generate random UTF-16 string ensuring valid surrogate pairs"
\* (main.cpp:159): also when the last pair takes the string past its length,
\* which it may do by one unit.  So the exception handlers of main are never
\* reached by the scalar converter, and the text in its result is the text
\* that was drawn.
TextSurvives ==
  drawn # <<>> =>
    /\ WellFormed(utf16) /\ Len(utf16) <= Length + 1
    /\ pc # "thrown" /\ (pc = "done" => DecodeUtf8(utf8) = drawn)

\* The two conversions that main times do the same work on its strings only
\* if nothing beyond the basic plane was drawn and no block is misjudged.
ConversionsAgree ==
  vPc = "done" =>
    (vUtf8 = utf8 <=> (Vector!NoneMisjudged /\ \A n \in DOMAIN drawn : drawn[n] < \h10000))
=============================================================================
