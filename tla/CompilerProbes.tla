--------------------------- MODULE CompilerProbes ---------------------------
(***************************************************************************)
(* The build identifies the C compiler and then the C++ compiler, each     *)
(* with a probe of its own.  The compilers are external: which macros they *)
(* predefine is taken from the conditions of the probes, and how versions  *)
(* are encoded in them from the comments beside the formulas ("VRP",       *)
(* "0xVRRP", ...) and from the names of macros that hold one component     *)
(* each, not from the formulas that decode them.  Six kinds have neither.  *)
(***************************************************************************)
EXTENDS Integers, Sequences, SequencesExt

VARIABLES
  compiler,                              \* the compiler that is installed
  cMacro, cAt, cFound, cInfo, cRequire,  \* the C probe
  xMacro, xAt, xFound, xInfo, xRequire   \* the C++ probe

cVars == <<cMacro, cAt, cFound, cInfo, cRequire>>
xVars == <<xMacro, xAt, xFound, xInfo, xRequire>>

C == INSTANCE CMakeCCompilerId
       WITH macro <- cMacro, at <- cAt, found <- cFound, info <- cInfo, require <- cRequire
X == INSTANCE CMakeCXXCompilerId
       WITH macro <- xMacro, at <- xAt, found <- xFound, info <- xInfo, require <- xRequire

-----------------------------------------------------------------------------
(* Compilers                                                               *)

\* The probes do not say how these encode their versions, other than by the
\* formulas that decode them: their macros have some number, and no release.
Unexplained == {"Embarcadero", "Tasking", "ARMClang", "LCC", "IAR", "IARarm"}

\* The releases of each kind of compiler that lie at the limits of its
\* encoding: MAJOR, MINOR, PATCH and TWEAK, as far as macros tell them.
Releases(kind) ==
  CASE kind = "Intel" -> {<<9, 1, 2>>, <<19, 1, 3, 20200925>>, <<2021, 1, 0>>,
                          <<2021, 1, 1>>, <<2021, 5, 0>>}
    [] kind = "IntelLLVM" -> {<<2021, 1, 2>>, <<2021, 2, 0>>, <<2024, 10, 11>>}
    [] kind = "Borland" -> {<<5, 82>>, <<6, 10>>}
    [] kind = "Watcom" -> {<<10, 6>>, <<11, 0>>}
    [] kind = "OpenWatcom" -> {<<1, 0>>, <<1, 9, 9>>, <<2, 0>>}
    [] kind = "SunPro" -> {<<5, 0, 0>>, <<5, 9, 1>>, <<5, 10, 0>>, <<5, 15, 9>>}
    [] kind = "Compaq" -> {<<6, 99, 9999>>, <<7, 1, 12>>}
    [] kind = "XL" -> {<<8, 0, 0>>, <<13, 1, 6>>}
    [] kind \in {"IBMClang", "XLClang"} -> {<<17, 1, 2, 3>>}
    [] kind = "ARMCC" -> {<<4, 1, 9999>>, <<5, 6, 960>>, <<9, 99, 0>>}
    [] kind = "AppleClang" -> {<<15, 0, 0, 15000040>>}
    [] kind \in {"Cray", "Comeau"} -> {<<8, 7>>}
    [] kind \in {"PathScale", "NVHPC", "PGI"} -> {<<4, 0>>, <<6, 0, 1>>}
    [] kind = "GNU" -> {<<2>>, <<2, 95>>, <<13, 1, 0>>}
    [] kind = "MSVC" -> {<<19, 99>>, <<13, 10, 3077>>, <<14, 0, 50727, 42>>, <<19, 33, 31630, 0>>}
    [] kind = "ADSP" -> {<<8, 9, 0, 7>>, <<5, 255, 1, 2>>}
    [] kind \in Unexplained \cup {"TinyCC", "Bruce", "SCO", "HPold", "C18", "GHSold"} -> {<<>>}
    [] OTHER -> {<<1, 0, 0>>, <<7, 9, 9>>}

COnly == {"TinyCC", "Bruce", "SDCC", "SDCCold", "C18"}
CXXOnly == {"Comeau"}
Kinds ==
  COnly \cup CXXOnly \cup
  {"Intel", "IntelLLVM", "PathScale", "Embarcadero", "Borland", "Watcom", "OpenWatcom", "SunPro",
   "HP", "HPold", "Compaq", "zOS", "IBMClang", "XLClang", "XL", "VisualAge", "NVHPC", "PGI",
   "CrayClang", "Cray", "TI", "FujitsuClang", "Fujitsu", "FujitsuText", "GHS", "GHSold", "Tasking",
   "OrangeC", "SCO", "ARMCC", "AppleClang", "ARMClang", "Clang", "LCC", "GNU", "MSVC", "ADSP",
   "IAR", "IARarm"}

Id(kind) ==
  CASE kind = "HPold" -> "HP"
    [] kind = "FujitsuText" -> "Fujitsu"
    [] kind = "GHSold" -> "GHS"
    [] kind = "IARarm" -> "IAR"
    [] kind = "SDCCold" -> "SDCC"
    [] kind = "C18" -> ""
    [] OTHER -> kind

\* Macros that are only defined, and macros that hold a component each.
Flags(S) == [x \in S |-> 1]
Spread(names, r) ==
  LET n == IF Len(r) < Len(names) THEN Len(r) ELSE Len(names) IN
  [x \in {names[i] : i \in 1..n} |-> r[CHOOSE i \in 1..n : names[i] = x]]

Bcd(n) == ((n \div 10) * 16) + (n % 10)
Nth(r, n) == IF n <= Len(r) THEN r[n] ELSE 0

\* The macros a compiler has of its own, in its C or its C++ variant.
OwnMacros(lang, kind, r) ==
  LET v(a, b) == (Nth(r, 1) * a) + (Nth(r, 2) * b) + Nth(r, 3)
      c(inC, inCXX) == IF lang = "C" THEN inC ELSE inCXX
  IN CASE kind = "Comeau" -> Flags({"__COMO__"}) @@ ("__COMO_VERSION__" :> v(100, 1))
    [] kind = "Intel" ->
         (IF r[1] < 19 \/ (r[1] = 2021 /\ r[2] = 1) THEN "__INTEL_COMPILER" :> v(100, 10)
          ELSE IF r[1] < 2021 THEN ("__INTEL_COMPILER" :> v(100, 10))
                                     @@ ("__INTEL_COMPILER_UPDATE" :> r[3])
          ELSE ("__INTEL_COMPILER" :> r[1]) @@ ("__INTEL_COMPILER_UPDATE" :> r[2]))
         @@ (IF Len(r) = 4 THEN "__INTEL_COMPILER_BUILD_DATE" :> r[4] ELSE <<>>)
    [] kind = "IntelLLVM" ->
         "__INTEL_LLVM_COMPILER" :> IF r[1] = 2021 /\ r[2] < 2 THEN v(100, 10) ELSE v(10000, 100)
    [] kind = "PathScale" -> Spread(<<"__PATHCC__", "__PATHCC_MINOR__", "__PATHCC_PATCHLEVEL__">>, r)
    [] kind = "Embarcadero" ->
         Flags({"__BORLANDC__"}) @@ ("__CODEGEARC_VERSION__" :> \h6400001)
    [] kind = "Borland" -> "__BORLANDC__" :> (r[1] * 256) + Bcd(r[2])
    [] kind = "Watcom" -> "__WATCOMC__" :> v(100, 1)
    [] kind = "OpenWatcom" -> "__WATCOMC__" :> v(100, 10) + 1100
    [] kind = "SunPro" ->
         c("__SUNPRO_C", "__SUNPRO_CC")
           :> IF r[2] < 10 THEN v(256, 16) ELSE (r[1] * 4096) + (Bcd(r[2]) * 16) + r[3]
    [] kind = "HP" -> c("__HP_cc", "__HP_aCC") :> v(10000, 100)
    [] kind = "HPold" -> Flags({"__hpux"})
    [] kind = "Compaq" ->
         Flags({c("__DECC", "__DECCXX")})
           @@ (c("__DECC_VER", "__DECCXX_VER") :> v(10000000, 100000) + 90000)
    [] kind = "zOS" -> Flags({"__COMPILER_VER__"}) @@ (c("__IBMC__", "__IBMCPP__") :> v(100, 10))
    [] kind \in {"XL", "VisualAge"} -> c("__IBMC__", "__IBMCPP__") :> v(100, 10)
    [] kind = "IBMClang" ->
         Flags({"__open_xl__", "__clang__"})
           @@ Spread(<<"__open_xl_version__", "__open_xl_release__", "__open_xl_modification__",
                       "__open_xl_ptf_fix_level__">>, r)
    [] kind = "XLClang" ->
         Flags({"__ibmxl__", "__clang__"})
           @@ Spread(<<"__ibmxl_version__", "__ibmxl_release__", "__ibmxl_modification__",
                       "__ibmxl_ptf_fix_level__">>, r)
    [] kind = "NVHPC" ->
         Flags({"__NVCOMPILER"})
           @@ Spread(<<"__NVCOMPILER_MAJOR__", "__NVCOMPILER_MINOR__", "__NVCOMPILER_PATCHLEVEL__">>, r)
    [] kind = "PGI" ->
         Flags({"__PGI"}) @@ Spread(<<"__PGIC__", "__PGIC_MINOR__", "__PGIC_PATCHLEVEL__">>, r)
    [] kind = "CrayClang" ->
         Flags({"__clang__", "__cray__"}) @@ ("__clang_version__" :> <<<<49, 55>>>>)
           @@ Spread(<<"__cray_major__", "__cray_minor__", "__cray_patchlevel__">>, r)
    [] kind = "Cray" -> Flags({"_CRAYC"}) @@ Spread(<<"_RELEASE_MAJOR", "_RELEASE_MINOR">>, r)
    [] kind = "TI" -> "__TI_COMPILER_VERSION__" :> v(1000000, 1000)
    [] kind = "FujitsuClang" ->
         Flags({"__CLANG_FUJITSU", "__clang__"}) @@ ("__clang_version__" :> <<<<49, 55>>>>)
           @@ Spread(<<"__FCC_major__", "__FCC_minor__", "__FCC_patchlevel__">>, r)
    [] kind = "Fujitsu" ->
         Flags({"__FUJITSU"}) @@ ("__FCC_VERSION" :> v(100, 10))
           @@ Spread(<<"__FCC_major__", "__FCC_minor__", "__FCC_patchlevel__">>, r)
    [] kind = "FujitsuText" ->
         Flags({"__FUJITSU"}) @@ ("__fcc_version" :> v(100, 10))
           @@ ("__FCC_version__" :> [i \in DOMAIN r |-> <<48 + r[i]>>])
    [] kind = "GHS" -> Flags({"__ghs__"}) @@ ("__GHS_VERSION_NUMBER" :> v(100, 10))
    [] kind = "GHSold" -> Flags({"__ghs__"})
    [] kind = "Tasking" -> Flags({"__TASKING__"}) @@ ("__VERSION__" :> 6003)
    [] kind = "OrangeC" ->
         Flags({"__ORANGEC__"})
           @@ Spread(<<"__ORANGEC_MAJOR__", "__ORANGEC_MINOR__", "__ORANGEC_PATCHLEVEL__">>, r)
    [] kind = "TinyCC" -> Flags({"__TINYC__"})
    [] kind = "Bruce" -> Flags({"__BCC__"})
    [] kind = "SCO" -> Flags({"__SCO_VERSION__"})
    [] kind = "ARMCC" -> "__ARMCC_VERSION" :> IF r[1] < 5 THEN v(100000, 10000) ELSE v(1000000, 10000)
    [] kind = "AppleClang" ->
         Flags({"__clang__"})
           @@ Spread(<<"__clang_major__", "__clang_minor__", "__clang_patchlevel__",
                       "__apple_build_version__">>, r)
    [] kind = "ARMClang" ->
         Flags({"__clang__"}) @@ ("__ARMCOMPILER_VERSION" :> 6160001)
    [] kind = "Clang" ->
         Flags({"__clang__"})
           @@ Spread(<<"__clang_major__", "__clang_minor__", "__clang_patchlevel__">>, r)
    [] kind = "LCC" -> Flags({"__MCST__"}) @@ ("__LCC__" :> 126)
    [] kind = "GNU" -> Spread(<<"__GNUC__", "__GNUC_MINOR__", "__GNUC_PATCHLEVEL__">>, r)
    [] kind = "MSVC" ->
         ("_MSC_VER" :> (r[1] * 100) + r[2])
           @@ (IF Len(r) < 3 THEN <<>>
               ELSE "_MSC_FULL_VER" :> IF r[1] >= 14 THEN v(10000000, 100000) ELSE v(1000000, 10000))
           @@ (IF Len(r) < 4 THEN <<>> ELSE "_MSC_BUILD" :> r[4])
    [] kind = "ADSP" ->
         Flags({"_ADI_COMPILER"})
           @@ ("__VERSIONNUM__" :> (r[1] * 16777216) + (r[2] * 65536) + (r[3] * 256) + r[4])
    [] kind = "IARarm" ->
         Flags({"__ICCARM__"}) @@ ("__IAR_SYSTEMS_ICC__" :> 9) @@ ("__VER__" :> 9020001)
    [] kind = "IAR" ->
         Flags({"__ICCAVR__"}) @@ ("__IAR_SYSTEMS_ICC__" :> 9) @@ ("__SUBVERSION__" :> 2)
           @@ ("__VER__" :> 710)
    [] kind = "SDCC" ->
         Spread(<<"__SDCC_VERSION_MAJOR", "__SDCC_VERSION_MINOR", "__SDCC_VERSION_PATCH">>, r)
    [] kind = "SDCCold" -> "SDCC" :> v(100, 10)
    [] kind = "C18" -> Flags({"__18CXX"})

-----------------------------------------------------------------------------
(* What a compiler pretends to be, its targets and its languages           *)

GNUMacros == Spread(<<"__GNUC__", "__GNUC_MINOR__", "__GNUC_PATCHLEVEL__">>, <<4, 2, 1>>)

\* Many compilers define the macros of others, to be taken for them by the
\* programs they compile: those of GNU, of MSVC, of both, and of Clang.
Pretended(role) ==
  CASE role = "GNU" -> GNUMacros
    [] role = "MSVC" -> "_MSC_VER" :> 1933
    [] role = "Clang" ->
         Spread(<<"__clang__", "__clang_major__", "__clang_minor__", "__clang_patchlevel__">>,
                <<1, 17, 0, 6>>)
           @@ GNUMacros
    [] role = "both" -> ("_MSC_VER" :> 1933) @@ GNUMacros
    [] role = "none" -> <<>>

\* Who pretends is an assumption, which the chains make as well: a compiler
\* that had the macros of one before it would be named for that one.  Only the
\* sections of Intel's compilers provide for both GNU and MSVC.
Roles(kind) ==
  CASE kind \in {"Intel", "IntelLLVM"} -> {"none", "GNU", "MSVC", "Clang", "both"}
    [] kind \in {"GNU", "MSVC", "ADSP", "IAR", "IARarm", "SDCC", "SDCCold", "HPold", "C18"} -> {"none"}
    [] kind \in {"ARMCC", "LCC", "AppleClang", "ARMClang", "Clang"} -> {"none", "GNU", "MSVC"}
    [] OTHER -> {"none", "GNU", "MSVC", "Clang"}

\* Targets whose macros overlap with those of others.
Target(kind, macros, platform, arch) ==
  [kind |-> kind, macros |-> macros, platform |-> platform, arch |-> arch]
Targets ==
  {Target("GNU", Flags({"__MSYS__", "__CYGWIN__"}), "MSYS", ""),
   Target("GNU", Flags({"__CYGWIN__"}), "Cygwin", ""),
   Target("GNU", Flags({"__MINGW32__", "_WIN32"}), "MinGW", ""),
   Target("GNU", Flags({"__QNX__", "__QNXNTO__"}), "QNX", ""),
   Target("HP", Flags({"__hpux"}), "HP-UX", ""),
   Target("CrayClang", Flags({"__linux__", "__CRAYXT_COMPUTE_LINUX_TARGET"}), "Linux", ""),
   Target("Clang", Flags({"_WIN32", "_M_X64", "_M_AMD64"}) @@ ("_MSC_VER" :> 1933), "Windows", "x64"),
   Target("MSVC", Flags({"_WIN32", "_M_X64", "_M_AMD64", "_M_ARM64EC"}), "Windows", "ARM64EC"),
   Target("MSVC", Flags({"_WIN32"}) @@ ("_M_ARM" :> 5), "Windows", "ARMV5I"),
   Target("MSVC", Flags({"_WIN32"}) @@ ("_M_ARM" :> 7), "Windows", "ARMV7"),
   Target("OpenWatcom", Flags({"__OS2__", "_M_I86"}), "OS2", "I86"),
   Target("OpenWatcom", Flags({"__WINDOWS__", "_M_IX86"}), "Windows3x", "X86"),
   Target("GHS", Flags({"__INTEGRITY", "INT_178B", "__ppc__", "__PPC64__"}), "Integrity178", "PPC64"),
   Target("GHS", Flags({"__INTEGRITY", "__ppc__"}), "Integrity", "PPC"),
   Target("TI", Flags({"__TI_ARM__"}), "", "ARM"),
   Target("Tasking", Flags({"__C51__"}), "", "8051"),
   Target("IAR", <<>>, "", "AVR"),
   Target("ADSP", Flags({"__ADSPBLACKFIN__"}), "ADSP", "Blackfin")}
NoTarget(kind) == Target(kind, <<>>, "", "")

\* The versions of the languages that a compiler may have as its default.
CYears == <<0, 199409, 199901, 201112, 201710, 202311>>
CNames == <<"90", "90", "99", "11", "17", "23">>
CXXYears == <<199711, 201103, 201402, 201703, 202002, 202302>>
CXXNames == <<"98", "11", "14", "17", "20", "23">>

\* MSVC has no __STDC__ and keeps __cplusplus at 199711; it tells the version
\* by _MSVC_LANG, but not below C++14, and Intel's compiler does so by others.
LanguageMacros(lang, kind, role, n) ==
  LET msvc == kind = "MSVC" \/ role \in {"MSVC", "both"} IN
  CASE lang = "C" /\ kind = "MSVC" -> <<>>
    [] lang = "C" /\ kind # "MSVC" -> Flags({"__STDC__"}) @@ ("__STDC_VERSION__" :> CYears[n])
    [] lang = "CXX" /\ ~msvc -> "__cplusplus" :> CXXYears[n]
    [] lang = "CXX" /\ msvc ->
         ("__cplusplus" :> 199711)
           @@ ("_MSVC_LANG" :> CXXYears[IF kind = "Intel" /\ n <= 3 THEN 1 ELSE n])
           @@ Flags(IF kind # "Intel" \/ n \notin {2, 3} THEN {}
                    ELSE {"__INTEL_CXX11_MODE__"} \cup IF n = 3 THEN {"__cpp_aggregate_nsdmi"} ELSE {})

Macros(lang, c) ==
  OwnMacros(lang, c.target.kind, c.release) @@ c.target.macros @@ Pretended(c.role)
    @@ LanguageMacros(lang, c.target.kind, c.role, c.language)

Installed(target, release, role, language) ==
  [target |-> target, release |-> release, role |-> role, language |-> language]

\* Every kind in every release and role; every target; and every version of
\* the language that the kind may have.
Installations ==
  UNION {{Installed(NoTarget(k), r, p, 5) : r \in Releases(k), p \in Roles(k)} : k \in Kinds}
  \cup UNION {{Installed(t, r, "none", 4) : r \in Releases(t.kind)} : t \in Targets}
  \cup UNION {{Installed(NoTarget(k), r, p, n) : r \in Releases(k), p \in Roles(k), n \in 3..6}
              : k \in {"GNU", "Clang", "MSVC", "Intel"}}
  \cup UNION {{Installed(NoTarget(k), r, "none", n) : r \in Releases(k), n \in 1..2}
              : k \in {"GNU", "Intel"}}
  \cup {Installed(NoTarget("Intel"), r, "MSVC", n) : r \in Releases("Intel"), n \in 1..2}

-----------------------------------------------------------------------------
(* The build                                                               *)

Kind == compiler.target.kind
Compiled(lang) == IF lang = "C" THEN cAt = "compiled" ELSE xAt = "compiled"
Info(lang) == IF lang = "C" THEN cInfo ELSE xInfo
Languages == {"C", "CXX"}

\* A compiler that has only one of the languages is refused by the other
\* probe, or not given to it: the C probe refuses one that defines
\* __cplusplus, the C++ probe one that does not.
Init ==
  /\ compiler \in Installations
  /\ C!Init(Macros(IF Kind \in CXXOnly THEN "CXX" ELSE "C", compiler))
  /\ X!Init(Macros(IF Kind \in COnly THEN "C" ELSE "CXX", compiler))

ProbeC == C!Next /\ UNCHANGED <<compiler, xVars>>
ProbeCXX == cAt \in {"compiled", "error"} /\ X!Next /\ UNCHANGED <<compiler, cVars>>
Next == ProbeC \/ ProbeCXX
Spec == Init /\ [][Next]_<<compiler, cVars, xVars>>

-----------------------------------------------------------------------------
(* Properties                                                              *)

\* A compiler and its target are named for what they are, whatever others
\* they pretend to be: in each chain the more special conditions come first.
\* A compiler of the wrong language is refused.
NamedForWhatItIs ==
  /\ \A l \in Languages : Compiled(l) =>
       /\ Info(l)["info_compiler"] = Id(Kind)
       /\ compiler.target \in Targets =>
            /\ Info(l)["info_platform"] = compiler.target.platform
            /\ Info(l)["info_arch"] = compiler.target.arch
  /\ cAt = "error" => Kind \in CXXOnly
  /\ xAt = "error" => Kind \in COnly

Number(digits) == FoldLeft(LAMBDA n, d : (10 * n) + (d - 48), 0, digits)
Numbers(version) == [i \in DOMAIN version |-> Number(version[i])]

\* The version is read out of the macros as the comments and the names of the
\* macros say it is encoded in them, on both sides of each change of an
\* encoding: no component is lost, cut short or moved to the place of another.
\* Nothing is said of those whose encoding is not explained, nor of Watcom: its
\* comment says VVRR (CMakeCCompilerId.c:130), the formulas below it read VVRP.
VersionRead ==
  Kind \notin Unexplained \cup {"Watcom"} =>
    \A l \in Languages : Compiled(l) =>
      LET r == compiler.release IN
      IF r = <<>> THEN "info_version" \notin DOMAIN Info(l)
      ELSE "info_version" \in DOMAIN Info(l) /\ Numbers(Info(l)["info_version"]) = r

\* What main does not refer to: strings that a compiler has ready, and qnxnto.
\* The main of C18 has no body.
LeftOut(l) ==
  (IF Kind = "FujitsuText" THEN {"info_version"} ELSE {})
    \cup (IF Kind \in {"CrayClang", "FujitsuClang"} THEN {"info_version_internal"} ELSE {})
    \cup (IF Kind = "C18" THEN DOMAIN Info(l) ELSE {})
    \cup {"qnxnto"}

\* Conditions that stand far apart agree: the compiler that a compiler
\* simulates and the version of that one belong together, also if the macros
\* of two define them and the later definitions replace the earlier; and main
\* refers to every string that is defined, or it may not be in the program.
PartsAgree ==
  \A l \in Languages : Compiled(l) =>
    /\ (IF l = "C" THEN cRequire ELSE xRequire) = DOMAIN Info(l) \ LeftOut(l)
    /\ "info_simulate" \in DOMAIN Info(l) <=> "info_simulate_version" \in DOMAIN Info(l)
    /\ "info_simulate" \in DOMAIN Info(l) =>
         <<Info(l)["info_simulate"], Numbers(Info(l)["info_simulate_version"])>>
           \in {<<"GNU", <<4, 2, 1>>>>, <<"MSVC", <<19, 33>>>>}

LanguageStrings == {"info_language_standard_default", "info_language_extensions_default"}

\* The two probes, which are kept as two texts, say the same of the C and the
\* C++ variant of one compiler.
ProbesAgree ==
  Compiled("C") /\ Compiled("CXX") =>
    /\ DOMAIN cInfo = DOMAIN xInfo
    /\ \A s \in DOMAIN cInfo \ LanguageStrings : cInfo[s] = xInfo[s]

\* The default version of the language is the one the compiler has, by the
\* year the standards give it, for those that keep __cplusplus at an old year
\* too.
LanguageRead ==
  /\ Compiled("C") => cInfo["info_language_standard_default"]
                        = IF Kind = "MSVC" THEN "90" ELSE CNames[compiler.language]
  /\ Compiled("CXX") => xInfo["info_language_standard_default"] = CXXNames[compiler.language]
=============================================================================
