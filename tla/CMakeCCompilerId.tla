-------------------------- MODULE CMakeCCompilerId --------------------------
(***************************************************************************)
(* CMakeCCompilerId.c: how the build finds out which C compiler it has.    *)
(* The compiler preprocesses the file from top to bottom; each action is a *)
(* section of it.  The strings info_* are what the build reads out of the  *)
(* program, and main refers to them so that they stay in it.               *)
(***************************************************************************)
EXTENDS CompilerMachine

VARIABLES
  at,       \* the section that is next
  found,    \* the branch that was taken for COMPILER_ID
  info,     \* the strings defined so far, by name
  require   \* the names main refers to

vars == <<macro, at, found, info, require>>

Init(m) ==
  /\ macro = m /\ at = "language" /\ found = Otherwise("")
  /\ info = <<>> /\ require = {}

-----------------------------------------------------------------------------
(* COMPILER_ID and COMPILER_VERSION_*                                      *)

IntelCompiler ==
  LET v == Val("__INTEL_COMPILER")
      patch == IF Has("__INTEL_COMPILER_UPDATE") THEN Val("__INTEL_COMPILER_UPDATE") ELSE v % 10
      short == v < 2021 \/ v \in {202110, 202111}
  IN Decs(IF short THEN <<v \div 100, (v \div 10) % 10, patch>>
                   ELSE <<v, Val("__INTEL_COMPILER_UPDATE"), 0>>)
     \o <<IfDefined("__INTEL_COMPILER_BUILD_DATE")>>

IntelLLVMBug ==
  Decs(Layout(Val("__INTEL_LLVM_COMPILER"), 10000, 100))
IntelLLVM ==
  LET v == Val("__INTEL_LLVM_COMPILER") IN
  Decs(IF v < 1000000 THEN Layout(v, 100, 10) ELSE Layout(v, 10000, 100))

PathScaleToWatcom ==
  LET b == Val("__BORLANDC__")  g == Val("__CODEGEARC_VERSION__")  w == Val("__WATCOMC__")
      tail == <<Dec((w \div 10) % 10), IF w % 10 > 0 THEN Dec(w % 10) ELSE <<>>>>
  IN <<Branch("PathScale", Has("__PATHCC__"),
              Parts(<<"__PATHCC__", "__PATHCC_MINOR__">>) \o <<IfDefined("__PATHCC_PATCHLEVEL__")>>),
       Branch("Embarcadero", AllOf({"__BORLANDC__", "__CODEGEARC_VERSION__"}),
              <<Hex(Byte(g, 3)), Hex(Byte(g, 2)), Dec(g % 65536)>>),
       Branch("Borland", Has("__BORLANDC__"), Hexs(<<b \div 256, b % 256>>)),
       Branch("Watcom", Has("__WATCOMC__") /\ w < 1200, <<Dec(w \div 100)>> \o tail),
       Branch("OpenWatcom", Has("__WATCOMC__"), <<Dec((w - 1100) \div 100)>> \o tail)>>

SunProToIBM ==
  LET s == Val("__SUNPRO_C")  h == Val("__HP_cc")  d == Val("__DECC_VER")  i == Val("__IBMC__")
      native == Has("__IBMC__") /\ ~Has("__COMPILER_VER__")
  IN <<Branch("SunPro", Has("__SUNPRO_C"),
              Hexs(IF s >= 20736 THEN <<s \div 4096, (s \div 16) % 256, s % 16>>
                                 ELSE <<s \div 256, (s \div 16) % 16, s % 16>>)),
       Branch("HP", Has("__HP_cc"), Decs(Layout(h, 10000, 100))),
       Branch("Compaq", Has("__DECC"), Decs(<<d \div 10000000, (d \div 100000) % 100, d % 10000>>)),
       Branch("zOS", AllOf({"__IBMC__", "__COMPILER_VER__"}), Decs(Layout(i, 100, 10))),
       Branch("IBMClang", AllOf({"__open_xl__", "__clang__"}),
              Parts(<<"__open_xl_version__", "__open_xl_release__", "__open_xl_modification__",
                      "__open_xl_ptf_fix_level__">>)),
       Branch("XLClang", AllOf({"__ibmxl__", "__clang__"}),
              Parts(<<"__ibmxl_version__", "__ibmxl_release__", "__ibmxl_modification__",
                      "__ibmxl_ptf_fix_level__">>)),
       Branch("XL", native /\ i >= 800, Decs(Layout(i, 100, 10))),
       Branch("VisualAge", native /\ i < 800, Decs(Layout(i, 100, 10)))>>

NvidiaToOrange ==
  LET t == Val("__TI_COMPILER_VERSION__")  g == Val("__GHS_VERSION_NUMBER")  v == Val("__VERSION__")
      fcc == Parts(<<"__FCC_major__", "__FCC_minor__", "__FCC_patchlevel__">>)
  IN <<Branch("NVHPC", Has("__NVCOMPILER"),
              Parts(<<"__NVCOMPILER_MAJOR__", "__NVCOMPILER_MINOR__">>)
                \o <<IfDefined("__NVCOMPILER_PATCHLEVEL__")>>),
       Branch("PGI", Has("__PGI"),
              Parts(<<"__PGIC__", "__PGIC_MINOR__">>) \o <<IfDefined("__PGIC_PATCHLEVEL__")>>),
       Branch("CrayClang", AllOf({"__clang__", "__cray__"}),
              Parts(<<"__cray_major__", "__cray_minor__", "__cray_patchlevel__">>)),
       Branch("Cray", Has("_CRAYC"), Parts(<<"_RELEASE_MAJOR", "_RELEASE_MINOR">>)),
       Branch("TI", Has("__TI_COMPILER_VERSION__"), Decs(Layout(t, 1000000, 1000))),
       Branch("FujitsuClang", Has("__CLANG_FUJITSU"), fcc),
       Branch("Fujitsu", Has("__FUJITSU"),
              IF ~Has("__FCC_version__") /\ Has("__FCC_major__") THEN fcc ELSE <<>>),
       Branch("GHS", Has("__ghs__"),
              IF Has("__GHS_VERSION_NUMBER") THEN Decs(Layout(g, 100, 10)) ELSE <<>>),
       Branch("Tasking", Has("__TASKING__"), Decs(<<v \div 1000, v % 100>>)),
       Branch("OrangeC", Has("__ORANGEC__"),
              Parts(<<"__ORANGEC_MAJOR__", "__ORANGEC_MINOR__", "__ORANGEC_PATCHLEVEL__">>))>>

TinyToARMCC ==
  LET a == Val("__ARMCC_VERSION") IN
  <<Named("TinyCC", {"__TINYC__"}), Named("Bruce", {"__BCC__"}), Named("SCO", {"__SCO_VERSION__"}),
    Branch("ARMCC", Has("__ARMCC_VERSION") /\ ~Has("__clang__"),
           Decs(IF a >= 1000000 THEN Layout(a, 1000000, 10000) ELSE Layout(a, 100000, 10000)))>>

ClangParts == Parts(<<"__clang_major__", "__clang_minor__", "__clang_patchlevel__">>)

AppleClang ==
  Branch("AppleClang", AllOf({"__clang__", "__apple_build_version__"}),
         ClangParts \o Parts(<<"__apple_build_version__">>))
ARMClang ==
  Branch("ARMClang", AllOf({"__clang__", "__ARMCOMPILER_VERSION"}),
         Decs(Layout(Val("__ARMCOMPILER_VERSION") \div 100, 10000, 100)))
Clang == Branch("Clang", Has("__clang__"), ClangParts)
LCC ==
  LET l == Val("__LCC__") IN
  Branch("LCC", Has("__LCC__") /\ AnyOf({"__GNUC__", "__GNUG__", "__MCST__"}),
         Decs(<<l \div 100, l % 100>>) \o <<IfDefined("__LCC_MINOR__")>>)
GNU ==
  Branch("GNU", Has("__GNUC__"),
         <<IfDefined("__GNUC__"), IfDefined("__GNUC_MINOR__"), IfDefined("__GNUC_PATCHLEVEL__")>>)

ClangToGNUBug == <<GNU, AppleClang, ARMClang, Clang, LCC>>
ClangToGNU == <<AppleClang, ARMClang, Clang, LCC, GNU>>

Microsoft ==
  LET m == Val("_MSC_VER")  f == Val("_MSC_FULL_VER") IN
  Branch("MSVC", Has("_MSC_VER"),
         Decs(<<m \div 100, m % 100>>)
           \o <<IF Has("_MSC_FULL_VER") THEN Dec(f % (IF m >= 1400 THEN 100000 ELSE 10000)) ELSE <<>>,
                IfDefined("_MSC_BUILD")>>)

IarTargets ==
  {"__ICCAVR__", "__ICCRX__", "__ICCRH850__", "__ICCRL78__", "__ICC430__",
   "__ICCRISCV__", "__ICCV850__", "__ICC8051__", "__ICCSTM8__"}

AnalogToUnknown ==
  LET a == Val("__VERSIONNUM__")  v == Val("__VER__")  s == Val("SDCC") IN
  <<Branch("ADSP", Has("_ADI_COMPILER"),
           IF Has("__VERSIONNUM__")
           THEN Decs(<<Byte(a, 3), Byte(a, 2), Byte(a, 1), Byte(a, 0)>>) ELSE <<>>),
    Branch("IAR", AnyOf({"__IAR_SYSTEMS_ICC__", "__IAR_SYSTEMS_ICC"}),
           CASE AllOf({"__VER__", "__ICCARM__"}) -> Decs(Layout(v, 1000000, 1000))
             [] Has("__VER__") /\ ~Has("__ICCARM__") /\ AnyOf(IarTargets) ->
                  Decs(<<v \div 100, v % 100, Val("__SUBVERSION__")>>)
             [] OTHER -> <<>>),
    Branch("SDCC", AnyOf({"__SDCC_VERSION_MAJOR", "SDCC"}),
           IF Has("__SDCC_VERSION_MAJOR")
           THEN Parts(<<"__SDCC_VERSION_MAJOR", "__SDCC_VERSION_MINOR", "__SDCC_VERSION_PATCH">>)
           ELSE Decs(Layout(s, 100, 10))),
    Named("HP", {"__hpux", "__hpua"}), Otherwise("")>>

Compilers ==
  <<Branch("Intel", AnyOf({"__INTEL_COMPILER", "__ICC"}), IntelCompiler),
    Branch("IntelLLVM", AllOf({"__clang__", "__INTEL_CLANG_COMPILER"}) \/ Has("__INTEL_LLVM_COMPILER"),
           IntelLLVM)>>
  \o PathScaleToWatcom \o SunProToIBM \o NvidiaToOrange \o TinyToARMCC \o ClangToGNU
  \o <<Microsoft>> \o AnalogToUnknown

\* COMPILER_VERSION, a string that one compiler has ready.
COMPILER_VERSION ==
  IF found.id = "Fujitsu" /\ Has("__FCC_version__") THEN macro["__FCC_version__"] ELSE <<>>

\* COMPILER_VERSION_INTERNAL, a number, and COMPILER_VERSION_INTERNAL_STR.
InternalNumber ==
  CASE found.id = "Fujitsu" ->
         IfDefined(IF Has("__fcc_version") THEN "__fcc_version" ELSE "__FCC_VERSION")
    [] found.id = "Tasking" -> Dec(Val("__VERSION__"))
    [] found.id = "ARMClang" -> Dec(Val("__ARMCOMPILER_VERSION"))
    [] found.id = "IAR" /\ Has("__VER__") /\ AnyOf(IarTargets \cup {"__ICCARM__"}) ->
         Dec(Val("__IAR_SYSTEMS_ICC__"))
    [] OTHER -> <<>>
InternalText ==
  IF found.id \in {"CrayClang", "FujitsuClang"} THEN macro["__clang_version__"] ELSE <<>>

\* SIMULATE_ID and SIMULATE_VERSION_*: the compiler it pretends to be.  The
\* definitions for GNU come after those for MSVC and replace them.
SIMULATE_ID(id) ==
  LET intel == id \in {"Intel", "IntelLLVM"} IN
  First(<<When("GNU", intel /\ Has("__GNUC__")),
          When("MSVC", (intel \/ id \in {"AppleClang", "Clang"}) /\ Has("_MSC_VER")),
          When("GNU", id = "LCC" /\ AllOf({"__GNUC__", "__GNUC_MINOR__"})), Otherwise("")>>).id

SimulatedMSVCBug == Decs(<<Val("_MSC_VER") \div 100, Val("_MSC_VER") % 10>>)
SimulatedMSVC == IF Has("_MSC_VER") THEN Decs(<<Val("_MSC_VER") \div 100, Val("_MSC_VER") % 100>>)
                                    ELSE <<<<>>, <<>>>>
SimulatedVersion(id) ==
  CASE id \in {"Intel", "IntelLLVM"} ->
         <<First(<<Named(IfDefined("__GNUC__"), {"__GNUC__"}), Named(IfDefined("__GNUG__"), {"__GNUG__"}),
                   Otherwise(SimulatedMSVC[1])>>).id,
           IF Has("__GNUC_MINOR__") THEN IfDefined("__GNUC_MINOR__") ELSE SimulatedMSVC[2],
           IfDefined("__GNUC_PATCHLEVEL__")>>
    [] id \in {"AppleClang", "Clang"} -> SimulatedMSVC
    [] id = "LCC" /\ AllOf({"__GNUC__", "__GNUC_MINOR__"}) ->
         Parts(<<"__GNUC__", "__GNUC_MINOR__">>) \o <<IfDefined("__GNUC_PATCHLEVEL__")>>
    [] OTHER -> <<<<>>>>

-----------------------------------------------------------------------------
(* The default version of the language                                     *)

C_VERSION ==
  LET s == Val("__STDC_VERSION__")  plain == ~AnyOf({"__STDC__", "__clang__"}) IN
  First(<<When("90", plain /\ AnyOf({"_MSC_VER", "__ibmxl__", "__IBMC__"})), When("", plain),
          When("23", s > 201710), When("17", s >= 201710), When("11", s >= 201000),
          When("99", s >= 199901), Otherwise("90")>>).id

Extensions ==
  /\ AnyOf({"__clang__", "__GNUC__", "__xlC__", "__TI_COMPILER_VERSION__"})
  /\ ~Has("__STRICT_ANSI__")

-----------------------------------------------------------------------------
(* The sections of the file                                                *)

\* A string that is defined only on a condition.
String(name, test, text) == IF test THEN name :> text ELSE <<>>
Goto(here, there) == at = here /\ at' = there

Language ==
  /\ Goto("language", IF Has("__cplusplus") THEN "error" ELSE "compiler")
  /\ UNCHANGED <<macro, found, info, require>>

Compiler ==
  /\ Goto("compiler", "versions")
  /\ found' = First(Compilers)
  /\ info' = ("info_compiler" :> found'.id)
               @@ String("info_simulate", SIMULATE_ID(found'.id) # "", SIMULATE_ID(found'.id))
               @@ String("qnxnto", Has("__QNXNTO__"), "")
               @@ String("info_cray", Has("__CRAYXT_COMPUTE_LINUX_TARGET"), "CrayPrgEnv")
  /\ UNCHANGED <<macro, require>>

HasMajor == Shown(found.version) # <<>>
HasSimulatedMajor == Shown(SimulatedVersion(found.id)) # <<>>

Versions ==
  /\ Goto("versions", "machine")
  /\ info' = info
       @@ String("info_version", COMPILER_VERSION # <<>>, COMPILER_VERSION)
       @@ String("info_version", HasMajor, Shown(found.version))
       @@ String("info_version_internal", InternalNumber # <<>>, <<InternalNumber>>)
       @@ String("info_version_internal", InternalText # <<>>, InternalText)
       @@ String("info_simulate_version", HasSimulatedMajor, Shown(SimulatedVersion(found.id)))
  /\ UNCHANGED <<macro, found, require>>

Machine ==
  /\ Goto("machine", "standard")
  /\ info' = info @@ ("info_platform" :> PLATFORM_ID) @@ ("info_arch" :> ARCHITECTURE_ID)
  /\ UNCHANGED <<macro, found, require>>

Standard ==
  /\ Goto("standard", "main")
  /\ info' = info @@ ("info_language_standard_default" :> C_VERSION)
                  @@ ("info_language_extensions_default" :> IF Extensions THEN "ON" ELSE "OFF")
  /\ UNCHANGED <<macro, found, require>>

Required ==
  {"info_compiler", "info_platform", "info_arch", "info_language_standard_default",
   "info_language_extensions_default"}
    \cup (IF HasMajor THEN {"info_version"} ELSE {})
    \cup (IF InternalNumber # <<>> THEN {"info_version_internal"} ELSE {})
    \cup (IF SIMULATE_ID(found.id) # "" THEN {"info_simulate"} ELSE {})
    \cup (IF HasSimulatedMajor THEN {"info_simulate_version"} ELSE {})
    \cup (IF Has("__CRAYXT_COMPUTE_LINUX_TARGET") THEN {"info_cray"} ELSE {})

Main ==
  /\ Goto("main", "compiled")
  /\ require' = (IF Has("__18CXX") THEN {} ELSE Required)
  /\ UNCHANGED <<macro, found, info>>

Next == Language \/ Compiler \/ Versions \/ Machine \/ Standard \/ Main
=============================================================================
