-------------------------- MODULE CompilerMachine ---------------------------
(***************************************************************************)
(* The platform and the architecture that a compiler makes code for: a     *)
(* text that both compiler probes contain word for word.                   *)
(***************************************************************************)
EXTENDS Preprocessor

WatcomPlatform ==
  First(<<Named("Linux", {"__LINUX__"}), Named("DOS", {"__DOS__"}), Named("OS2", {"__OS2__"}),
          Named("Windows3x", {"__WINDOWS__"}), Named("VxWorks", {"__VXWORKS__"}), Otherwise("")>>).id

WindowsPlatforms ==
  <<Named("MSYS", {"__MSYS__"}), Named("Cygwin", {"__CYGWIN__"}), Named("MinGW", {"__MINGW32__"}),
    Named("Darwin", {"__APPLE__"}), Named("Windows", {"_WIN32", "__WIN32__", "WIN32"})>>

PLATFORM_ID ==
  First(<<Named("Linux", {"__linux", "__linux__", "linux"})>> \o WindowsPlatforms \o
        <<Named("FreeBSD", {"__FreeBSD__", "__FreeBSD"}), Named("NetBSD", {"__NetBSD__", "__NetBSD"}),
          Named("OpenBSD", {"__OpenBSD__", "__OPENBSD"}), Named("SunOS", {"__sun", "sun"}),
          Named("AIX", {"_AIX", "__AIX", "__AIX__", "__aix", "__aix__"}),
          Named("HP-UX", {"__hpux", "__hpux__"}), Named("Haiku", {"__HAIKU__"}),
          Named("BeOS", {"__BeOS", "__BEOS__", "_BEOS"}), Named("QNX", {"__QNX__", "__QNXNTO__"}),
          Named("Tru64", {"__tru64", "_tru64", "__TRU64__"}), Named("RISCos", {"__riscos", "__riscos__"}),
          Named("SINIX", {"__sinix", "__sinix__", "__SINIX__"}), Named("UNIX_SV", {"__UNIX_SV__"}),
          Named("BSDOS", {"__bsdos__"}), Named("MP-RAS", {"_MPRAS", "MPRAS"}),
          Named("OSF1", {"__osf", "__osf__"}), Named("SCO_SV", {"_SCO_SV", "SCO_SV", "sco_sv"}),
          Named("ULTRIX", {"__ultrix", "__ultrix__", "_ULTRIX"}),
          Named("Xenix", {"__XENIX__", "_XENIX", "XENIX"}), Named(WatcomPlatform, {"__WATCOMC__"}),
          When("Integrity178", AllOf({"__INTEGRITY", "INT_178B"})), Named("Integrity", {"__INTEGRITY"}),
          Named("ADSP", {"_ADI_COMPILER"}), Otherwise("")>>).id

MicrosoftArchitecture ==
  First(<<Named("IA64", {"_M_IA64"}), Named("ARM64EC", {"_M_ARM64EC"}),
          Named("x64", {"_M_X64", "_M_AMD64"}),
          Named("X86", {"_M_IX86"}), Named("ARM64", {"_M_ARM64"}),
          When("ARMV4I", Val("_M_ARM") = 4), When("ARMV5I", Val("_M_ARM") = 5),
          Named("ARMV" \o ToString(Val("_M_ARM")), {"_M_ARM"}),
          Named("MIPS", {"_M_MIPS"}), Named("SHx", {"_M_SH"}), Otherwise("")>>).id

WatcomArchitecture == First(<<Named("I86", {"_M_I86"}), Named("X86", {"_M_IX86"}), Otherwise("")>>).id

IarArchitecture ==
  First(<<Named("ARM", {"__ICCARM__"}), Named("RX", {"__ICCRX__"}), Named("RH850", {"__ICCRH850__"}),
          Named("RL78", {"__ICCRL78__"}), Named("RISCV", {"__ICCRISCV__"}), Named("AVR", {"__ICCAVR__"}),
          Named("MSP430", {"__ICC430__"}), Named("V850", {"__ICCV850__"}), Named("8051", {"__ICC8051__"}),
          Named("STM8", {"__ICCSTM8__"}), Otherwise("")>>).id

GhsArchitecture ==
  First(<<Named("PPC64", {"__PPC64__"}), Named("PPC", {"__ppc__"}), Named("ARM", {"__ARM__"}),
          Named("x64", {"__x86_64__"}), Named("X86", {"__i386__"}), Otherwise("")>>).id

TIArchitecture ==
  First(<<Named("ARM", {"__TI_ARM__"}), Named("MSP430", {"__MSP430__"}),
          Named("TMS320C28x", {"__TMS320C28XX__"}),
          Named("TMS320C6x", {"__TMS320C6X__", "_TMS320C6X"}), Otherwise("")>>).id

TaskingArchitecture ==
  First(<<Named("TriCore", {"__CTC__", "__CPTC__"}), Named("MCS", {"__CMCS__"}),
          Named("ARM", {"__CARM__"}), Named("ARC", {"__CARC__"}),
          Named("8051", {"__C51__"}), Named("PCP", {"__CPCP__"}), Otherwise("")>>).id

ARCHITECTURE_ID ==
  First(<<When(MicrosoftArchitecture, AllOf({"_WIN32", "_MSC_VER"})),
          Named(WatcomArchitecture, {"__WATCOMC__"}),
          Named(IarArchitecture, {"__IAR_SYSTEMS_ICC__", "__IAR_SYSTEMS_ICC"}),
          Named(GhsArchitecture, {"__ghs__"}), Named(TIArchitecture, {"__TI_COMPILER_VERSION__"}),
          Named("SHARC", {"__ADSPSHARC__"}), Named("Blackfin", {"__ADSPBLACKFIN__"}),
          Named(TaskingArchitecture, {"__TASKING__"}), Otherwise("")>>).id
=============================================================================
