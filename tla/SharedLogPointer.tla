--------------------------- MODULE SharedLogPointer ---------------------------
(***************************************************************************)
(* The C++ and the Java service, run in one directory: each has a memory   *)
(* of its own, /my_shared_memory and shared_memory.dat, but both keep      *)
(* their pointer in log_pointer.dat, one in the byte order of the machine, *)
(* which is little-endian, and one in big-endian order.                    *)
(*                                                                         *)
(* A step is a step of one of the two services, whose modules this one     *)
(* composes with one variable `file'.                                      *)
(***************************************************************************)
EXTENDS Integers

CONSTANTS CppProcs, JavaProcs, Size, DataLen, Missing, Empty,
          CppFaults, JavaFaults, MaxRuns

ASSUME SizeAssumption == Size \in Nat /\ DataLen \in Nat \ {0} /\ MaxRuns \in Nat
ASSUME FileAssumption == Missing \notin Int /\ Empty \notin Int /\ Missing # Empty
ASSUME FaultsAssumption ==
  /\ CppFaults \subseteq {"crash", "disk", "map", "reboot"}
  /\ JavaFaults \subseteq {"crash", "io"}

\* The memories are 1024 bytes and an entry is 21, so all that a service can
\* write in 3120 runs has its pointer in two of the four bytes of the file.
\* Nothing keeps the C++ service from moving its pointer on past the end of the
\* memory, and after those runs it would be in the bytes where Java has its own.
TwoBytes == 65536
ASSUME TwoBytesAssumption ==
  Size < TwoBytes /\ DataLen < TwoBytes /\ DataLen * MaxRuns < TwoBytes - 1

VARIABLES
  file,  \* log_pointer.dat
  cMem, cRuns, cPc, cPtr, cRun, cDone, cShown, cWiped, cAlone,
  jMem, jRuns, jPc, jPtr, jRun, jDone, jCurrent, jShown, jAlone, jWhole

cVars == <<cMem, cRuns, cPc, cPtr, cRun, cDone, cShown, cWiped, cAlone>>
jVars == <<jMem, jRuns, jPc, jPtr, jRun, jDone, jCurrent, jShown, jAlone, jWhole>>

Cpp == INSTANCE ShareMemoryForCpp WITH
         Procs <- CppProcs, Faults <- CppFaults, mem <- cMem, runs <- cRuns,
         pc <- cPc, ptr <- cPtr, run <- cRun, done <- cDone, shown <- cShown,
         wiped <- cWiped, alone <- cAlone

Java == INSTANCE SharedMemoryExample WITH
          Procs <- JavaProcs, Faults <- JavaFaults, mem <- jMem, runs <- jRuns,
          pc <- jPc, ptr <- jPtr, run <- jRun, done <- jDone, current <- jCurrent,
          shown <- jShown, alone <- jAlone, whole <- jWhole

Init == Cpp!Init /\ Java!Init

\* Memory mapped from a file that the C++ service has truncated since cannot
\* be accessed: the Java process is killed, or its thread ends with an error.
LoseMapping(p) ==
  /\ jPc[p] \in {"get", "add"} /\ file = Empty
  /\ Java!Goto(p, "off")
  /\ UNCHANGED <<file, cVars, jMem, jRuns, jPtr, jRun, jDone, jCurrent, jShown, jAlone, jWhole>>

Next ==
  \/ Cpp!Next /\ UNCHANGED jVars
  \/ Java!Next /\ UNCHANGED cVars
  \/ \E p \in JavaProcs : LoseMapping(p)

Spec == Init /\ [][Next]_<<file, cVars, jVars>>

-----------------------------------------------------------------------------
(* Properties                                                              *)

\* Neither service takes the other's pointer for one of its own: a pointer
\* that lies in the memory of a service is not ahead of what that service has
\* written.  The file has no mark of who wrote it; it is the byte orders that
\* make the other's pointer fall outside the memory.
OwnPointerOnly ==
  file \in Int =>
    /\ file \in 0..Size => \A i \in Cpp!Cells : i < file => cMem[i] # 0
    /\ Java!Committed \in 0..Size => \A i \in Java!Cells : i < Java!Committed => jMem[i] # 0

\* The part of the memory that whole entries fill.
EndOfEntries == (Size \div DataLen) * DataLen

\* What the C++ service has logged is not written over, however the Java
\* service extends the file, moves the pointer in it or dies on the way.  Only
\* of an entry that the end of the memory cuts off the first part is written
\* again, by each run that is killed at the end.
CppEntriesStay ==
  [][\A i \in Cpp!Cells : cMem[i] # 0 /\ i < EndOfEntries => cMem'[i] = cMem[i]]_cMem
=============================================================================
