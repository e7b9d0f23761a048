------------------------- MODULE SharedMemoryExample -------------------------
(***************************************************************************)
(* ShareMemory/SharedMemoryExample.java: the same service on mapped files. *)
(* Processes run again and again, each run appends an entry of DataLen     *)
(* cells to shared_memory.dat and adds DataLen to the pointer that is      *)
(* mapped from log_pointer.dat.  A cell holds the number of the run that   *)
(* wrote it, 0 stands for a byte never written.  The four bytes of the     *)
(* pointer file are written as the number a little-endian machine reads    *)
(* from them; Java reads and writes them in the other order.               *)
(*                                                                         *)
(* A step is one file operation or one access to mapped memory that others *)
(* can see.  What is written to a mapping survives the process.            *)
(***************************************************************************)
EXTENDS Integers, FiniteSets

CONSTANTS Procs,     \* the processes, each of which may run again
          Size,      \* MEMORY_SIZE
          DataLen,   \* data.length(), and data.getBytes().length
          Missing,   \* log_pointer.dat does not exist
          Empty,     \* log_pointer.dat has no bytes
          Faults,    \* what may go wrong: "crash", "io"
          MaxRuns    \* the bound on the number of runs

ASSUME SizeAssumption == Size \in Nat /\ DataLen \in Nat \ {0} /\ MaxRuns \in Nat
ASSUME FileAssumption == Missing \notin Int /\ Empty \notin Int /\ Missing # Empty
ASSUME FaultsAssumption == Faults \subseteq {"crash", "io"}
\* The constants are Java ints.
ASSUME IntAssumption == Size <= 2147483647 /\ DataLen <= 2147483647

VARIABLES
  file,     \* log_pointer.dat: Missing, Empty or the value it holds
  mem,      \* shared_memory.dat
  runs,     \* the number of runs so far
  pc, ptr,  \* per process: where it is, and main's variable logPointer
  run,      \* the number of its run
  done,     \* the cells of its entry that put has written
  current,  \* currentPointer in updateLogPointer
  shown,    \* the cells the last run printed
  alone,    \* history: whether no two runs have overlapped so far
  whole     \* history: the runs that have written their entry to the end

local == <<runs, ptr, run, done, current, shown>>
history == <<alone, whole>>
vars == <<file, mem, pc, local, history>>

Cells == 0..(Size - 1)
Entry == 0..(DataLen - 1)

Init ==
  /\ file = Missing /\ mem = [i \in Cells |-> 0] /\ runs = 0
  /\ pc = [p \in Procs |-> "off"] /\ ptr = [p \in Procs |-> 0]
  /\ run = [p \in Procs |-> 0] /\ done = [p \in Procs |-> {}]
  /\ current = [p \in Procs |-> 0] /\ shown = [p \in Procs |-> <<>>]
  /\ alone = TRUE /\ whole = {}

At(p, l) == pc[p] = l
Goto(p, l) == pc' = [pc EXCEPT ![p] = l]

Start(p) ==
  /\ At(p, "off") /\ runs < MaxRuns
  /\ runs' = runs + 1 /\ run' = [run EXCEPT ![p] = runs + 1]
  /\ ptr' = [ptr EXCEPT ![p] = 0] /\ done' = [done EXCEPT ![p] = {}]
  /\ current' = [current EXCEPT ![p] = 0] /\ shown' = [shown EXCEPT ![p] = <<>>]
  /\ alone' = (alone /\ \A q \in Procs : At(q, "off"))
  /\ Goto(p, "read") /\ UNCHANGED <<file, mem, whole>>

-----------------------------------------------------------------------------
(* initializeOrRecoverLogPointer and mapSharedMemory                       *)

Byte(n, k) == (n \div 256^k) % 256
SignedByte(b) == IF b < 128 THEN b ELSE b - 256

\* The int whose four bytes are those of n in the other order.
NativeOrderBug(n) == n
BigEndian(n) ==
  SignedByte(Byte(n, 0)) * 256^3 + Byte(n, 1) * 256^2 + Byte(n, 2) * 256 + Byte(n, 3)

RecoveredBug == 0
Recovered == IF file = Missing THEN 0 ELSE BigEndian(file)

\* readInt throws EOFException at the end of an empty file, and main ends.
ReadPointer(p) ==
  /\ At(p, "read")
  /\ \/ file = Empty /\ Goto(p, "off") /\ UNCHANGED ptr
     \/ file # Empty /\ Goto(p, "map") /\ ptr' = [ptr EXCEPT ![p] = Recovered]
  /\ UNCHANGED <<file, mem, runs, run, done, current, shown, history>>

\* The map extends a shorter file with zeros; an IOException ends main.
MapSharedMemory(p) ==
  /\ At(p, "map")
  /\ Goto(p, "position") \/ ("io" \in Faults /\ Goto(p, "off"))
  /\ UNCHANGED <<file, mem, local, history>>

-----------------------------------------------------------------------------
(* main                                                                    *)

FitsBug(p) == ptr[p] \in 0..Size
Fits(p) == ptr[p] \in 0..(Size - DataLen)

\* position() and put() check the limit before they write anything, and the
\* exception they throw is not one main catches.
PositionBuffer(p) ==
  /\ At(p, "position")
  /\ Goto(p, IF Fits(p) THEN "put" ELSE "off")
  /\ UNCHANGED <<file, mem, local, history>>

PutCell(p, i) ==
  /\ At(p, "put") /\ i \notin done[p]
  /\ mem' = [mem EXCEPT ![ptr[p] + i] = run[p]]
  /\ done' = [done EXCEPT ![p] = @ \cup {i}]
  /\ UNCHANGED <<file, runs, pc, ptr, run, current, shown, history>>

WrittenBug(p) == done[p] # {}
Written(p) == done[p] = Entry

OpenedBug == Empty
Opened == IF file = Missing THEN Empty ELSE file

\* updateLogPointer: RandomAccessFile creates a file of no bytes ...
OpenPointerFile(p) ==
  /\ At(p, "put") /\ Written(p)
  /\ \/ file' = Opened /\ Goto(p, "mapptr")
     \/ "io" \in Faults /\ Goto(p, "off") /\ UNCHANGED file
  /\ whole' = whole \cup {run[p]}
  /\ UNCHANGED <<mem, local, alone>>

\* ... which the map extends to four bytes of zero.
MapPointerFile(p) ==
  /\ At(p, "mapptr")
  /\ \/ file' = (IF file = Empty THEN 0 ELSE file) /\ Goto(p, "get")
     \/ "io" \in Faults /\ Goto(p, "off") /\ UNCHANGED file
  /\ UNCHANGED <<mem, local, history>>

\* Where another program has truncated the mapped file there is nothing to
\* read or to change: see SharedLogPointer.
ReadCurrent(p) ==
  /\ At(p, "get") /\ file # Empty
  /\ current' = [current EXCEPT ![p] = BigEndian(file)]
  /\ Goto(p, "add") /\ UNCHANGED <<file, mem, runs, ptr, run, done, shown, history>>

SumBug(p) == current[p] + DataLen + 1
Sum(p) == current[p] + DataLen

\* currentPointer + dataLength is put back: what others added since the read
\* is lost.
AddLength(p) ==
  /\ At(p, "add") /\ file # Empty
  /\ file' = BigEndian(Sum(p))
  /\ Goto(p, "print") /\ UNCHANGED <<mem, local, history>>

\* The entry at the beginning of the memory is read back and printed.
PrintEntry(p) ==
  /\ At(p, "print")
  /\ shown' = [shown EXCEPT ![p] = [i \in Entry |-> mem[i]]]
  /\ Goto(p, "off") /\ UNCHANGED <<file, mem, runs, ptr, run, done, current, history>>

\* The service exits or is killed at any point.
Crash(p) ==
  /\ "crash" \in Faults /\ pc[p] # "off"
  /\ Goto(p, "off") /\ UNCHANGED <<file, mem, local, history>>

Step(p) ==
  \/ ReadPointer(p) \/ MapSharedMemory(p) \/ PositionBuffer(p)
  \/ (\E i \in Entry : PutCell(p, i)) \/ OpenPointerFile(p) \/ MapPointerFile(p)
  \/ ReadCurrent(p) \/ AddLength(p) \/ PrintEntry(p)

Next == \E p \in Procs : Start(p) \/ Step(p) \/ Crash(p)

Spec == Init /\ [][Next]_vars

-----------------------------------------------------------------------------
(* Properties                                                              *)

Places == {"off", "read", "map", "position", "put", "mapptr", "get", "add", "print"}

TypeOK ==
  /\ file \in Int \cup {Missing, Empty}
  /\ mem \in [Cells -> Nat] /\ runs \in Nat
  /\ pc \in [Procs -> Places] /\ ptr \in [Procs -> Int]
  /\ run \in [Procs -> Nat] /\ done \in [Procs -> SUBSET Entry]
  /\ current \in [Procs -> Int]
  /\ shown \in [Procs -> {<<>>} \cup [Entry -> Nat]]
  /\ alone \in BOOLEAN /\ whole \subseteq 1..runs

\* The pointer the next run will find.
Committed == IF file \in Int THEN BigEndian(file) ELSE 0

\* The pointer never counts more entries than have been written to the end,
\* although services that overlap add to it for entries in the same place,
\* one of them may lose what another added, and any may die in between.
CountsWholeEntries == Committed <= DataLen * Cardinality(whole)

\* The room for an entry is tested on one copy of the pointer and another is
\* moved.  As long as runs do not overlap the pointer stays in the memory and
\* at the end of an entry.  Those that do may push it past the end of the
\* memory, since it counts each of the entries they put in one place, and
\* still none of them puts an entry where there is no room for it.
PointerInBounds ==
  /\ alone => Committed \in 0..Size /\ Committed % DataLen = 0
  /\ \A p \in Procs : At(p, "put") => ptr[p] >= 0 /\ ptr[p] + DataLen <= Size

\* The entries below the pointer, each by the run that wrote it.
Logged == [n \in 1..(Committed \div DataLen) |-> mem[(n - 1) * DataLen]]

\* Every entry below the pointer, and what a run prints, is the work of a
\* single run and never a mixture or unwritten bytes, wherever earlier runs
\* died, as long as runs do not overlap.
NoTornEntry ==
  alone =>
    /\ \A n \in DOMAIN Logged, i \in Entry : mem[(n - 1) * DataLen + i] = Logged[n]
    /\ \A p \in Procs :
         shown[p] # <<>> => \E r \in 1..runs : shown[p] = [i \in Entry |-> r]

Log == INSTANCE DurableLog WITH
         Entries <- 1..MaxRuns, Capacity <- Size \div DataLen, log <- Logged

\* Runs that do not overlap, killed at any point and started again, keep the
\* log: an entry that the pointer covers is never changed, and the pointer
\* only moves past one whole new entry at a time.
KeepsLog == Log!Init /\ [][alone' => Log!AppendEntry]_<<Logged, alone>>

\* "Even if the service keeps exiting or restarting, the shared memory can be
\* read and used through the log pointer" (README.md:10): log_pointer.dat
\* holds no pointer only while a run is about to write one.
PointerReadable ==
  file = Empty => \E p \in Procs : At(p, "mapptr")
=============================================================================
