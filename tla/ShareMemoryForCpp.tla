-------------------------- MODULE ShareMemoryForCpp --------------------------
(***************************************************************************)
(* ShareMemory/ShareMemoryForCpp.cpp: processes that are started again and *)
(* again, and in each run append one entry to the shared memory object and *)
(* move the log pointer, which is kept in the file log_pointer.dat, past   *)
(* it.  The memory is Size cells, an entry DataLen cells; a cell holds the     *)
(* number of the run that wrote it, 0 stands for NUL.                      *)
(*                                                                         *)
(* A step is one system call or one store, so another process, or the end  *)
(* of this one, may come between any two of them.  Process memory is lost  *)
(* at the end of a run; the file and the memory object stay.  A restart of *)
(* the machine ends every run and loses the memory object, not the file.   *)
(***************************************************************************)
EXTENDS Integers

CONSTANTS Procs,     \* the processes, each of which may run again
          Size,      \* SHARED_MEMORY_SIZE
          DataLen,       \* strlen(data)
          Missing,   \* log_pointer.dat does not exist
          Empty,     \* log_pointer.dat has no bytes
          Faults,    \* what may go wrong: "crash", "disk", "map", "reboot"
          MaxRuns    \* the bound on the number of runs

ASSUME SizeAssumption == Size \in Nat /\ DataLen \in Nat \ {0} /\ MaxRuns \in Nat
ASSUME FileAssumption == Missing \notin Int /\ Empty \notin Int /\ Missing # Empty
ASSUME FaultsAssumption == Faults \subseteq {"crash", "disk", "map", "reboot"}

VARIABLES
  file,     \* log_pointer.dat: Missing, Empty or the value it holds
  mem,      \* the shared memory object
  runs,     \* the number of runs so far
  pc, ptr,  \* per process: where it is, and its variable logPointer
  run,      \* the number of its run
  done,     \* the cells of its entry that memcpy has written
  shown,    \* the number of cells the last run printed
  wiped,    \* history: the logged cells the last restart of the machine lost
  alone     \* history: whether no two runs have overlapped so far

local == <<runs, ptr, run, done, shown>>
history == <<wiped, alone>>
vars == <<file, mem, pc, local, history>>

Cells == 0..(Size - 1)
Entry == 0..(DataLen - 1)

Init ==
  /\ file = Missing /\ mem = [i \in Cells |-> 0] /\ runs = 0
  /\ pc = [p \in Procs |-> "off"] /\ ptr = [p \in Procs |-> 0]
  /\ run = [p \in Procs |-> 0] /\ done = [p \in Procs |-> {}]
  /\ shown = [p \in Procs |-> 0] /\ wiped = {} /\ alone = TRUE

At(p, l) == pc[p] = l
Goto(p, l) == pc' = [pc EXCEPT ![p] = l]

Start(p) ==
  /\ At(p, "off") /\ runs < MaxRuns
  /\ runs' = runs + 1 /\ run' = [run EXCEPT ![p] = runs + 1]
  /\ ptr' = [ptr EXCEPT ![p] = 0] /\ done' = [done EXCEPT ![p] = {}]
  /\ shown' = [shown EXCEPT ![p] = 0]
  /\ alone' = (alone /\ \A q \in Procs : At(q, "off"))
  /\ Goto(p, "open") /\ UNCHANGED <<file, mem, wiped>>

-----------------------------------------------------------------------------
(* initializeOrRecoverLogPointer                                           *)

\* read() into logPointer leaves its 0 alone when there is nothing to read.
RecoveredBug == 0
RecoveredRawBug == file
Recovered == IF file = Empty THEN 0 ELSE file

OpenPointer(p) ==
  /\ At(p, "open")
  /\ \/ file = Missing /\ Goto(p, "create") /\ UNCHANGED ptr
     \/ file # Missing /\ Goto(p, "map") /\ ptr' = [ptr EXCEPT ![p] = Recovered]
  /\ UNCHANGED <<file, mem, runs, run, done, shown, history>>

\* The second open() is ios::out alone: it creates the file, and truncates
\* the one another process may have created since.
CreatePointer(p) ==
  /\ At(p, "create")
  /\ file' = Empty
  /\ Goto(p, "init") /\ UNCHANGED <<mem, local, history>>

\* Nobody looks at the state of the stream: a write that fails is lost.
InitPointer(p) ==
  /\ At(p, "init")
  /\ file' = 0 \/ ("disk" \in Faults /\ file' = file)
  /\ Goto(p, "map") /\ UNCHANGED <<mem, local, history>>

-----------------------------------------------------------------------------
(* main                                                                    *)

\* shm_open, ftruncate and mmap; after a failure main returns 1.
MapMemory(p) ==
  /\ At(p, "map")
  /\ Goto(p, "write") \/ ("map" \in Faults /\ Goto(p, "off"))
  /\ UNCHANGED <<file, mem, local, history>>

\* One store of memcpy, which may make them in any order.  What a store past
\* the end of the memory object does is undefined: it goes to the rest of the
\* page, where it is lost, or it kills the process.
WriteCell(p, i) ==
  LET a == ptr[p] + i IN
  /\ At(p, "write") /\ i \notin done[p]
  /\ IF a \in Cells THEN mem' = [mem EXCEPT ![a] = run[p]] ELSE mem' = mem
  /\ \/ done' = [done EXCEPT ![p] = @ \cup {i}] /\ UNCHANGED pc
     \/ a \notin Cells /\ Goto(p, "off") /\ UNCHANGED done
  /\ UNCHANGED <<file, runs, ptr, run, shown, history>>

WrittenBug(p) == done[p] # {}
Written(p) == done[p] = Entry

EndOfEntryBug(p) == ptr[p] + DataLen + 1
EndOfEntry(p) == ptr[p] + DataLen

MovePointer(p) ==
  /\ At(p, "write") /\ Written(p)
  /\ ptr' = [ptr EXCEPT ![p] = EndOfEntry(p)]
  /\ Goto(p, "truncate") /\ UNCHANGED <<file, mem, runs, run, done, shown, history>>

\* updateLogPointer opens with ios::trunc, and writes at the close.  Neither
\* failure is noticed.
TruncatePointer(p) ==
  /\ At(p, "truncate")
  /\ \/ file' = Empty /\ Goto(p, "store")
     \/ "disk" \in Faults /\ file' = file /\ Goto(p, "print")
  /\ UNCHANGED <<mem, local, history>>

StorePointer(p) ==
  /\ At(p, "store")
  /\ file' = ptr[p] \/ ("disk" \in Faults /\ file' = file)
  /\ Goto(p, "print") /\ UNCHANGED <<mem, local, history>>

\* The memory is printed as a C string: up to the first NUL.
PrintMemory(p) ==
  /\ At(p, "print")
  /\ shown' = [shown EXCEPT ![p] =
       CHOOSE n \in 0..Size :
         (\A i \in 0..(n - 1) : mem[i] # 0) /\ (n < Size => mem[n] = 0)]
  /\ Goto(p, "close") /\ UNCHANGED <<file, mem, runs, ptr, run, done, history>>

Close(p) ==
  /\ At(p, "close")
  /\ Goto(p, "off") /\ UNCHANGED <<file, mem, local, history>>

\* The service exits or is killed at any point.
Crash(p) ==
  /\ "crash" \in Faults /\ pc[p] # "off"
  /\ Goto(p, "off") /\ UNCHANGED <<file, mem, local, history>>

LostByReboot == IF file \in Nat THEN {i \in Cells : i < file} ELSE {}

\* The memory object lives in memory: shm_open makes a new one, of NULs,
\* after the machine was restarted.  Nobody checks that the pointer fits it.
Reboot ==
  /\ "reboot" \in Faults
  /\ mem' = [i \in Cells |-> 0] /\ pc' = [p \in Procs |-> "off"]
  /\ wiped' = LostByReboot
  /\ UNCHANGED <<file, local, alone>>

Step(p) ==
  \/ OpenPointer(p) \/ CreatePointer(p) \/ InitPointer(p) \/ MapMemory(p)
  \/ (\E i \in Entry : WriteCell(p, i)) \/ MovePointer(p)
  \/ TruncatePointer(p) \/ StorePointer(p) \/ PrintMemory(p) \/ Close(p)

Next == Reboot \/ \E p \in Procs : Start(p) \/ Step(p) \/ Crash(p)

Spec == Init /\ [][Next]_vars

-----------------------------------------------------------------------------
(* Properties                                                              *)

Places == {"off", "open", "create", "init", "map", "write", "truncate",
           "store", "print", "close"}

TypeOK ==
  /\ file \in Nat \cup {Missing, Empty}
  /\ mem \in [Cells -> Nat] /\ runs \in Nat
  /\ pc \in [Procs -> Places] /\ ptr \in [Procs -> Nat]
  /\ run \in [Procs -> Nat] /\ done \in [Procs -> SUBSET Entry]
  /\ shown \in [Procs -> 0..Size] /\ wiped \subseteq Cells /\ alone \in BOOLEAN

Filled(n) == \A i \in Cells : i < n => (mem[i] # 0 \/ i \in wiped)

\* The log pointer is never ahead of the data, in the file or in a process:
\* whatever it says has been logged has been written, although processes
\* race for the same place, die at any point and lose the pointer.  Only a
\* restart of the machine, which loses the memory alone, makes holes.
NoHoles ==
  /\ file \in Nat => Filled(file)
  /\ \A p \in Procs : pc[p] # "off" => Filled(ptr[p])

\* The string a run prints goes at least as far as the entry it has logged,
\* so that it shows its own entry and every earlier one, or it stops at a
\* cell that a restart of the machine has lost.
ReadsBack ==
  \A p \in Procs : At(p, "close") =>
    \/ shown[p] >= (IF ptr[p] < Size THEN ptr[p] ELSE Size)
    \/ shown[p] \in wiped

\* The pointer the service is committed to: while it is being replaced in the
\* file, the one it had.
Committed ==
  CASE file \in Nat -> file
    [] \E p \in Procs : At(p, "store") -> ptr[CHOOSE p \in Procs : At(p, "store")] - DataLen
    [] OTHER -> 0

\* The part of the memory that the committed pointer says is in use.
End == IF Committed < Size THEN Committed ELSE Size
Below == 0..(End - 1)

\* The log goes back to the last hole in that part; each entry is known by the
\* run that wrote it.  The last one may be cut off by the end of the memory,
\* and what was to be logged beyond it is in no log.
IsStart(b) == \A i \in Below : (b <= i) <=> \A j \in Below : i <= j => mem[j] # 0
Base == CHOOSE b \in 0..End : IsStart(b)
LoggedEntries == (End - Base + (DataLen - 1)) \div DataLen
Logged == [n \in 1..LoggedEntries |-> mem[Base + (n - 1) * DataLen]]

\* Runs that do not overlap leave whole entries below the committed pointer:
\* no crash in the middle of memcpy makes a mixture that counts as logged.
NoTornEntry ==
  alone =>
    \A n \in DOMAIN Logged, i \in Entry :
      LET a == Base + (n - 1) * DataLen + i IN a \in Cells => mem[a] = Logged[n]

\* Nothing is said of the log once two runs have overlapped.
Log == INSTANCE DurableLog WITH
         Entries <- 1..MaxRuns, Capacity <- MaxRuns,
         log <- IF alone THEN Logged ELSE <<>>

\* Runs that do not overlap keep the log, except that a crash, a full disk or
\* a restart of the machine can lose every entry at once.
KeepsLogOrLosesPointer == Log!LossySpec

\* "Even if the service keeps exiting or restarting, the shared memory can be
\* read and used through the log pointer" (README.md:10): what a run has
\* logged no later run writes over.
KeepsLog == Log!Spec
=============================================================================
