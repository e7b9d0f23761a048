----------------------- MODULE ShareMemoryForCppProofs -----------------------
(***************************************************************************)
(* What TLAPS proves about ShareMemoryForCpp, for any processes and sizes: *)
(* the log pointer is never ahead of the data, a run prints at least as    *)
(* far as its own entry, and runs that do not overlap keep a log of whole  *)
(* entries until they lose all of it.                                      *)
(***************************************************************************)
EXTENDS ShareMemoryForCpp, Sequences, WellFoundedInduction, TLAPS

\* What memcpy has written of an entry is in the memory.
DoneIsWritten ==
  \A p \in Procs :
    /\ pc[p] \in {"open", "create", "init", "map"} => done[p] = {}
    /\ At(p, "write") =>
         \A i \in done[p] : ptr[p] + i \in Cells => mem[ptr[p] + i] # 0

\* NUL is no run's number.
RunsCount == \A p \in Procs : pc[p] # "off" => run[p] # 0

Inv == TypeOK /\ NoHoles /\ DoneIsWritten /\ RunsCount /\ ReadsBack

\* A memory has a first NUL, or none.
LEMMA FirstNul ==
  ASSUME TypeOK
  PROVE  \E n \in 0..Size :
           (\A i \in 0..(n - 1) : mem[i] # 0) /\ (n < Size => mem[n] = 0)
<1> USE SizeAssumption
<1> DEFINE Ends == {n \in 0..Size : n < Size => mem[n] = 0}
<1>1. Ends # {} /\ Ends \subseteq Nat
  <2>1. Size \in Ends
    OBVIOUS
  <2>2. QED
    BY <2>1
<1>2. PICK n \in Ends : \A m \in Ends : ~(<<m, n>> \in OpToRel(<, Nat))
  BY <1>1, WFMin, NatLessThanWellFounded
<1>3. \A m \in Ends : ~(m < n)
  BY <1>1, <1>2 DEF OpToRel
<1>4. QED
  BY <1>3

\* Nothing a process or a crash does takes a cell of the memory back to NUL; a
\* restart of the machine, which does, notes what it takes.
LEMMA InvStep == Inv /\ [Next]_vars => Inv'
<1> USE SizeAssumption, FileAssumption DEF Places, Cells, Entry, At, Goto, local, history
<1> SUFFICES ASSUME Inv, [Next]_vars PROVE Inv'
  OBVIOUS
<1> USE DEF Inv
<1>1. ASSUME NEW p \in Procs, Start(p) PROVE Inv'
  <2>1. TypeOK'
    BY <1>1 DEF Start, TypeOK
  <2>2. NoHoles'
    BY <1>1 DEF Start, TypeOK, NoHoles, Filled
  <2>3. DoneIsWritten' /\ RunsCount'
    BY <1>1 DEF Start, TypeOK, DoneIsWritten, RunsCount
  <2>4. ReadsBack'
    BY <1>1 DEF Start, TypeOK, ReadsBack
  <2>5. QED
    BY <2>1, <2>2, <2>3, <2>4
<1>2. ASSUME NEW p \in Procs, OpenPointer(p) PROVE Inv'
  <2>1. file # Missing => Recovered \in Nat /\ Filled(Recovered)
    BY DEF Recovered, TypeOK, NoHoles, Filled
  <2>2. CASE pc' = [pc EXCEPT ![p] = "create"] /\ ptr' = ptr
    BY <1>2, <2>2
       DEF OpenPointer, TypeOK, NoHoles, Filled, DoneIsWritten, RunsCount, ReadsBack
  <2>3. CASE file # Missing /\ pc' = [pc EXCEPT ![p] = "map"]
             /\ ptr' = [ptr EXCEPT ![p] = Recovered]
    <3>1. UNCHANGED <<file, mem, runs, run, done, shown, wiped, alone>>
      BY <1>2 DEF OpenPointer
    <3>2. TypeOK'
      BY <2>1, <2>3, <3>1 DEF TypeOK
    <3>3. NoHoles'
      BY <2>1, <2>3, <3>1 DEF TypeOK, NoHoles, Filled
    <3>4. DoneIsWritten' /\ RunsCount' /\ ReadsBack'
      BY <1>2, <2>3, <3>1 DEF OpenPointer, TypeOK, DoneIsWritten, RunsCount, ReadsBack
    <3>5. QED
      BY <3>2, <3>3, <3>4
  <2>4. QED
    BY <1>2, <2>2, <2>3 DEF OpenPointer
<1>3. ASSUME NEW p \in Procs, CreatePointer(p) PROVE Inv'
  <2>1. TypeOK' /\ NoHoles'
    BY <1>3 DEF CreatePointer, TypeOK, NoHoles, Filled
  <2>2. DoneIsWritten' /\ RunsCount' /\ ReadsBack'
    BY <1>3 DEF CreatePointer, TypeOK, DoneIsWritten, RunsCount, ReadsBack
  <2>3. QED
    BY <2>1, <2>2
<1>4. ASSUME NEW p \in Procs, InitPointer(p) PROVE Inv'
  <2>1. TypeOK'
    BY <1>4 DEF InitPointer, TypeOK
  <2>2. NoHoles'
    BY <1>4 DEF InitPointer, TypeOK, NoHoles, Filled
  <2>3. DoneIsWritten' /\ RunsCount' /\ ReadsBack'
    BY <1>4 DEF InitPointer, TypeOK, DoneIsWritten, RunsCount, ReadsBack
  <2>4. QED
    BY <2>1, <2>2, <2>3
<1>5. ASSUME NEW p \in Procs, MapMemory(p) PROVE Inv'
  <2>1. CASE pc' = [pc EXCEPT ![p] = "write"]
    BY <1>5, <2>1 DEF MapMemory, TypeOK, NoHoles, Filled, DoneIsWritten, RunsCount, ReadsBack
  <2>2. CASE pc' = [pc EXCEPT ![p] = "off"]
    BY <1>5, <2>2 DEF MapMemory, TypeOK, NoHoles, Filled, DoneIsWritten, RunsCount, ReadsBack
  <2>3. QED
    BY <1>5, <2>1, <2>2 DEF MapMemory
<1>6. ASSUME NEW p \in Procs, NEW i \in Entry, WriteCell(p, i) PROVE Inv'
  <2> DEFINE a == ptr[p] + i
  <2>1. TypeOK'
    <3>1. mem' \in [Cells -> Nat]
      BY <1>6 DEF WriteCell, TypeOK
    <3>2. CASE done' = [done EXCEPT ![p] = @ \cup {i}] /\ pc' = pc
      BY <1>6, <3>1, <3>2 DEF WriteCell, TypeOK
    <3>3. CASE pc' = [pc EXCEPT ![p] = "off"] /\ done' = done
      BY <1>6, <3>1, <3>3 DEF WriteCell, TypeOK
    <3>4. QED
      BY <1>6, <3>2, <3>3 DEF WriteCell
  <2>2. \A j \in Cells : mem[j] # 0 => mem'[j] # 0
    BY <1>6 DEF WriteCell, TypeOK, RunsCount
  <2>3. NoHoles'
    BY <1>6, <2>2 DEF WriteCell, TypeOK, NoHoles, Filled
  <2>4. DoneIsWritten'
    <3>1. a \in Cells => mem'[a] # 0
      BY <1>6 DEF WriteCell, TypeOK, RunsCount
    <3>2. CASE done' = [done EXCEPT ![p] = @ \cup {i}] /\ pc' = pc /\ ptr' = ptr
      <4>1. \A q \in Procs, j \in Entry :
              j \in done'[q] => j \in done[q] \/ (q = p /\ j = i)
        BY <3>2 DEF TypeOK
      <4>2. QED
        BY <1>6, <2>1, <2>2, <3>1, <3>2, <4>1 DEF WriteCell, TypeOK, DoneIsWritten
    <3>3. CASE pc' = [pc EXCEPT ![p] = "off"] /\ done' = done /\ ptr' = ptr
      BY <2>2, <3>3 DEF TypeOK, DoneIsWritten
    <3>4. QED
      BY <1>6, <3>2, <3>3 DEF WriteCell
  <2>5. RunsCount' /\ ReadsBack'
    BY <1>6 DEF WriteCell, TypeOK, RunsCount, ReadsBack
  <2>6. QED
    BY <2>1, <2>3, <2>4, <2>5
<1>7. ASSUME NEW p \in Procs, MovePointer(p) PROVE Inv'
  <2>1. TypeOK'
    BY <1>7 DEF MovePointer, EndOfEntry, TypeOK
  <2>2. Filled(ptr[p] + DataLen)
    <3>1. SUFFICES ASSUME NEW i \in Cells, i < ptr[p] + DataLen
                   PROVE  mem[i] # 0 \/ i \in wiped
      BY DEF Filled
    <3>2. CASE i < ptr[p]
      BY <1>7, <3>2 DEF MovePointer, NoHoles, Filled
    <3>3. CASE ~(i < ptr[p])
      <4>1. i - ptr[p] \in done[p]
        BY <1>7, <3>1, <3>3 DEF MovePointer, Written, TypeOK
      <4>2. QED
        <5>1. ptr[p] + (i - ptr[p]) = i
          BY <1>7 DEF TypeOK
        <5>2. QED
          BY <1>7, <4>1, <5>1 DEF MovePointer, DoneIsWritten
    <3>4. QED
      BY <3>2, <3>3
  <2>3. NoHoles'
    BY <1>7, <2>2 DEF MovePointer, EndOfEntry, TypeOK, NoHoles, Filled
  <2>4. DoneIsWritten' /\ RunsCount' /\ ReadsBack'
    BY <1>7 DEF MovePointer, TypeOK, DoneIsWritten, RunsCount, ReadsBack
  <2>5. QED
    BY <2>1, <2>3, <2>4
<1>8. ASSUME NEW p \in Procs, TruncatePointer(p) PROVE Inv'
  <2>1. CASE file' = Empty /\ pc' = [pc EXCEPT ![p] = "store"]
    BY <1>8, <2>1
       DEF TruncatePointer, TypeOK, NoHoles, Filled, DoneIsWritten, RunsCount, ReadsBack
  <2>2. CASE file' = file /\ pc' = [pc EXCEPT ![p] = "print"]
    BY <1>8, <2>2
       DEF TruncatePointer, TypeOK, NoHoles, Filled, DoneIsWritten, RunsCount, ReadsBack
  <2>3. QED
    BY <1>8, <2>1, <2>2 DEF TruncatePointer
<1>9. ASSUME NEW p \in Procs, StorePointer(p) PROVE Inv'
  <2>1. TypeOK'
    BY <1>9 DEF StorePointer, TypeOK
  <2>2. NoHoles'
    BY <1>9 DEF StorePointer, TypeOK, NoHoles, Filled
  <2>3. DoneIsWritten' /\ RunsCount' /\ ReadsBack'
    BY <1>9 DEF StorePointer, TypeOK, DoneIsWritten, RunsCount, ReadsBack
  <2>4. QED
    BY <2>1, <2>2, <2>3
<1>10. ASSUME NEW p \in Procs, PrintMemory(p) PROVE Inv'
  <2> DEFINE IsEnd(n) == (\A i \in 0..(n - 1) : mem[i] # 0) /\ (n < Size => mem[n] = 0)
  <2>1. PICK n \in 0..Size : IsEnd(n) /\ shown' = [shown EXCEPT ![p] = n]
    <3>1. \E n \in 0..Size : IsEnd(n)
      BY FirstNul
    <3>2. QED
      BY <1>10, <3>1 DEF PrintMemory
  <2>2. TypeOK'
    <3>1. shown' \in [Procs -> 0..Size]
      BY <2>1 DEF TypeOK
    <3>2. pc' \in [Procs -> Places]
      BY <1>10 DEF PrintMemory, TypeOK
    <3>3. QED
      BY <1>10, <3>1, <3>2 DEF PrintMemory, TypeOK
  <2>3. n >= (IF ptr[p] < Size THEN ptr[p] ELSE Size) \/ n \in wiped
    <3>1. n \in Int /\ ptr[p] \in Nat /\ Filled(ptr[p])
      BY <1>10 DEF PrintMemory, TypeOK, NoHoles
    <3>2. CASE n < Size
      BY <2>1, <3>1, <3>2 DEF Filled
    <3>3. CASE n = Size
      BY <3>1, <3>3
    <3>4. QED
      BY <3>2, <3>3
  <2>4. ReadsBack'
    BY <1>10, <2>1, <2>3 DEF PrintMemory, TypeOK, ReadsBack
  <2>5. NoHoles' /\ DoneIsWritten' /\ RunsCount'
    BY <1>10 DEF PrintMemory, TypeOK, NoHoles, Filled, DoneIsWritten, RunsCount
  <2>6. QED
    BY <2>2, <2>4, <2>5
<1>11. ASSUME NEW p \in Procs, Close(p) \/ Crash(p) PROVE Inv'
  BY <1>11 DEF Close, Crash, TypeOK, NoHoles, Filled, DoneIsWritten, RunsCount, ReadsBack
<1>12. CASE UNCHANGED vars
  BY <1>12 DEF vars, TypeOK, NoHoles, Filled, DoneIsWritten, RunsCount, ReadsBack
<1>13. CASE Reboot
  <2>1. \A n \in Nat : file = n => \A i \in Cells : i < n => i \in wiped'
    BY <1>13 DEF Reboot, LostByReboot
  <2>2. TypeOK'
    BY <1>13 DEF Reboot, LostByReboot, TypeOK
  <2>3. NoHoles' /\ DoneIsWritten' /\ RunsCount' /\ ReadsBack'
    BY <1>13, <2>1
       DEF Reboot, TypeOK, NoHoles, Filled, DoneIsWritten, RunsCount, ReadsBack
  <2>4. QED
    BY <2>2, <2>3
<1>14. QED
  BY <1>1, <1>2, <1>3, <1>4, <1>5, <1>6, <1>7, <1>8, <1>9, <1>10, <1>11, <1>12, <1>13
     DEF Next, Step

LEMMA InvHolds == Spec => []Inv
<1>1. Init => Inv
  BY SizeAssumption, FileAssumption
     DEF Init, Inv, TypeOK, NoHoles, Filled, DoneIsWritten, RunsCount, ReadsBack,
         Places, Cells, Entry, At
<1>2. QED
  BY <1>1, InvStep, PTL DEF Spec

\* Every reachable state is well typed: the pointer is a natural number in the
\* file and in every process, whatever a process found in the file.
THEOREM Typing == Spec => []TypeOK
<1>1. Inv => TypeOK
  BY DEF Inv
<1>2. QED
  BY <1>1, InvHolds, PTL

\* Whatever the log pointer says has been logged has been written, however many
\* processes race, die, or lose the pointer, but for what a restart has lost.
THEOREM PointerNeverAhead == Spec => []NoHoles
<1>1. Inv => NoHoles
  BY DEF Inv
<1>2. QED
  BY <1>1, InvHolds, PTL

\* A run prints its own entry and all before it.
THEOREM PrintsOwnEntry == Spec => []ReadsBack
<1>1. Inv => ReadsBack
  BY DEF Inv
<1>2. QED
  BY <1>1, InvHolds, PTL
-----------------------------------------------------------------------------
(* The log of runs that do not overlap.                                    *)

\* The cells of the n-th entry from the beginning of the memory.
Slot(n) == (n * DataLen)..(n * DataLen + (DataLen - 1))

Multiple(c) == \E k \in Nat : k <= runs /\ c = k * DataLen

\* The committed pointer is at the end of an entry, and a run moves it once.
Counted == Multiple(Committed)

\* The committed pointer and the memory make a log.
HasLog == TypeOK /\ Counted

\* The entries below the committed pointer are whole, or wholly lost.
Whole == \A n \in Nat : \A a, b \in Below : a \in Slot(n) /\ b \in Slot(n) => mem[a] = mem[b]

LEMMA Scaled ==
  ASSUME NEW m \in Nat, NEW n \in Nat
  PROVE  /\ m * DataLen \in Nat /\ (m + 1) * DataLen = m * DataLen + DataLen
         /\ (m + n) * DataLen = m * DataLen + n * DataLen
         /\ m <= n => m * DataLen <= n * DataLen
         /\ m * DataLen < (n + 1) * DataLen => m <= n
         /\ m * DataLen < n * DataLen => m < n
<1>1. DataLen \in Nat /\ DataLen > 0
  BY SizeAssumption
<1>2. m * DataLen \in Nat /\ (m + 1) * DataLen = m * DataLen + DataLen
  BY <1>1, SMT
<1>3. (m + n) * DataLen = m * DataLen + n * DataLen
  BY <1>1, SMT
<1>4. m <= n => m * DataLen <= n * DataLen
  BY <1>1, SMT
<1>5. m * DataLen < (n + 1) * DataLen => m <= n
  BY <1>1, SMT
<1>6. m * DataLen < n * DataLen => m < n
  BY <1>1, SMT
<1>7. QED
  BY <1>2, <1>3, <1>4, <1>5, <1>6

\* The slots cut the memory up.
LEMMA OneSlot ==
  ASSUME NEW a \in Nat
  PROVE  \E n \in Nat : n * DataLen <= a /\ a < (n + 1) * DataLen
<1>1. DataLen \in Nat /\ DataLen > 0
  BY SizeAssumption
<1>2. a \div DataLen \in Nat
  BY <1>1, SMT
<1>3. (a \div DataLen) * DataLen <= a /\ a < ((a \div DataLen) + 1) * DataLen
  BY <1>1, SMT
<1>4. QED
  BY <1>2, <1>3

\* How many entries begin in the first x cells of a log.
LEMMA Entries ==
  ASSUME NEW x \in Nat, NEW q \in Nat
  PROVE  /\ (x + (DataLen - 1)) \div DataLen \in Nat
         /\ x = q * DataLen => (x + (DataLen - 1)) \div DataLen = q
         /\ q * DataLen < x /\ x <= (q + 1) * DataLen => (x + (DataLen - 1)) \div DataLen = q + 1
         /\ q < (x + (DataLen - 1)) \div DataLen => q * DataLen < x
<1>1. DataLen \in Nat /\ DataLen > 0
  BY SizeAssumption
<1> DEFINE y == x + (DataLen - 1)
           e == y \div DataLen
<1>2. y \in Nat
  BY <1>1
<1>3. e \in Nat /\ e * DataLen <= y /\ y < (e + 1) * DataLen
  <2> HIDE DEF y
  <2>1. QED
    BY <1>1, <1>2, SMT
<1> HIDE DEF e
<1>4. ASSUME NEW m \in Nat, m * DataLen <= y, y < (m + 1) * DataLen PROVE e = m
  <2>1. /\ m * DataLen \in Nat /\ (m + 1) * DataLen \in Nat
        /\ e * DataLen \in Nat /\ (e + 1) * DataLen \in Nat
    BY <1>1, <1>3, SMT
  <2>2. e * DataLen < (m + 1) * DataLen /\ m * DataLen < (e + 1) * DataLen
    BY <1>2, <1>3, <1>4, <2>1
  <2>3. e <= m
    BY <1>3, <2>2, Scaled
  <2>4. m <= e
    BY <1>3, <2>2, Scaled
  <2>5. QED
    BY <1>3, <2>3, <2>4
<1>5. /\ q * DataLen \in Nat /\ (q + 1) * DataLen = q * DataLen + DataLen
      /\ ((q + 1) + 1) * DataLen = (q + 1) * DataLen + DataLen
  <2>1. \A m \in Nat : m * DataLen \in Nat /\ (m + 1) * DataLen = m * DataLen + DataLen
    BY Scaled
  <2>2. q + 1 \in Nat
    OBVIOUS
  <2>3. QED
    BY <2>1, <2>2
<1>6. x = q * DataLen => e = q
  BY <1>1, <1>4, <1>5
<1>7. q * DataLen < x /\ x <= (q + 1) * DataLen => e = q + 1
  <2>1. q + 1 \in Nat
    OBVIOUS
  <2>2. q * DataLen < x /\ x <= (q + 1) * DataLen =>
          (q + 1) * DataLen <= y /\ y < ((q + 1) + 1) * DataLen
    BY <1>1, <1>5
  <2>3. QED
    BY <1>4, <2>1, <2>2
<1>8. ASSUME q < e PROVE q * DataLen < x
  <2>1. (q + 1) * DataLen <= e * DataLen
    BY <1>3, <1>8, Scaled
  <2>2. e * DataLen \in Nat
    BY <1>3, Scaled
  <2>3. QED
    BY <1>1, <1>3, <1>5, <2>1, <2>2
<1>9. QED
  BY <1>3, <1>6, <1>7, <1>8 DEF e

LEMMA EndFound ==
  ASSUME HasLog
  PROVE  /\ Committed \in Nat /\ End \in Nat /\ End <= Size /\ End <= Committed
         /\ End = Committed \/ End = Size
         /\ Below = {a \in Cells : a < Committed} /\ \A a \in Cells : mem[a] \in Nat
<1>1. Committed \in Nat
  BY Scaled DEF HasLog, Counted, Multiple
<1>2. Size \in Nat
  BY SizeAssumption
<1>3. QED
  BY <1>1, <1>2 DEF End, Below, Cells, HasLog, TypeOK

\* The log begins behind the last hole, or at the beginning of the memory.
Starts(b) == (\A j \in Below : b <= j => mem[j] # 0) /\ (b = 0 \/ mem[b - 1] = 0)

BaseOK ==
  /\ Base \in 0..End /\ Starts(Base)
  /\ \A b \in 0..End : Starts(b) => b = Base

LEMMA BaseFound == HasLog => BaseOK
<1> SUFFICES ASSUME HasLog PROVE BaseOK
  OBVIOUS
<1>1. End \in Nat
  BY EndFound
<1>2. ASSUME NEW b \in 0..End, Starts(b) PROVE IsStart(b)
  <2> SUFFICES ASSUME NEW i \in Below, i < b PROVE \E j \in Below : i <= j /\ mem[j] = 0
    BY <1>1, <1>2 DEF IsStart, Starts, Below
  <2>1. b - 1 \in Below /\ i <= b - 1
    BY <1>1 DEF Below
  <2>2. QED
    BY <1>2, <2>1 DEF Starts, Below
<1>3. ASSUME NEW b \in 0..End, NEW c \in 0..End, IsStart(b), IsStart(c) PROVE b = c
  <2>1. ASSUME NEW x \in 0..End, NEW y \in 0..End, IsStart(x), IsStart(y), x < y PROVE FALSE
    <3>1. x \in Below /\ x <= x /\ ~(y <= x)
      BY <1>1, <2>1 DEF Below
    <3>2. QED
      BY <2>1, <3>1 DEF IsStart
  <2>2. ~(b < c) /\ ~(c < b)
    BY <1>3, <2>1
  <2>3. QED
    BY <1>1, <2>2
<1>4. PICK b \in 0..End : Starts(b)
  <2> DEFINE Good == {b \in 0..End : \A j \in Below : b <= j => mem[j] # 0}
  <2>1. End \in Good /\ Good \subseteq Nat
    BY <1>1 DEF Below
  <2>2. PICK b \in Good : \A m \in Good : ~(<<m, b>> \in OpToRel(<, Nat))
    <3>1. Good # {} /\ Good \subseteq Nat
      BY <2>1
    <3>2. QED
      BY <3>1, WFMin, NatLessThanWellFounded
  <2>3. \A m \in Good : ~(m < b)
    BY <2>1, <2>2 DEF OpToRel
  <2>4. CASE b # 0 /\ mem[b - 1] # 0
    <3>1. b - 1 \in 0..End /\ b - 1 < b
      BY <1>1, <2>4
    <3>2. \A j \in Below : b - 1 <= j => j = b - 1 \/ b <= j
      BY <1>1 DEF Below
    <3>3. b - 1 \in Good
      BY <2>4, <3>1, <3>2
    <3>4. QED
      BY <2>3, <3>1, <3>3
  <2>5. QED
    BY <2>4 DEF Starts
<1>5. IsStart(b) /\ Base = b
  <2>1. IsStart(b)
    BY <1>2, <1>4
  <2>2. Base \in 0..End /\ IsStart(Base)
    BY <2>1 DEF Base
  <2>3. QED
    BY <1>3, <2>1, <2>2
<1>6. \A c \in 0..End : Starts(c) => c = Base
  BY <1>2, <1>3, <1>5
<1>7. QED
  BY <1>4, <1>5, <1>6 DEF BaseOK

\* Unless it is empty, the log begins at the beginning of a slot.
LEMMA BaseAligned ==
  ASSUME HasLog, Whole, Base < End
  PROVE  \E n \in Nat : Base = n * DataLen
<1>1. BaseOK /\ End \in Nat
  BY BaseFound, EndFound
<1>2. Base \in Nat /\ Base \in Below /\ DataLen \in Nat
  BY <1>1, SizeAssumption DEF BaseOK, Below
<1>3. PICK n \in Nat : n * DataLen <= Base /\ Base < (n + 1) * DataLen
  BY <1>2, OneSlot
<1>4. n * DataLen \in Nat /\ (n + 1) * DataLen = n * DataLen + DataLen
  BY Scaled
<1>5. ASSUME Base # n * DataLen PROVE FALSE
  <2>1. Base - 1 \in Below /\ Base - 1 \in Slot(n) /\ Base \in Slot(n) /\ Base # 0
    BY <1>1, <1>2, <1>3, <1>4, <1>5 DEF Slot, Below
  <2>2. mem[Base - 1] = mem[Base]
    BY <1>2, <2>1 DEF Whole
  <2>3. mem[Base] # 0 /\ mem[Base - 1] = 0
    BY <1>1, <1>2, <2>1 DEF BaseOK, Starts
  <2>4. QED
    BY <2>2, <2>3
<1>6. QED
  BY <1>5

LEMMA LoggedEntriesFound ==
  ASSUME HasLog
  PROVE  /\ LoggedEntries \in Nat /\ End - Base \in Nat /\ Base \in Nat
         /\ LoggedEntries = ((End - Base) + (DataLen - 1)) \div DataLen
<1>1. BaseOK /\ End \in Nat
  BY BaseFound, EndFound
<1>2. End - Base \in Nat /\ Base \in Nat
  BY <1>1 DEF BaseOK
<1>3. LoggedEntries = ((End - Base) + (DataLen - 1)) \div DataLen
  BY DEF LoggedEntries
<1>4. 0 \in Nat
  OBVIOUS
<1>5. ((End - Base) + (DataLen - 1)) \div DataLen \in Nat
  BY <1>2, <1>4, Entries
<1>6. QED
  BY <1>2, <1>3, <1>5

\* Every entry of the log begins below the committed pointer.
LEMMA LoggedBelow ==
  ASSUME HasLog, NEW n \in 1..LoggedEntries
  PROVE  Base + (n - 1) * DataLen \in Below /\ n - 1 \in Nat /\ (n - 1) * DataLen \in Nat
<1>1. /\ LoggedEntries \in Nat /\ End - Base \in Nat /\ Base \in Nat
      /\ LoggedEntries = ((End - Base) + (DataLen - 1)) \div DataLen
  BY LoggedEntriesFound
<1>2. n - 1 \in Nat /\ n - 1 < LoggedEntries
  BY <1>1
<1>3. (n - 1) * DataLen < End - Base
  BY <1>1, <1>2, Entries
<1>4. (n - 1) * DataLen \in Nat /\ End \in Nat
  BY <1>2, Scaled, EndFound
<1>5. QED
  BY <1>1, <1>2, <1>3, <1>4 DEF Below

\* What a slot below the committed pointer holds of the memory is below it too.
LEMMA SlotBelow ==
  ASSUME HasLog, NEW n \in Nat, NEW a \in Below, a \in Slot(n), NEW b \in Cells, b \in Slot(n)
  PROVE  b \in Below
<1>1. PICK k \in Nat : Committed = k * DataLen
  BY DEF HasLog, Counted, Multiple
<1>2. n * DataLen \in Nat /\ (n + 1) * DataLen = n * DataLen + DataLen /\ DataLen \in Nat
  BY Scaled, SizeAssumption
<1>3. a < Committed /\ a >= n * DataLen /\ Committed \in Nat
  BY EndFound, <1>2 DEF Slot
<1>4. n * DataLen < k * DataLen
  BY <1>1, <1>2, <1>3, EndFound DEF Slot, Below
<1>5. n + 1 <= k
  BY <1>4, Scaled
<1>6. (n + 1) * DataLen <= k * DataLen
  BY <1>5, Scaled
<1>7. b < Committed
  BY <1>1, <1>2, <1>3, <1>6 DEF Slot
<1>8. QED
  BY <1>7, EndFound

\* Runs that do not overlap have whole entries in their log.
LEMMA LoggedIsWhole ==
  ASSUME HasLog, Whole, NEW n \in 1..LoggedEntries, NEW i \in Entry,
         Base + (n - 1) * DataLen + i \in Cells
  PROVE  mem[Base + (n - 1) * DataLen + i] = mem[Base + (n - 1) * DataLen]
<1>1. Base + (n - 1) * DataLen \in Below /\ n - 1 \in Nat /\ (n - 1) * DataLen \in Nat
  BY LoggedBelow
<1>2. Base \in Nat /\ End \in Nat
  BY LoggedEntriesFound, EndFound
<1>3. Base < End
  BY <1>1, <1>2 DEF Below
<1>4. PICK m \in Nat : Base = m * DataLen
  BY <1>3, BaseAligned
<1>5. PICK s \in Nat : s = m + (n - 1)
  BY <1>1
<1>6. s * DataLen = Base + (n - 1) * DataLen
  BY <1>1, <1>4, <1>5, Scaled
<1>7. /\ Base + (n - 1) * DataLen \in Slot(s) /\ Base + (n - 1) * DataLen + i \in Slot(s)
      /\ Base + (n - 1) * DataLen + i \in Int
  BY <1>1, <1>2, <1>6, SizeAssumption DEF Slot, Entry
<1>8. Base + (n - 1) * DataLen + i \in Below
  BY <1>1, <1>5, <1>7, SlotBelow
<1>9. QED
  BY <1>1, <1>7, <1>8 DEF Whole

Hollow == \A a \in Below : mem[a] = 0
Logless == Logged = <<>>

\* Without a cell written below the pointer there is no log.
LEMMA NoLog == HasLog /\ Hollow => Logless
<1> SUFFICES ASSUME HasLog, Hollow PROVE Logged = <<>>
  BY DEF Logless
<1>1. BaseOK /\ End \in Nat
  BY BaseFound, EndFound
<1>2. Starts(End)
  <2>1. End # 0 => End - 1 \in Below
    BY <1>1 DEF Below
  <2>2. QED
    BY <1>1, <2>1 DEF Starts, Hollow, Below
<1>3. Base = End
  BY <1>1, <1>2 DEF BaseOK
<1>4. LoggedEntries = (0 + (DataLen - 1)) \div DataLen
  BY <1>1, <1>3, LoggedEntriesFound
<1>5. 0 = 0 * DataLen /\ 0 \in Nat
  BY SizeAssumption, SMT
<1>6. LoggedEntries = 0
  BY <1>4, <1>5, Entries
<1>7. QED
  BY <1>6 DEF Logged

\* A step that keeps the pointer and what is below it keeps the log.
LEMMA LogKept ==
  ASSUME HasLog, HasLog', Committed' = Committed, \A a \in Below : mem'[a] = mem[a]
  PROVE  Logged' = Logged /\ (Whole => Whole')
<1>1. BaseOK /\ End \in Nat
  BY BaseFound, EndFound
<1>2. BaseOK'
  BY BaseFound, PTL
<1>3. End' = End /\ Below' = Below
  BY DEF End, Below
<1>4. PICK b \in 0..End : b = Base /\ Starts(b)
  BY <1>1 DEF BaseOK
<1>5. Starts(b)'
  <2>1. b # 0 => b - 1 \in Below
    BY <1>1 DEF Below
  <2>2. QED
    BY <1>3, <1>4, <2>1 DEF Starts
<1>6. Base' = Base
  BY <1>2, <1>3, <1>4, <1>5 DEF BaseOK
<1>7. LoggedEntries' = LoggedEntries
  BY <1>3, <1>6 DEF LoggedEntries
<1>8. \A n \in 1..LoggedEntries : mem'[Base + (n - 1) * DataLen] = mem[Base + (n - 1) * DataLen]
  BY LoggedBelow
<1>9. Logged' = Logged
  BY <1>6, <1>7, <1>8 DEF Logged
<1>10. Whole => Whole'
  BY <1>3 DEF Whole
<1>11. QED
  BY <1>9, <1>10

\* The pointer moves past an entry that run r has written.
Moves(c, r) ==
  /\ Committed = c * DataLen /\ Committed' = (c + 1) * DataLen /\ mem' = mem
  /\ r # 0 /\ \A a \in Cells : a \in Slot(c) => mem[a] = r

LEMMA WholeAfterMove ==
  ASSUME HasLog, HasLog', Whole, NEW c \in Nat, NEW r, Moves(c, r)
  PROVE  Whole'
<1>1. /\ c * DataLen \in Nat /\ (c + 1) * DataLen = c * DataLen + DataLen /\ DataLen \in Nat
      /\ Size \in Nat
  BY Scaled, SizeAssumption
<1>2. Below = {a \in Cells : a < c * DataLen}
  BY EndFound DEF Moves
<1>3. Below' = {a \in Cells : a < (c + 1) * DataLen}
  BY <1>1 DEF Below, End, Cells, Moves
<1>4. SUFFICES ASSUME NEW n \in Nat, NEW a \in Below', NEW b \in Below', a \in Slot(n), b \in Slot(n)
               PROVE  mem[a] = mem[b]
  BY DEF Whole, Moves
<1>5. /\ n * DataLen \in Nat /\ (n + 1) * DataLen = n * DataLen + DataLen
  BY Scaled
<1>6. a \in Nat /\ b \in Nat /\ a \in Cells /\ b \in Cells
  BY <1>3, <1>4, <1>1 DEF Cells
<1>7. CASE n = c
  BY <1>4, <1>6, <1>7 DEF Moves
<1>8. CASE n # c
  <2>1. n * DataLen < (c + 1) * DataLen
    BY <1>1, <1>3, <1>4, <1>5, <1>6 DEF Slot
  <2>2. n <= c
    BY <2>1, Scaled
  <2>3. n + 1 <= c
    BY <1>8, <2>2
  <2>4. (n + 1) * DataLen <= c * DataLen
    BY <2>3, Scaled
  <2>5. a < c * DataLen /\ b < c * DataLen
    BY <1>1, <1>4, <1>5, <1>6, <2>4 DEF Slot
  <2>6. a \in Below /\ b \in Below
    BY <1>2, <1>6, <2>5
  <2>7. QED
    BY <1>4, <2>6 DEF Whole
<1>9. QED
  BY <1>7, <1>8

LEMMA OneMore ==
  ASSUME NEW k \in Nat, NEW S, NEW f \in [1..(k + 1) -> S]
  PROVE  f = Append([n \in 1..k |-> f[n]], f[k + 1]) /\ Len([n \in 1..k |-> f[n]]) = k
<1> DEFINE s == [n \in 1..k |-> f[n]]
<1>1. s \in Seq(S) /\ Len(s) = k /\ f[k + 1] \in S
  OBVIOUS
<1>2. f \in Seq(S) /\ Len(f) = k + 1
  OBVIOUS
<1>3. Append(s, f[k + 1]) \in Seq(S) /\ Len(Append(s, f[k + 1])) = k + 1
  BY <1>1
<1>4. \A n \in 1..(k + 1) : Append(s, f[k + 1])[n] = f[n]
  BY <1>1
<1>5. QED
  BY <1>1, <1>2, <1>3, <1>4

\* The log has one entry more, or the entry is beyond the end of the memory.
LEMMA LogAfterMove ==
  ASSUME HasLog, HasLog', Whole, NEW c \in Nat, NEW r, Moves(c, r)
  PROVE  Logged' = Logged \/ (Len(Logged) \in 0..c /\ Logged' = Append(Logged, r))
<1>0. PICK x \in Nat : x = c * DataLen
  BY Scaled
<1>1. /\ DataLen \in Nat /\ DataLen > 0 /\ Size \in Nat /\ x \in Nat
      /\ Committed = x /\ Committed' = x + DataLen /\ mem' = mem
  BY <1>0, Scaled, SizeAssumption DEF Moves
<1>2. BaseOK /\ End \in Nat /\ Base \in Nat
  BY BaseFound, EndFound, LoggedEntriesFound
<1>3. BaseOK'
  BY BaseFound, PTL
<1>4. PICK b \in 0..End : b = Base /\ Starts(b)
  BY <1>2 DEF BaseOK
<1>5. CASE Committed >= Size
  <2>1. End = Size /\ End' = Size
    BY <1>1, <1>5 DEF End
  <2>2. Below' = Below
    BY <2>1 DEF Below
  <2>3. Starts(b)'
    BY <1>1, <1>4, <2>2 DEF Starts
  <2>4. Base' = Base
    BY <1>3, <1>4, <2>1, <2>3 DEF BaseOK
  <2>5. LoggedEntries' = LoggedEntries
    BY <2>1, <2>4 DEF LoggedEntries
  <2>6. QED
    BY <1>1, <2>4, <2>5 DEF Logged
<1>6. CASE Committed < Size
  <2>0. PICK e \in Nat : e = (IF x + DataLen < Size THEN x + DataLen ELSE Size)
    BY <1>1
  <2>1. /\ End = x /\ End' = e /\ e \in Nat
        /\ x < e /\ e <= x + DataLen /\ e <= Size
    BY <1>1, <1>6, <2>0 DEF End
  <2>2. \A a \in Below' : a \in Below \/ (a >= x /\ mem[a] = r)
    <3>1. Below' = 0..(e - 1) /\ Below = 0..(x - 1)
      BY <2>1 DEF Below
    <3>2. ASSUME NEW a \in 0..(e - 1), ~(a \in 0..(x - 1)) PROVE a >= x /\ mem[a] = r
      <4>1. a >= x /\ a < x + DataLen /\ a < Size /\ a \in Nat
        BY <1>1, <2>1, <3>2
      <4>2. a \in Cells /\ a \in Slot(c)
        BY <1>0, <1>1, <4>1 DEF Cells, Slot
      <4>3. QED
        BY <4>1, <4>2 DEF Moves
    <3>3. QED
      BY <3>1, <3>2
  <2>3. Base' = Base
    <3>1. \A a \in Below' : b <= a => mem'[a] # 0
      BY <1>1, <1>4, <2>2 DEF Starts, Moves
    <3>2. Starts(b)'
      BY <1>1, <1>4, <3>1 DEF Starts
    <3>3. b \in 0..End'
      BY <1>2, <2>1
    <3>4. QED
      BY <1>3, <1>4, <3>2, <3>3 DEF BaseOK
  <2>4. PICK m \in Nat : Base = m * DataLen /\ m <= c
    <3>1. CASE Base = End
      BY <1>0, <2>1, <3>1
    <3>2. CASE Base # End
      <4>1. Base < End
        BY <1>2, <3>2 DEF BaseOK
      <4>2. PICK m \in Nat : Base = m * DataLen
        BY <4>1, BaseAligned
      <4>3. m < c
        BY <1>0, <2>1, <4>1, <4>2, Scaled
      <4>4. QED
        BY <4>2, <4>3
    <3>3. QED
      BY <3>1, <3>2
  <2>5. PICK q \in Nat : q = c - m
    BY <2>4
  <2>6. PICK z \in Nat : z = q * DataLen /\ (q + 1) * DataLen = z + DataLen /\ x = Base + z
    <3>1. c = m + q
      BY <2>4, <2>5
    <3>2. q * DataLen \in Nat /\ (q + 1) * DataLen = q * DataLen + DataLen
      BY Scaled
    <3>3. (m + q) * DataLen = m * DataLen + q * DataLen
      BY Scaled
    <3>4. x = Base + q * DataLen
      BY <1>0, <2>4, <3>1, <3>3
    <3>5. QED
      BY <3>2, <3>4
  <2>7. End - Base = z /\ e - Base > z /\ e - Base <= z + DataLen
        /\ End - Base \in Nat /\ e - Base \in Nat
    <3>1. End - Base = z /\ e - Base = (e - x) + z
      BY <1>2, <2>1, <2>3, <2>6
    <3>2. e - x > 0 /\ e - x <= DataLen
      BY <1>1, <2>1
    <3>3. QED
      BY <1>1, <2>1, <2>6, <3>1, <3>2
  <2>8. LoggedEntries = q
    <3>1. ((End - Base) + (DataLen - 1)) \div DataLen = q
      BY <2>6, <2>7, Entries
    <3>2. QED
      BY <3>1, LoggedEntriesFound
  <2>9. LoggedEntries' = q + 1
    <3>1. ((e - Base) + (DataLen - 1)) \div DataLen = q + 1
      BY <2>6, <2>7, Entries
    <3>2. LoggedEntries' = ((e - Base) + (DataLen - 1)) \div DataLen
      BY <2>1, <2>3 DEF LoggedEntries
    <3>3. QED
      BY <3>1, <3>2
  <2>10. mem[Base + q * DataLen] = r
    <3>1. Base + q * DataLen = x
      BY <2>6
    <3>2. x \in Cells /\ x \in Slot(c)
      BY <1>0, <1>1, <1>6 DEF Cells, Slot
    <3>3. QED
      BY <3>1, <3>2 DEF Moves
  <2>11. Logged = [n \in 1..q |-> mem[Base + (n - 1) * DataLen]]
    BY <2>8 DEF Logged
  <2>12. Logged' = [n \in 1..(q + 1) |-> mem[Base + (n - 1) * DataLen]]
    BY <1>1, <2>3, <2>9 DEF Logged
  <2>13. mem[Base + ((q + 1) - 1) * DataLen] = r
    <3>1. (q + 1) - 1 = q
      OBVIOUS
    <3>2. QED
      BY <2>10, <3>1
  <2>14. Len(Logged) = q /\ Logged' = Append(Logged, r)
    <3>1. PICK f : f = [n \in 1..(q + 1) |-> mem[Base + (n - 1) * DataLen]]
      OBVIOUS
    <3>2. f \in [1..(q + 1) -> {f[n] : n \in 1..(q + 1)}] /\ f[q + 1] = r
      BY <2>13, <3>1
    <3>3. \A n \in 1..q : f[n] = mem[Base + (n - 1) * DataLen]
      BY <3>1
    <3>4. [n \in 1..q |-> f[n]] = Logged
      BY <2>11, <3>3
    <3>5. f = Append([n \in 1..q |-> f[n]], f[q + 1]) /\ Len([n \in 1..q |-> f[n]]) = q
      BY <3>2, OneMore
    <3>6. QED
      BY <2>12, <3>1, <3>2, <3>4, <3>5
  <2>15. QED
    BY <2>4, <2>5, <2>14
<1>7. QED
  BY <1>1, <1>5, <1>6

Early == {"open", "create", "init", "map", "write", "truncate", "store"}

\* What the file says, when nobody is replacing it.
FileValue == IF file \in Nat THEN file ELSE 0
NobodyStores == \A p \in Procs : pc[p] # "store"
IsInFile == Committed = FileValue

LEMMA InFile == NobodyStores => IsInFile
BY DEF NobodyStores, IsInFile, FileValue, Committed, At

\* A process that is replacing the pointer, alone, has moved it once.
StoresAlone(p) ==
  /\ pc[p] = "store" /\ file \notin Nat
  /\ \A q \in Procs : pc[q] = "store" => q = p
IsInProcess == \A p \in Procs : StoresAlone(p) => Committed = ptr[p] - DataLen

LEMMA InProcess == IsInProcess
<1> SUFFICES ASSUME NEW p \in Procs, StoresAlone(p) PROVE Committed = ptr[p] - DataLen
  BY DEF IsInProcess
<1>1. (CHOOSE q \in Procs : At(q, "store")) = p
  BY DEF At, StoresAlone
<1>2. \E q \in Procs : At(q, "store")
  BY DEF At, StoresAlone
<1>3. QED
  BY <1>1, <1>2 DEF Committed, StoresAlone

\* One process runs at a time.
Solo == \A p, q \in Procs : pc[p] # "off" /\ pc[q] # "off" => p = q

\* What a process knows that runs alone.  Until it has stored the pointer, the
\* entries counted are those of earlier runs.
Own(p) ==
  /\ pc[p] # "off" => run[p] \in 1..runs /\ runs <= MaxRuns
  /\ pc[p] \in Early => \E k \in Nat : k < runs /\ Committed = k * DataLen
  /\ pc[p] = "create" => file = Missing
  /\ pc[p] \in {"init", "store"} => file = Empty
  /\ pc[p] \in {"open", "create", "init"} => ptr[p] = 0
  /\ pc[p] \in {"map", "write"} => ptr[p] = Committed
  /\ pc[p] \in {"truncate", "store"} => ptr[p] = Committed + DataLen
  /\ pc[p] = "write" =>
       \A i \in done[p] : Committed + i \in Cells => mem[Committed + i] = run[p]
  /\ pc[p] \in {"truncate", "store"} =>
       \A i \in Entry : Committed + i \in Cells => mem[Committed + i] = run[p]

AloneInv == Solo /\ Counted /\ Whole /\ \A p \in Procs : Own(p)
AloneOK == alone => AloneInv

\* What a step may do to the log.
LogMoves ==
  \/ Logged' = Logged \/ Logged' = <<>>
  \/ \E r \in 1..MaxRuns : Len(Logged) < MaxRuns /\ Logged' = Append(Logged, r)

\* The pointer is where it was, and what is below it.
LEMMA LogStays ==
  ASSUME TypeOK, TypeOK', Counted, Whole, Committed' = Committed, runs <= runs',
         \A a \in Below : mem'[a] = mem[a]
  PROVE  Counted' /\ Whole' /\ LogMoves
<1>1. Counted'
  BY DEF Counted, Multiple, TypeOK
<1>2. HasLog /\ HasLog'
  BY <1>1 DEF HasLog
<1>3. QED
  BY <1>1, <1>2, LogKept DEF LogMoves

\* The pointer is lost, or the memory.
LEMMA LogGoes ==
  ASSUME TypeOK, TypeOK', Counted, runs <= runs', Committed' = Committed \/ Committed' = 0,
         Committed' = 0 \/ \A a \in Cells : mem'[a] = 0
  PROVE  Counted' /\ Whole' /\ LogMoves
<1>1. Counted'
  <2>1. 0 = 0 * DataLen /\ 0 \in Nat /\ 0 <= runs'
    BY SizeAssumption DEF TypeOK
  <2>2. CASE Committed' = 0
    BY <2>1, <2>2 DEF Counted, Multiple
  <2>3. CASE Committed' = Committed
    BY <2>3 DEF Counted, Multiple, TypeOK
  <2>4. QED
    BY <2>2, <2>3
<1>2. HasLog'
  BY <1>1 DEF HasLog
<1>3. \A a \in Below' : mem'[a] = 0
  <2>1. CASE Committed' = 0
    <3>1. End' = 0
      BY <2>1, SizeAssumption DEF End
    <3>2. Below' = {}
      BY <3>1 DEF Below
    <3>3. QED
      BY <3>2
  <2>2. CASE \A a \in Cells : mem'[a] = 0
    <3>1. Committed' \in Nat
      BY <1>1, Scaled DEF Counted, Multiple
    <3>2. PICK e \in Nat : e = End' /\ e <= Size
      BY <3>1, SizeAssumption DEF End
    <3>3. Below' = 0..(e - 1)
      BY <3>2 DEF Below
    <3>4. e \in Nat /\ e <= Size /\ Size \in Nat
      BY <3>2, SizeAssumption
    <3>5. 0..(e - 1) \subseteq Cells
      BY <3>4 DEF Cells
    <3>6. QED
      BY <2>2, <3>3, <3>5
  <2>3. QED
    BY <2>1, <2>2
<1>4. Hollow'
  BY <1>3 DEF Hollow
<1>5. Logged' = <<>>
  <2>1. Logless'
    BY <1>2, <1>4, NoLog, PTL
  <2>2. QED
    BY <2>1 DEF Logless
<1>6. Whole'
  BY <1>3 DEF Whole
<1>7. QED
  BY <1>1, <1>5, <1>6 DEF LogMoves

LEMMA AloneStep == Inv /\ Inv' /\ AloneOK /\ [Next]_vars => AloneOK' /\ (alone' => LogMoves)
<1> USE SizeAssumption, FileAssumption DEF Early, At, Goto, local, history
<1> SUFFICES ASSUME Inv, Inv', AloneOK, [Next]_vars, alone' PROVE AloneInv' /\ LogMoves
  BY DEF AloneOK
<1>1. TypeOK /\ TypeOK' /\ DoneIsWritten
  BY DEF Inv
<1>2. alone
  BY DEF Next, Step, Start, OpenPointer, CreatePointer, InitPointer, MapMemory, WriteCell,
         MovePointer, TruncatePointer, StorePointer, PrintMemory, Close, Crash, Reboot, vars
<1>3. Solo /\ Counted /\ Whole /\ \A p \in Procs : Own(p)
  BY <1>2 DEF AloneOK, AloneInv
<1>4. /\ NobodyStores => Committed = FileValue
      /\ NobodyStores' => Committed' = FileValue'
      /\ Committed \in Nat
  <2>1. NobodyStores => IsInFile
    BY InFile
  <2>2. NobodyStores' => IsInFile'
    BY InFile, PTL
  <2>3. Committed \in Nat
    BY <1>1, <1>3, EndFound DEF HasLog
  <2>4. QED
    BY <2>1, <2>2, <2>3 DEF IsInFile
<1>5. ASSUME NEW p \in Procs, NEW l, pc[p] # "off", pc' = [pc EXCEPT ![p] = l],
             Own(p)', Counted', Whole'
      PROVE  AloneInv'
  <2>1. \A q \in Procs : q # p => pc[q] = "off"
    BY <1>3, <1>5 DEF Solo
  <2>2. \A q \in Procs : q # p => pc'[q] = "off"
    BY <1>1, <1>5, <2>1 DEF TypeOK
  <2>3. \A q \in Procs : q # p => Own(q)'
    BY <2>2 DEF Own
  <2>4. Solo'
    BY <2>2 DEF Solo
  <2>5. QED
    BY <1>5, <2>3, <2>4 DEF AloneInv
\* Where the one process is, before the step and after it.
<1>6. ASSUME NEW p \in Procs, NEW l, pc[p] # "off", pc' = [pc EXCEPT ![p] = l]
      PROVE  /\ pc'[p] = l
             /\ pc[p] # "store" => NobodyStores
             /\ l # "store" => NobodyStores'
             /\ \A q \in Procs : pc'[q] = "store" => q = p
  <2>1. \A q \in Procs : q # p => pc[q] = "off"
    BY <1>3, <1>6 DEF Solo
  <2>2. \A q \in Procs : pc'[q] = (IF q = p THEN l ELSE pc[q])
    BY <1>1, <1>6 DEF TypeOK
  <2>3. QED
    BY <2>1, <2>2 DEF NobodyStores
<1>7. ASSUME NEW p \in Procs, Start(p) PROVE AloneInv' /\ LogMoves
  <2>1. /\ \A q \in Procs : pc[q] = "off"
        /\ pc' = [pc EXCEPT ![p] = "open"] /\ done' = [done EXCEPT ![p] = {}]
        /\ ptr' = [ptr EXCEPT ![p] = 0] /\ run' = [run EXCEPT ![p] = runs + 1]
        /\ runs < MaxRuns /\ runs' = runs + 1 /\ mem' = mem /\ file' = file
    BY <1>7 DEF Start
  <2>2. \A q \in Procs : pc'[q] = (IF q = p THEN "open" ELSE "off")
    BY <1>1, <2>1 DEF TypeOK
  <2>3. Committed' = Committed
    BY <1>4, <2>1, <2>2 DEF NobodyStores, FileValue
  <2>4. Counted' /\ Whole' /\ LogMoves
    BY <1>1, <1>3, <2>1, <2>3, LogStays DEF TypeOK
  <2>5. runs \in Nat /\ run'[p] = runs' /\ ptr'[p] = 0
    BY <1>1, <2>1 DEF TypeOK
  <2>6. \E k \in Nat : k < runs' /\ Committed' = k * DataLen
    BY <1>3, <2>1, <2>3, <2>5 DEF Counted, Multiple
  <2>7. Own(p)'
    BY <2>1, <2>2, <2>5, <2>6 DEF Own
  <2>8. \A q \in Procs : q # p => Own(q)'
    BY <2>2 DEF Own
  <2>9. Solo'
    BY <2>2 DEF Solo
  <2>10. QED
    BY <2>4, <2>7, <2>8, <2>9 DEF AloneInv
<1>8. ASSUME NEW p \in Procs, OpenPointer(p) PROVE AloneInv' /\ LogMoves
  <2>1. PICK l \in {"create", "map"} : pc' = [pc EXCEPT ![p] = l]
    BY <1>8 DEF OpenPointer
  <2>2. /\ UNCHANGED <<file, mem, runs, run, done>> /\ pc[p] = "open"
    BY <1>8 DEF OpenPointer
  <2>3. pc'[p] = l /\ NobodyStores /\ NobodyStores'
    BY <1>6, <2>1, <2>2
  <2>4. Committed' = Committed /\ Committed = FileValue
    BY <1>4, <2>2, <2>3 DEF FileValue
  <2>5. /\ l = "create" => file = Missing /\ ptr'[p] = ptr[p]
        /\ l = "map" => ptr'[p] = Committed
    <3>1. file # Missing => Recovered = FileValue
      BY <1>1 DEF TypeOK, Recovered, FileValue
    <3>2. CASE l = "create"
      <4>1. file = Missing /\ ptr' = ptr
        BY <1>8, <2>3, <3>2, <1>1 DEF OpenPointer, TypeOK
      <4>2. QED
        BY <3>2, <4>1
    <3>3. CASE l = "map"
      <4>1. file # Missing /\ ptr' = [ptr EXCEPT ![p] = Recovered]
        BY <1>8, <2>3, <3>3, <1>1 DEF OpenPointer, TypeOK
      <4>2. ptr'[p] = Recovered
        BY <1>1, <4>1 DEF TypeOK
      <4>3. QED
        BY <2>4, <3>1, <3>3, <4>1, <4>2
    <3>4. QED
      BY <2>1, <3>2, <3>3
  <2>6. Own(p) /\ pc'[p] \in {"create", "map"}
    BY <1>3, <2>1, <2>3
  <2>7. Own(p)'
    BY <2>2, <2>3, <2>4, <2>5, <2>6 DEF Own
  <2>8. Counted' /\ Whole' /\ LogMoves
    BY <1>1, <1>3, <2>2, <2>4, LogStays DEF TypeOK
  <2>9. QED
    BY <1>5, <2>1, <2>2, <2>7, <2>8
<1>9. ASSUME NEW p \in Procs, CreatePointer(p) PROVE AloneInv' /\ LogMoves
  <2>1. /\ UNCHANGED <<mem, runs, run, done, ptr>> /\ pc[p] = "create" /\ file' = Empty
        /\ pc' = [pc EXCEPT ![p] = "init"]
    BY <1>9 DEF CreatePointer
  <2>2. pc'[p] = "init" /\ NobodyStores /\ NobodyStores'
    BY <1>6, <2>1
  <2>3. Own(p)
    BY <1>3
  <2>4. Committed = 0 /\ Committed' = 0
    BY <1>4, <2>1, <2>2, <2>3 DEF FileValue, Own
  <2>5. Own(p)'
    BY <2>1, <2>2, <2>3, <2>4 DEF Own
  <2>6. Counted' /\ Whole' /\ LogMoves
    BY <1>1, <1>3, <2>1, <2>4, LogStays DEF TypeOK
  <2>7. QED
    BY <1>5, <2>1, <2>5, <2>6
<1>10. ASSUME NEW p \in Procs, InitPointer(p) PROVE AloneInv' /\ LogMoves
  <2>1. /\ UNCHANGED <<mem, runs, run, done, ptr>> /\ pc[p] = "init"
        /\ file' \in {0, file}
        /\ pc' = [pc EXCEPT ![p] = "map"]
    BY <1>10 DEF InitPointer
  <2>2. pc'[p] = "map" /\ NobodyStores /\ NobodyStores'
    BY <1>6, <2>1
  <2>3. Own(p)
    BY <1>3
  <2>4. Committed = 0 /\ Committed' = 0
    BY <1>4, <2>1, <2>2, <2>3 DEF FileValue, Own
  <2>5. Own(p)'
    BY <2>1, <2>2, <2>3, <2>4 DEF Own
  <2>6. Counted' /\ Whole' /\ LogMoves
    BY <1>1, <1>3, <2>1, <2>4, LogStays DEF TypeOK
  <2>7. QED
    BY <1>5, <2>1, <2>5, <2>6
<1>11. ASSUME NEW p \in Procs, MapMemory(p) PROVE AloneInv' /\ LogMoves
  <2>1. PICK l \in {"write", "off"} : pc' = [pc EXCEPT ![p] = l]
    BY <1>11 DEF MapMemory
  <2>2. UNCHANGED <<file, mem, runs, run, done, ptr>> /\ pc[p] = "map"
    BY <1>11 DEF MapMemory
  <2>3. pc'[p] = l /\ NobodyStores /\ NobodyStores'
    BY <1>6, <2>1, <2>2
  <2>4. Committed' = Committed
    BY <1>4, <2>2, <2>3 DEF FileValue
  <2>5. done[p] = {}
    BY <1>1, <2>2 DEF DoneIsWritten
  <2>6. Own(p) /\ pc'[p] \in {"write", "off"}
    BY <1>3, <2>1, <2>3
  <2>7. Own(p)'
    BY <2>2, <2>4, <2>5, <2>6 DEF Own
  <2>8. Counted' /\ Whole' /\ LogMoves
    BY <1>1, <1>3, <2>2, <2>4, LogStays DEF TypeOK
  <2>9. QED
    BY <1>5, <2>1, <2>2, <2>7, <2>8
<1>12. ASSUME NEW p \in Procs, NEW i \in Entry, WriteCell(p, i) PROVE AloneInv' /\ LogMoves
  <2>1. PICK l \in {"write", "off"} : pc' = [pc EXCEPT ![p] = l]
    <3>1. CASE pc' = pc
      <4>1. pc' = [pc EXCEPT ![p] = "write"]
        BY <1>1, <1>12, <3>1 DEF WriteCell, TypeOK
      <4>2. QED
        BY <4>1
    <3>2. CASE pc' = [pc EXCEPT ![p] = "off"]
      BY <3>2
    <3>3. QED
      BY <1>12, <3>1, <3>2 DEF WriteCell
  <2>2. UNCHANGED <<file, runs, run, ptr>> /\ pc[p] = "write"
    BY <1>12 DEF WriteCell
  <2>3. pc'[p] = l /\ NobodyStores /\ NobodyStores'
    BY <1>6, <2>1, <2>2
  <2>4. Committed' = Committed
    BY <1>4, <2>2, <2>3 DEF FileValue
  <2>5. Own(p) /\ ptr[p] = Committed /\ i \in Nat
    BY <1>3, <2>2 DEF Own, Entry
  <2>6. \A a \in Cells : (a = Committed + i /\ mem'[a] = run[p]) \/ (a # Committed + i /\ mem'[a] = mem[a])
    BY <1>1, <1>12, <2>5 DEF WriteCell, TypeOK
  <2>7. \A a \in Below : mem'[a] = mem[a]
    <3>1. Below = {a \in Cells : a < Committed}
      BY <1>1, <1>3, EndFound DEF HasLog
    <3>2. \A a \in Cells : a < Committed => a # Committed + i
      BY <1>4, <2>5 DEF Cells
    <3>3. QED
      BY <2>6, <3>1, <3>2
  <2>8. Counted' /\ Whole' /\ LogMoves
    BY <1>1, <1>3, <2>2, <2>4, <2>7, LogStays DEF TypeOK
  <2>9. \A j \in done'[p] : j \in done[p] \/ j = i
    BY <1>1, <1>12 DEF WriteCell, TypeOK
  <2>10. \A j \in done'[p] : Committed + j \in Cells => mem'[Committed + j] = run[p]
    BY <2>2, <2>5, <2>6, <2>9 DEF Own
  <2>11. pc'[p] \in {"write", "off"}
    BY <2>1, <2>3
  <2>12. Own(p)'
    BY <2>2, <2>4, <2>5, <2>10, <2>11 DEF Own
  <2>13. QED
    BY <1>5, <2>1, <2>2, <2>8, <2>12
<1>13. ASSUME NEW p \in Procs, MovePointer(p) PROVE AloneInv' /\ LogMoves
  <2>1. /\ UNCHANGED <<file, mem, runs, run>> /\ pc[p] = "write" /\ done[p] = Entry
        /\ ptr' = [ptr EXCEPT ![p] = ptr[p] + DataLen] /\ pc' = [pc EXCEPT ![p] = "truncate"]
    BY <1>13 DEF MovePointer, EndOfEntry, Written
  <2>2. pc'[p] = "truncate" /\ NobodyStores /\ NobodyStores'
    BY <1>6, <2>1
  <2>3. Committed' = Committed
    BY <1>4, <2>1, <2>2 DEF FileValue
  <2>4. Own(p) /\ ptr[p] = Committed
    BY <1>3, <2>1 DEF Own
  <2>5. ptr'[p] = Committed + DataLen
    BY <1>1, <2>1, <2>4 DEF TypeOK
  <2>6. Own(p)'
    BY <2>1, <2>2, <2>3, <2>4, <2>5 DEF Own
  <2>7. Counted' /\ Whole' /\ LogMoves
    BY <1>1, <1>3, <2>1, <2>3, LogStays DEF TypeOK
  <2>8. QED
    BY <1>5, <2>1, <2>6, <2>7
<1>14. ASSUME NEW p \in Procs, TruncatePointer(p) PROVE AloneInv' /\ LogMoves
  <2>1. PICK l \in {"store", "print"} :
          /\ pc' = [pc EXCEPT ![p] = l]
          /\ l = "store" => file' = Empty
          /\ l = "print" => file' = file
    BY <1>14 DEF TruncatePointer
  <2>2. UNCHANGED <<mem, runs, run, done, ptr>> /\ pc[p] = "truncate"
    BY <1>14 DEF TruncatePointer
  <2>3. /\ pc'[p] = l /\ NobodyStores
        /\ l = "print" => NobodyStores'
        /\ \A q \in Procs : pc'[q] = "store" => q = p
    BY <1>6, <2>1, <2>2
  <2>4. Own(p) /\ ptr[p] = Committed + DataLen
    BY <1>3, <2>2 DEF Own
  <2>5. Committed' = Committed
    <3>1. CASE l = "print"
      BY <1>4, <2>1, <2>3, <3>1 DEF FileValue
    <3>2. CASE l = "store"
      <4>1. IsInProcess'
        BY InProcess, PTL
      <4>2. StoresAlone(p)'
        BY <2>1, <2>3, <3>2 DEF StoresAlone
      <4>3. Committed' = ptr'[p] - DataLen
        BY <4>1, <4>2 DEF IsInProcess
      <4>4. Committed' = (Committed + DataLen) - DataLen
        BY <2>2, <2>4, <4>3
      <4>5. QED
        BY <1>4, <4>4
    <3>3. QED
      BY <2>1, <3>1, <3>2
  <2>6. Own(p)'
    <3>1. CASE l = "print"
      BY <2>2, <2>3, <2>4, <3>1 DEF Own
    <3>2. CASE l = "store"
      BY <2>1, <2>2, <2>3, <2>4, <2>5, <3>2 DEF Own
    <3>3. QED
      BY <2>1, <3>1, <3>2
  <2>7. Counted' /\ Whole' /\ LogMoves
    BY <1>1, <1>3, <2>2, <2>5, LogStays DEF TypeOK
  <2>8. QED
    BY <1>5, <2>1, <2>2, <2>6, <2>7
<1>15. ASSUME NEW p \in Procs, StorePointer(p) PROVE AloneInv' /\ LogMoves
  <2>1. /\ UNCHANGED <<mem, runs, run, done, ptr>> /\ pc[p] = "store"
        /\ file' \in {ptr[p], file}
        /\ pc' = [pc EXCEPT ![p] = "print"]
    BY <1>15 DEF StorePointer
  <2>2. pc'[p] = "print" /\ NobodyStores'
    BY <1>6, <2>1
  <2>3. Own(p)
    BY <1>3
  <2>4. Own(p)'
    BY <2>1, <2>2, <2>3 DEF Own
  <2>5. PICK k \in Nat : k < runs /\ Committed = k * DataLen
    BY <2>1, <2>3 DEF Own
  <2>6. Counted' /\ Whole' /\ LogMoves
    <3>1. CASE file' = file
      <4>1. Committed' = 0
        BY <1>4, <2>1, <2>2, <2>3, <3>1 DEF FileValue, Own
      <4>2. QED
        BY <1>1, <1>3, <2>1, <4>1, LogGoes DEF TypeOK
    <3>2. CASE file' = ptr[p]
      <4>1. Committed' = Committed + DataLen
        BY <1>1, <1>4, <2>1, <2>2, <2>3, <3>2 DEF FileValue, Own, TypeOK
      <4>2. Committed' = (k + 1) * DataLen
        BY <2>5, <4>1, Scaled
      <4>3. Moves(k, run[p])
        <5>1. \A i \in Entry : Committed + i \in Cells => mem[Committed + i] = run[p]
          BY <2>1, <2>3 DEF Own
        <5>2. \A a \in Slot(k) : a - Committed \in Entry /\ Committed + (a - Committed) = a
          BY <1>4, <2>5 DEF Slot, Entry
        <5>3. \A a \in Cells : a \in Slot(k) => mem[a] = run[p]
          BY <5>1, <5>2
        <5>4. run[p] \in 1..runs
          BY <2>1, <2>3 DEF Own
        <5>5. run[p] # 0
          BY <5>4
        <5>6. QED
          BY <2>1, <2>5, <4>2, <5>3, <5>5 DEF Moves
      <4>4. Counted'
        BY <1>1, <2>1, <2>5, <4>2 DEF Counted, Multiple, TypeOK
      <4>5. HasLog /\ HasLog'
        BY <1>1, <1>3, <4>4 DEF HasLog
      <4>6. Whole'
        BY <1>3, <4>3, <4>5, WholeAfterMove
      <4>7. LogMoves
        <5>1. Logged' = Logged \/ (Len(Logged) \in 0..k /\ Logged' = Append(Logged, run[p]))
          BY <1>3, <4>3, <4>5, LogAfterMove
        <5>2. run[p] \in 1..MaxRuns /\ k < MaxRuns
          BY <1>1, <2>1, <2>3, <2>5 DEF Own, TypeOK
        <5>3. Len(Logged) \in 0..k => Len(Logged) < MaxRuns
          BY <5>2
        <5>4. QED
          BY <5>1, <5>2, <5>3 DEF LogMoves
      <4>8. QED
        BY <4>4, <4>6, <4>7
    <3>3. QED
      BY <2>1, <3>1, <3>2
  <2>7. QED
    BY <1>5, <2>1, <2>4, <2>6
<1>16. ASSUME NEW p \in Procs, PrintMemory(p) \/ Close(p) PROVE AloneInv' /\ LogMoves
  <2>1. PICK l \in {"close", "off"} : pc' = [pc EXCEPT ![p] = l]
    BY <1>16 DEF PrintMemory, Close
  <2>2. UNCHANGED <<file, mem, runs, run, done, ptr>> /\ pc[p] \in {"print", "close"}
    BY <1>16 DEF PrintMemory, Close
  <2>3. pc'[p] = l /\ NobodyStores /\ NobodyStores'
    BY <1>6, <2>1, <2>2
  <2>4. Committed' = Committed
    BY <1>4, <2>2, <2>3 DEF FileValue
  <2>5. Own(p) /\ pc'[p] \in {"close", "off"}
    BY <1>3, <2>1, <2>3
  <2>6. Own(p)'
    BY <2>2, <2>5 DEF Own
  <2>7. Counted' /\ Whole' /\ LogMoves
    BY <1>1, <1>3, <2>2, <2>4, LogStays DEF TypeOK
  <2>8. QED
    BY <1>5, <2>1, <2>2, <2>6, <2>7
<1>17. ASSUME NEW p \in Procs, Crash(p) PROVE AloneInv' /\ LogMoves
  <2>1. /\ UNCHANGED <<file, mem, runs, run, done, ptr>> /\ pc[p] # "off"
        /\ pc' = [pc EXCEPT ![p] = "off"]
    BY <1>17 DEF Crash
  <2>2. /\ pc'[p] = "off" /\ NobodyStores'
        /\ pc[p] # "store" => NobodyStores
    BY <1>6, <2>1
  <2>3. Own(p) /\ Own(p)'
    BY <1>3, <2>2 DEF Own
  <2>4. Counted' /\ Whole' /\ LogMoves
    <3>1. CASE pc[p] = "store"
      <4>1. Committed' = 0
        BY <1>4, <2>1, <2>2, <2>3, <3>1 DEF FileValue, Own
      <4>2. QED
        BY <1>1, <1>3, <2>1, <4>1, LogGoes DEF TypeOK
    <3>2. CASE pc[p] # "store"
      <4>1. Committed' = Committed
        BY <1>4, <2>1, <2>2, <3>2 DEF FileValue
      <4>2. QED
        BY <1>1, <1>3, <2>1, <4>1, LogStays DEF TypeOK
    <3>3. QED
      BY <3>1, <3>2
  <2>5. QED
    BY <1>5, <2>1, <2>3, <2>4
<1>18. CASE Reboot
  <2>1. file' = file /\ runs' = runs /\ mem' = [a \in Cells |-> 0] /\ pc' = [q \in Procs |-> "off"]
    BY <1>18 DEF Reboot
  <2>2. \A q \in Procs : pc'[q] = "off"
    BY <2>1
  <2>3. Committed' = FileValue
    BY <1>4, <2>1, <2>2 DEF NobodyStores, FileValue
  <2>4. Committed' = Committed \/ Committed' = 0
    <3>1. CASE NobodyStores
      BY <1>4, <2>3, <3>1
    <3>2. CASE ~NobodyStores
      <4>1. file = Empty
        BY <1>3, <3>2 DEF NobodyStores, Own
      <4>2. QED
        BY <2>3, <4>1 DEF FileValue
    <3>3. QED
      BY <3>1, <3>2
  <2>5. \A a \in Cells : mem'[a] = 0
    BY <2>1
  <2>6. Counted' /\ Whole' /\ LogMoves
    BY <1>1, <1>3, <2>1, <2>4, <2>5, LogGoes DEF TypeOK
  <2>7. Solo' /\ \A q \in Procs : Own(q)'
    BY <2>2 DEF Solo, Own
  <2>8. QED
    BY <2>6, <2>7 DEF AloneInv
<1>19. CASE UNCHANGED vars
  <2>1. UNCHANGED <<file, mem, pc, runs, ptr, run, done>>
    BY <1>19 DEF vars
  <2>2. Committed' = Committed
    BY <2>1 DEF Committed
  <2>3. Counted' /\ Whole' /\ LogMoves
    BY <1>1, <1>3, <2>1, <2>2, LogStays DEF TypeOK
  <2>4. Solo' /\ \A q \in Procs : Own(q)'
    BY <1>3, <2>1, <2>2 DEF Solo, Own
  <2>5. QED
    BY <2>3, <2>4 DEF AloneInv
<1>20. QED
  BY <1>7, <1>8, <1>9, <1>10, <1>11, <1>12, <1>13, <1>14, <1>15, <1>16, <1>17, <1>18, <1>19
     DEF Next, Step

LEMMA AloneHolds == Spec => [](Inv /\ AloneOK)
<1>1. Init => AloneOK
  <2> SUFFICES ASSUME Init PROVE AloneInv
    BY DEF AloneOK
  <2>1. Committed = 0 /\ runs = 0 /\ \A p \in Procs : pc[p] = "off"
    BY FileAssumption DEF Init, Committed, At
  <2>2. Counted
    <3>1. 0 = 0 * DataLen
      BY SizeAssumption, SMT
    <3>2. QED
      BY <2>1, <3>1 DEF Counted, Multiple
  <2>3. Whole
    <3>1. End = 0
      BY <2>1, SizeAssumption DEF End
    <3>2. Below = {}
      BY <3>1 DEF Below
    <3>3. QED
      BY <3>2 DEF Whole
  <2>4. Solo /\ \A p \in Procs : Own(p)
    BY <2>1 DEF Solo, Own, Early
  <2>5. QED
    BY <2>2, <2>3, <2>4 DEF AloneInv
<1>2. QED
  BY <1>1, InvHolds, AloneStep, PTL DEF Spec

\* As long as runs do not overlap, no entry of the log is a mixture of two, for
\* any number of processes, any sizes, and whatever crashes, restarts of the
\* machine and full disks come between.
THEOREM EntriesAreWhole == Spec => []NoTornEntry
<1>1. Inv /\ AloneOK => NoTornEntry
  <2> SUFFICES ASSUME Inv, AloneOK, alone,
                      NEW n \in DOMAIN Logged, NEW i \in Entry,
                      Base + (n - 1) * DataLen + i \in Cells
               PROVE  mem[Base + (n - 1) * DataLen + i] = Logged[n]
    BY DEF NoTornEntry
  <2>1. n \in 1..LoggedEntries /\ Logged[n] = mem[Base + (n - 1) * DataLen]
    BY DEF Logged
  <2>2. HasLog /\ Whole
    BY DEF Inv, AloneOK, AloneInv, HasLog
  <2>3. QED
    BY <2>1, <2>2, LoggedIsWhole
<1>2. QED
  BY <1>1, AloneHolds, PTL

\* Runs that do not overlap only ever add an entry at the end of the log, and
\* what goes wrong can only lose the whole of it.
THEOREM LogKeptOrLost == Spec => KeepsLogOrLosesPointer
<1> DEFINE log == IF alone THEN Logged ELSE <<>>
<1>1. Init => log = <<>>
  <2> SUFFICES ASSUME Init PROVE Logged = <<>>
    OBVIOUS
  <2>2. Committed = 0
    BY FileAssumption DEF Init, Committed, At
  <2>3. End = 0
    BY <2>2, SizeAssumption DEF End
  <2>4. HasLog
    <3>1. 0 = 0 * DataLen /\ runs = 0
      BY SizeAssumption, SMT DEF Init
    <3>2. TypeOK
      BY SizeAssumption, FileAssumption DEF Init, TypeOK, Places, Cells, Entry
    <3>3. QED
      BY <2>2, <3>1, <3>2 DEF HasLog, Counted, Multiple
  <2>5. Hollow
    BY <2>3 DEF Hollow, Below
  <2>6. QED
    BY <2>4, <2>5, NoLog DEF Logless
<1>2. Inv /\ Inv' /\ AloneOK /\ [Next]_vars =>
        [Log!AppendEntry \/ Log!Forget]_log
  <2> SUFFICES ASSUME Inv, Inv', AloneOK, [Next]_vars
               PROVE  [Log!AppendEntry \/ Log!Forget]_log
    OBVIOUS
  <2>1. CASE ~alone'
    BY <2>1 DEF Log!Forget
  <2>2. CASE alone'
    <3>1. alone
      BY <2>2 DEF Next, Step, Start, OpenPointer, CreatePointer, InitPointer, MapMemory, WriteCell,
             MovePointer, TruncatePointer, StorePointer, PrintMemory, Close, Crash, Reboot, vars,
             history
    <3>2. LogMoves
      BY <2>2, AloneStep
    <3>3. log = Logged /\ log' = Logged'
      BY <2>2, <3>1
    <3>4. QED
      BY <3>2, <3>3 DEF LogMoves, Log!AppendEntry, Log!Forget
  <2>3. QED
    BY <2>1, <2>2
<1>3. QED
  BY <1>1, <1>2, AloneHolds, PTL DEF Spec, KeepsLogOrLosesPointer, Log!LossySpec, Log!Init
=============================================================================
