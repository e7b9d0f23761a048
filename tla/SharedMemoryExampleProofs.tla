---------------------- MODULE SharedMemoryExampleProofs ----------------------
(***************************************************************************)
(* What TLAPS proves about SharedMemoryExample, for any number of services *)
(* and runs and any sizes that are Java ints: typing, that the pointer     *)
(* never counts an entry that was not written to the end, and, of runs     *)
(* that do not overlap, that the pointer stays in the memory, that no      *)
(* entry is torn, and that they keep the log.                              *)
(***************************************************************************)
EXTENDS SharedMemoryExample, Sequences, FiniteSetTheorems, TLAPS

MinInt == -2147483648
Int32 == {n \in Int : MinInt <= n /\ n <= 2147483647}

Bytes == 0..255

\* The number of four bytes, and a number that has them as its lowest four.
Four(d, c, b, a) == d * 16777216 + c * 65536 + b * 256 + a
HasBytes(n, d, c, b, a) ==
  /\ n \in Int /\ a \in Bytes /\ b \in Bytes /\ c \in Bytes /\ d \in Bytes
  /\ \E q \in Int : n = q * 4294967296 + Four(d, c, b, a)

LEMMA BytesAreUnique ==
  ASSUME NEW n, NEW a, NEW b, NEW c, NEW d, HasBytes(n, d, c, b, a)
  PROVE  Byte(n, 0) = a /\ Byte(n, 1) = b /\ Byte(n, 2) = c /\ Byte(n, 3) = d
<1>1. /\ n \in Int /\ a \in 0..255 /\ b \in 0..255 /\ c \in 0..255 /\ d \in 0..255
      /\ \E q \in Int : n = q * 4294967296 + Four(d, c, b, a)
  BY SMT DEF HasBytes, Bytes
<1>2. PICK q \in Int : n = q * 4294967296 + Four(d, c, b, a)
  BY <1>1, SMT
<1>3. 256^0 = 1 /\ 256^1 = 256 /\ 256^2 = 65536 /\ 256^3 = 16777216
  BY SMT
<1>4. n \div 1 = n /\ n \div 256 = q * 16777216 + d * 65536 + c * 256 + b
  BY <1>1, <1>2, SMT DEF Four
<1>5. n \div 65536 = q * 65536 + d * 256 + c /\ n \div 16777216 = q * 256 + d
  BY <1>1, <1>2, SMT DEF Four
<1>6. n % 256 = a
  BY <1>1, <1>2, SMT DEF Four
<1>7. QED
  BY <1>1, <1>3, <1>4, <1>5, <1>6, SMT DEF Byte

LEMMA IntHasBytes ==
  ASSUME NEW n \in Int
  PROVE  HasBytes(n, Byte(n, 3), Byte(n, 2), Byte(n, 1), Byte(n, 0))
<1> DEFINE n1 == n \div 256
           n2 == n1 \div 256
           n3 == n2 \div 256
           n4 == n3 \div 256
<1>1. n1 \in Int /\ n2 \in Int /\ n3 \in Int /\ n4 \in Int
  BY SMT
<1>2. /\ n % 256 \in 0..255 /\ n1 % 256 \in 0..255
      /\ n2 % 256 \in 0..255 /\ n3 % 256 \in 0..255
  BY <1>1, SMT
<1>3. /\ n = n1 * 256 + (n % 256) /\ n1 = n2 * 256 + (n1 % 256)
      /\ n2 = n3 * 256 + (n2 % 256) /\ n3 = n4 * 256 + (n3 % 256)
  BY SMT
<1>4. n \div 1 = n /\ n \div 65536 = n2 /\ n \div 16777216 = n3
  BY SMT
<1>5. Byte(n, 0) = n % 256 /\ Byte(n, 1) = n1 % 256 /\ Byte(n, 2) = n2 % 256 /\ Byte(n, 3) = n3 % 256
  <2>1. 256^0 = 1 /\ 256^1 = 256 /\ 256^2 = 65536 /\ 256^3 = 16777216
    BY SMT
  <2>2. QED
    BY <1>4, <2>1, SMT DEF Byte
<1> HIDE DEF n1, n2, n3, n4
<1>6. n = n4 * 4294967296 + Four(n3 % 256, n2 % 256, n1 % 256, n % 256)
  BY <1>1, <1>2, <1>3, SMT DEF Four
<1>7. HasBytes(n, n3 % 256, n2 % 256, n1 % 256, n % 256)
  <2>1. \E q \in Int : n = q * 4294967296 + Four(n3 % 256, n2 % 256, n1 % 256, n % 256)
    BY <1>1, <1>6, SMT
  <2>2. QED
    BY <1>2, <2>1 DEF HasBytes, Bytes
<1>8. QED
  BY <1>5, <1>7

\* The highest byte of an int is signed.
LEMMA SignedByteRange ==
  ASSUME NEW a \in Bytes
  PROVE  /\ SignedByte(a) \in Int /\ -128 <= SignedByte(a) /\ SignedByte(a) <= 127
         /\ (a < 128 /\ SignedByte(a) = a) \/ (a >= 128 /\ SignedByte(a) = a - 256)
BY SMT DEF SignedByte, Bytes

\* Four bytes, the highest of them signed, make an int whose bytes they are.
LEMMA SignedBytes ==
  ASSUME NEW n, NEW a \in Bytes, NEW b \in Bytes, NEW c \in Bytes, NEW d \in Bytes,
         n = Four(SignedByte(a), b, c, d)
  PROVE  n \in Int32 /\ HasBytes(n, a, b, c, d)
<1> DEFINE s == SignedByte(a)
<1>1. s \in Int /\ -128 <= s /\ s <= 127 /\ (s = a \/ s = a - 256)
  BY SignedByteRange
<1>2. n = Four(s, b, c, d)
  OBVIOUS
<1> HIDE DEF s
<1>3. n \in Int32
  BY <1>1, <1>2, SMT DEF Int32, MinInt, Bytes, Four
<1>4. \E q \in Int : n = q * 4294967296 + Four(a, b, c, d)
  <2>1. CASE s = a
    <3>1. n = 0 * 4294967296 + Four(a, b, c, d)
      BY <1>2, <2>1, SMT DEF Four, Bytes
    <3>2. QED
      BY <3>1
  <2>2. CASE s = a - 256
    <3> DEFINE q == 0 - 1
    <3>1. q \in Int /\ n = q * 4294967296 + Four(a, b, c, d)
      BY <1>2, <2>2, SMT DEF Four, Bytes
    <3> HIDE DEF q
    <3>2. QED
      BY <3>1, SMT
  <2>3. QED
    BY <1>1, <2>1, <2>2
<1>5. QED
  BY <1>3, <1>4 DEF HasBytes, Int32

\* An int is what its lowest four bytes say with the highest of them signed.
LEMMA IntOfBytes ==
  ASSUME NEW n, NEW a, NEW b, NEW c, NEW d, HasBytes(n, d, c, b, a)
  PROVE  /\ n \in Int32 => Four(SignedByte(d), c, b, a) = n
         /\ n >= MinInt => Four(SignedByte(d), c, b, a) <= n
<1> DEFINE s == SignedByte(d)
<1>1. /\ n \in Int /\ a \in 0..255 /\ b \in 0..255 /\ c \in 0..255 /\ d \in 0..255
      /\ \E q \in Int : n = q * 4294967296 + Four(d, c, b, a)
  BY SMT DEF HasBytes, Bytes
<1>2. s \in Int /\ ((d < 128 /\ s = d) \/ (d >= 128 /\ s = d - 256))
  BY <1>1, SignedByteRange DEF Bytes
<1> HIDE DEF s
<1>3. PICK q \in Int : n = q * 4294967296 + Four(d, c, b, a)
  BY <1>1, SMT
<1>4. /\ n \in Int32 => Four(s, c, b, a) = n
      /\ n >= MinInt => Four(s, c, b, a) <= n
  BY <1>1, <1>2, <1>3, SMT DEF Int32, MinInt, Four
<1>5. QED
  BY <1>4 DEF s

LEMMA BigEndianIsFour ==
  ASSUME NEW n, NEW a, NEW b, NEW c, NEW d, HasBytes(n, d, c, b, a)
  PROVE  BigEndian(n) = Four(SignedByte(a), b, c, d)
<1>1. 256^2 = 65536 /\ 256^3 = 16777216
  BY SMT
<1>2. Byte(n, 0) = a /\ Byte(n, 1) = b /\ Byte(n, 2) = c /\ Byte(n, 3) = d
  BY BytesAreUnique
<1>3. QED
  BY <1>1, <1>2, SMT DEF BigEndian, Four

\* Turning the bytes of a number round gives an int, and turning them round
\* again gives back what an int holds of the number, which is not above it
\* where the number is not below the ints.
LEMMA RoundAndBack ==
  ASSUME NEW n \in Int
  PROVE  /\ BigEndian(n) \in Int32
         /\ n \in Int32 => BigEndian(BigEndian(n)) = n
         /\ n >= MinInt => BigEndian(BigEndian(n)) <= n
<1> DEFINE a == Byte(n, 0)
           b == Byte(n, 1)
           c == Byte(n, 2)
           d == Byte(n, 3)
           m == BigEndian(n)
<1>1. HasBytes(n, d, c, b, a)
  BY IntHasBytes
<1> HIDE DEF a, b, c, d
<1>2. m = Four(SignedByte(a), b, c, d)
  BY <1>1, BigEndianIsFour
<1>3. a \in Bytes /\ b \in Bytes /\ c \in Bytes /\ d \in Bytes
  BY <1>1 DEF HasBytes
<1> HIDE DEF m
<1>4. m \in Int32 /\ HasBytes(m, a, b, c, d)
  BY <1>2, <1>3, SignedBytes
<1>5. BigEndian(m) = Four(SignedByte(d), c, b, a)
  BY <1>4, BigEndianIsFour
<1>6. /\ n \in Int32 => Four(SignedByte(d), c, b, a) = n
      /\ n >= MinInt => Four(SignedByte(d), c, b, a) <= n
  BY <1>1, IntOfBytes
<1>7. QED
  BY <1>4, <1>5, <1>6 DEF m

LEMMA ZeroIsZero == BigEndian(0) = 0
<1>1. HasBytes(0, 0, 0, 0, 0)
  <2>1. 0 = 0 * 4294967296 + Four(0, 0, 0, 0)
    BY SMT DEF Four
  <2>2. 0 \in Int /\ 0 \in Bytes
    BY DEF Bytes
  <2>3. QED
    BY <2>1, <2>2 DEF HasBytes
<1>2. BigEndian(0) = Four(SignedByte(0), 0, 0, 0)
  BY <1>1, BigEndianIsFour
<1>3. QED
  BY <1>2, SMT DEF Four, SignedByte

-----------------------------------------------------------------------------
(* What holds whatever runs overlap: the types, whose run is whose, what a *)
(* run may take for granted of the file, and where an entry is written.    *)

\* A run is late when its entry is written and the pointer not yet moved.
Late == {"mapptr", "get", "add"}

\* Each run has a number of its own, and is in `whole' once it is late.
RunsOK ==
  /\ runs <= MaxRuns
  /\ \A p \in Procs : pc[p] # "off" => run[p] \in 1..runs
  /\ \A p, q \in Procs : pc[p] # "off" /\ pc[q] # "off" /\ run[p] = run[q] => p = q
  /\ \A p \in Procs : pc[p] \in {"read", "map", "position", "put"} => run[p] \notin whole
  /\ \A p \in Procs : pc[p] \in Late => run[p] \in whole

\* Once a run has mapped the pointer file it holds a pointer.
FileOK ==
  /\ \A p \in Procs : pc[p] \in Late => file # Missing
  /\ \A p \in Procs : pc[p] \in {"get", "add"} => file # Empty

\* An entry is written only where there is room for it.
InMemory ==
  \A p \in Procs : pc[p] \in {"put", "print"} \cup Late => ptr[p] \in 0..(Size - DataLen)

BaseInv == TypeOK /\ RunsOK /\ FileOK /\ InMemory

LEMMA BaseInit == Init => BaseInv
BY SizeAssumption
   DEF Init, BaseInv, TypeOK, RunsOK, FileOK, InMemory, Places, Late, Cells, Entry, At

LEMMA BaseStep == BaseInv /\ [Next]_vars => BaseInv'
<1> USE SizeAssumption, FileAssumption
    DEF Places, Late, Cells, Entry, At, Goto, local, history
<1> SUFFICES ASSUME BaseInv, [Next]_vars PROVE BaseInv'
  OBVIOUS
<1> USE DEF BaseInv
<1>1. ASSUME NEW p \in Procs, Start(p) PROVE BaseInv'
  <2>1. /\ pc[p] = "off" /\ runs < MaxRuns /\ runs' = runs + 1
        /\ pc' = [pc EXCEPT ![p] = "read"] /\ run' = [run EXCEPT ![p] = runs + 1]
        /\ UNCHANGED <<file, mem, whole>>
    BY <1>1 DEF Start
  <2>2. runs' \in Nat /\ whole \subseteq 1..runs /\ whole' \subseteq 1..runs'
    BY <2>1 DEF TypeOK
  <2>3. TypeOK'
    <3>1. alone' \in BOOLEAN
      BY <1>1 DEF Start
    <3>2. /\ ptr' \in [Procs -> Int] /\ done' \in [Procs -> SUBSET Entry]
          /\ current' \in [Procs -> Int]
      BY <1>1 DEF Start, TypeOK
    <3>3. shown' \in [Procs -> {<<>>} \cup [Entry -> Nat]]
      BY <1>1 DEF Start, TypeOK
    <3>4. pc' \in [Procs -> Places] /\ run' \in [Procs -> Nat]
      BY <2>1 DEF TypeOK
    <3>5. QED
      BY <2>1, <2>2, <3>1, <3>2, <3>3, <3>4 DEF TypeOK
  <2>4. RunsOK'
    <3>1. \A q \in Procs : pc'[q] = (IF q = p THEN "read" ELSE pc[q])
                           /\ run'[q] = (IF q = p THEN runs + 1 ELSE run[q])
      BY <2>1 DEF TypeOK
    <3>2. \A q \in Procs : pc[q] # "off" => run[q] \in 1..runs /\ run[q] # runs + 1
      BY DEF TypeOK, RunsOK
    <3>3. runs + 1 \in 1..runs' /\ runs' <= MaxRuns /\ runs + 1 \notin whole
          /\ \A r \in 1..runs : r \in 1..runs'
      BY <2>1, <2>2 DEF TypeOK
    <3>4. \A q \in Procs : pc'[q] # "off" => run'[q] \in 1..runs'
      BY <3>1, <3>2, <3>3
    <3>5. \A q, t \in Procs : pc'[q] # "off" /\ pc'[t] # "off" /\ run'[q] = run'[t] => q = t
      BY <3>1, <3>2 DEF RunsOK
    <3>6. \A q \in Procs : pc'[q] \in {"read", "map", "position", "put"} => run'[q] \notin whole'
      BY <2>1, <3>1, <3>3 DEF RunsOK
    <3>7. \A q \in Procs : pc'[q] \in Late => run'[q] \in whole'
      BY <2>1, <3>1 DEF RunsOK
    <3>8. QED
      BY <3>3, <3>4, <3>5, <3>6, <3>7 DEF RunsOK
  <2>5. FileOK' /\ InMemory'
    BY <1>1 DEF Start, TypeOK, FileOK, InMemory
  <2>6. QED
    BY <2>3, <2>4, <2>5
<1>2. ASSUME NEW p \in Procs, ReadPointer(p) PROVE BaseInv'
  <2>1. file # Empty => Recovered \in Int
    BY RoundAndBack DEF TypeOK, Recovered, Int32
  <2>2. TypeOK'
    BY <1>2, <2>1 DEF ReadPointer, TypeOK
  <2>3. /\ UNCHANGED <<file, mem, runs, run, done, current, shown, alone, whole>>
        /\ At(p, "read")
        /\ pc' \in {[pc EXCEPT ![p] = "off"], [pc EXCEPT ![p] = "map"]}
        /\ \A q \in Procs : q # p => ptr'[q] = ptr[q]
    BY <1>2, <2>1 DEF ReadPointer, TypeOK
  <2>4. RunsOK'
    <3>1. CASE pc' = [pc EXCEPT ![p] = "off"]
      BY <2>3, <3>1 DEF TypeOK, RunsOK
    <3>2. CASE pc' = [pc EXCEPT ![p] = "map"]
      BY <2>3, <3>2 DEF TypeOK, RunsOK
    <3>3. QED
      BY <2>3, <3>1, <3>2
  <2>5. FileOK' /\ InMemory'
    BY <2>3 DEF TypeOK, FileOK, InMemory
  <2>6. QED
    BY <2>2, <2>4, <2>5
<1>3. ASSUME NEW p \in Procs, MapSharedMemory(p) \/ Crash(p) PROVE BaseInv'
  <2>1. PICK l \in {"off", "position"} : pc' = [pc EXCEPT ![p] = l]
    BY <1>3 DEF MapSharedMemory, Crash
  <2>2. /\ UNCHANGED <<file, mem, runs, ptr, run, done, current, shown, alone, whole>>
        /\ pc[p] # "off" /\ (l = "off" \/ pc[p] = "map")
    BY <1>3, <2>1 DEF MapSharedMemory, Crash, TypeOK
  <2>3. TypeOK' /\ FileOK' /\ InMemory'
    BY <2>1, <2>2 DEF TypeOK, FileOK, InMemory
  <2>4. RunsOK'
    <3>1. CASE l = "off"
      BY <2>1, <2>2, <3>1 DEF TypeOK, RunsOK
    <3>2. CASE l = "position" /\ pc[p] = "map"
      BY <2>1, <2>2, <3>2 DEF TypeOK, RunsOK
    <3>3. QED
      BY <2>1, <2>2, <3>1, <3>2
  <2>5. QED
    BY <2>3, <2>4
<1>4. ASSUME NEW p \in Procs, PositionBuffer(p) PROVE BaseInv'
  <2>1. TypeOK' /\ RunsOK' /\ FileOK'
    BY <1>4 DEF PositionBuffer, TypeOK, RunsOK, FileOK
  <2>2. InMemory'
    BY <1>4 DEF PositionBuffer, Fits, TypeOK, InMemory
  <2>3. QED
    BY <2>1, <2>2
<1>5. ASSUME NEW p \in Procs, NEW i \in Entry, PutCell(p, i) PROVE BaseInv'
  <2>1. TypeOK'
    BY <1>5 DEF PutCell, TypeOK
  <2>2. RunsOK' /\ FileOK' /\ InMemory'
    BY <1>5 DEF PutCell, TypeOK, RunsOK, FileOK, InMemory
  <2>3. QED
    BY <2>1, <2>2
<1>6. ASSUME NEW p \in Procs, OpenPointerFile(p) PROVE BaseInv'
  <2>1. /\ file' \in {file, Opened} /\ whole' = whole \cup {run[p]}
        /\ pc' \in {[pc EXCEPT ![p] = "mapptr"], [pc EXCEPT ![p] = "off"]}
        /\ (file' = Opened \/ pc' = [pc EXCEPT ![p] = "off"])
    BY <1>6 DEF OpenPointerFile
  <2>2. UNCHANGED <<mem, runs, ptr, run, done, current, shown, alone>>
    BY <1>6 DEF OpenPointerFile
  <2>3. run[p] \in 1..runs
    BY <1>6 DEF OpenPointerFile, RunsOK
  <2>4. Opened \in Int \cup {Missing, Empty} /\ Opened # Missing
        /\ (file # Missing => Opened = file)
    BY DEF Opened, TypeOK
  <2>5. TypeOK'
    BY <2>1, <2>2, <2>3, <2>4 DEF TypeOK
  <2>6. RunsOK'
    <3>1. pc[p] = "put" /\ run[p] \notin whole
      BY <1>6 DEF OpenPointerFile, RunsOK
    <3>2. PICK l \in {"mapptr", "off"} : pc' = [pc EXCEPT ![p] = l]
      BY <2>1
    <3>3. \A q \in Procs : pc'[q] = (IF q = p THEN l ELSE pc[q])
      BY <3>2 DEF TypeOK
    <3>4. \A q \in Procs : q # p /\ pc[q] # "off" => run[q] # run[p]
      BY <3>1 DEF RunsOK
    <3>5. /\ runs' <= MaxRuns /\ \A q \in Procs : pc'[q] # "off" => run'[q] \in 1..runs'
          /\ \A q, t \in Procs : pc'[q] # "off" /\ pc'[t] # "off" /\ run'[q] = run'[t] => q = t
      BY <2>2, <3>1, <3>3 DEF RunsOK
    <3>6. \A q \in Procs : pc'[q] \in {"read", "map", "position", "put"} => run'[q] \notin whole'
      BY <2>1, <2>2, <3>3, <3>4 DEF RunsOK
    <3>7. \A q \in Procs : pc'[q] \in Late => run'[q] \in whole'
      BY <2>1, <2>2, <3>3 DEF RunsOK
    <3>8. QED
      BY <3>5, <3>6, <3>7 DEF RunsOK
  <2>7. FileOK' /\ InMemory'
    BY <1>6, <2>1, <2>2, <2>4 DEF OpenPointerFile, TypeOK, FileOK, InMemory
  <2>8. QED
    BY <2>5, <2>6, <2>7
<1>7. ASSUME NEW p \in Procs, MapPointerFile(p) PROVE BaseInv'
  <2>1. /\ UNCHANGED <<mem, runs, ptr, run, done, current, shown, alone, whole>>
        /\ At(p, "mapptr") /\ file # Missing
        /\ \/ file' = (IF file = Empty THEN 0 ELSE file) /\ pc' = [pc EXCEPT ![p] = "get"]
           \/ file' = file /\ pc' = [pc EXCEPT ![p] = "off"]
    BY <1>7 DEF MapPointerFile, FileOK
  <2>2. file' \in Int \cup {Missing, Empty} /\ file' # Missing /\ (file # Empty => file' # Empty)
    BY <2>1 DEF TypeOK
  <2>3. pc' \in {[pc EXCEPT ![p] = "get"], [pc EXCEPT ![p] = "off"]}
    BY <2>1
  <2>4. TypeOK'
    BY <2>1, <2>2, <2>3 DEF TypeOK
  <2>5. RunsOK' /\ InMemory'
    BY <2>1, <2>3 DEF TypeOK, RunsOK, InMemory
  <2>6. FileOK'
    <3>1. CASE pc' = [pc EXCEPT ![p] = "get"]
      <4>1. file' # Empty
        BY <2>1, <3>1 DEF TypeOK
      <4>2. QED
        BY <2>2, <3>1, <4>1 DEF TypeOK, FileOK
    <3>2. CASE pc' = [pc EXCEPT ![p] = "off"]
      BY <2>2, <3>2 DEF TypeOK, FileOK
    <3>3. QED
      BY <2>3, <3>1, <3>2
  <2>7. QED
    BY <2>4, <2>5, <2>6
<1>8. ASSUME NEW p \in Procs, ReadCurrent(p) PROVE BaseInv'
  <2>1. BigEndian(file) \in Int
    BY <1>8, RoundAndBack DEF ReadCurrent, TypeOK, FileOK, Int32
  <2>2. TypeOK'
    BY <1>8, <2>1 DEF ReadCurrent, TypeOK
  <2>3. RunsOK' /\ FileOK' /\ InMemory'
    BY <1>8 DEF ReadCurrent, TypeOK, RunsOK, FileOK, InMemory
  <2>4. QED
    BY <2>2, <2>3
<1>9. ASSUME NEW p \in Procs, AddLength(p) PROVE BaseInv'
  <2>1. file' \in Int
    <3>1. Sum(p) \in Int
      BY DEF Sum, TypeOK
    <3>2. QED
      BY <1>9, <3>1, RoundAndBack DEF AddLength, Int32
  <2>2. TypeOK'
    BY <1>9, <2>1 DEF AddLength, TypeOK
  <2>3. RunsOK' /\ FileOK' /\ InMemory'
    BY <1>9, <2>1 DEF AddLength, TypeOK, RunsOK, FileOK, InMemory
  <2>4. QED
    BY <2>2, <2>3
<1>10. ASSUME NEW p \in Procs, PrintEntry(p) PROVE BaseInv'
  <2>1. TypeOK'
    <3>1. Entry \subseteq Cells
      BY <1>10 DEF PrintEntry, TypeOK, InMemory
    <3>2. [i \in Entry |-> mem[i]] \in [Entry -> Nat]
      BY <3>1 DEF TypeOK
    <3>3. QED
      BY <1>10, <3>2 DEF PrintEntry, TypeOK
  <2>2. RunsOK' /\ FileOK' /\ InMemory'
    BY <1>10 DEF PrintEntry, TypeOK, RunsOK, FileOK, InMemory
  <2>3. QED
    BY <2>1, <2>2
<1>11. CASE UNCHANGED vars
  BY <1>11 DEF vars, TypeOK, RunsOK, FileOK, InMemory
<1>12. QED
  BY <1>1, <1>2, <1>3, <1>4, <1>5, <1>6, <1>7, <1>8, <1>9, <1>10, <1>11 DEF Next, Step

LEMMA BaseHolds == Spec => []BaseInv
<1>1. QED
  BY BaseInit, BaseStep, PTL DEF Spec

\* Every step keeps the types, whatever the file holds.
THEOREM Typing == Spec => []TypeOK
<1>1. BaseInv => TypeOK
  BY DEF BaseInv
<1>2. QED
  BY <1>1, BaseHolds, PTL

-----------------------------------------------------------------------------
(* The pointer never counts an entry that was not written to the end.      *)

\* A run that is late has kept its number, and was late before or had not
\* written its entry to the end.
LEMMA LateStep ==
  BaseInv /\ [Next]_vars =>
    /\ whole \subseteq whole'
    /\ \A q \in Procs : pc'[q] \in Late =>
         run'[q] = run[q] /\ (pc[q] \in Late \/ run[q] \notin whole)
<1> USE DEF Late, At, Goto, local, history
<1> SUFFICES ASSUME BaseInv, [Next]_vars
             PROVE  /\ whole \subseteq whole'
                    /\ \A q \in Procs : pc'[q] \in Late =>
                         run'[q] = run[q] /\ (pc[q] \in Late \/ run[q] \notin whole)
  OBVIOUS
<1>1. TypeOK
  BY DEF BaseInv
<1>2. ASSUME NEW p \in Procs, Start(p) \/ Crash(p) \/ PositionBuffer(p)
      PROVE  whole' = whole /\ \A q \in Procs : pc'[q] \in Late => run'[q] = run[q] /\ pc[q] \in Late
  BY <1>1, <1>2 DEF Start, Crash, PositionBuffer, TypeOK
<1>3. ASSUME NEW p \in Procs, ReadPointer(p) \/ MapSharedMemory(p)
      PROVE  whole' = whole /\ \A q \in Procs : pc'[q] \in Late => run'[q] = run[q] /\ pc[q] \in Late
  BY <1>1, <1>3 DEF ReadPointer, MapSharedMemory, TypeOK
<1>4. ASSUME NEW p \in Procs, (\E i \in Entry : PutCell(p, i)) \/ MapPointerFile(p)
      PROVE  whole' = whole /\ \A q \in Procs : pc'[q] \in Late => run'[q] = run[q] /\ pc[q] \in Late
  BY <1>1, <1>4 DEF PutCell, MapPointerFile, TypeOK
<1>5. ASSUME NEW p \in Procs, ReadCurrent(p) \/ AddLength(p) \/ PrintEntry(p)
      PROVE  whole' = whole /\ \A q \in Procs : pc'[q] \in Late => run'[q] = run[q] /\ pc[q] \in Late
  BY <1>1, <1>5 DEF ReadCurrent, AddLength, PrintEntry, TypeOK
<1>6. ASSUME NEW p \in Procs, OpenPointerFile(p)
      PROVE  /\ whole \subseteq whole' /\ run' = run
             /\ \A q \in Procs : pc'[q] \in Late => pc[q] \in Late \/ q = p
             /\ run[p] \notin whole
  <2>1. run[p] \notin whole
    BY <1>6 DEF OpenPointerFile, BaseInv, RunsOK
  <2>2. QED
    BY <1>1, <1>6, <2>1 DEF OpenPointerFile, TypeOK
<1>7. CASE UNCHANGED vars
  BY <1>7 DEF vars
<1>8. QED
  BY <1>2, <1>3, <1>4, <1>5, <1>6, <1>7 DEF Next, Step

\* Only AddLength moves the pointer, and a run about to do so has read it.
LEMMA PointerStep ==
  BaseInv /\ [Next]_vars =>
    \/ /\ Committed' = Committed
       /\ \A q \in Procs : pc'[q] = "add" =>
            (file \in Int /\ current'[q] = Committed) \/ (pc[q] = "add" /\ current'[q] = current[q])
    \/ \E p \in Procs : AddLength(p)
<1> USE FileAssumption DEF At, Goto, local, history
<1> DEFINE Kept ==
             /\ Committed' = Committed
             /\ \A q \in Procs : pc'[q] = "add" =>
                  (file \in Int /\ current'[q] = Committed) \/ (pc[q] = "add" /\ current'[q] = current[q])
<1> SUFFICES ASSUME BaseInv, [Next]_vars PROVE Kept \/ \E p \in Procs : AddLength(p)
  OBVIOUS
<1>1. TypeOK
  BY DEF BaseInv
<1>2. ASSUME file' = file,
             \A q \in Procs : pc'[q] = "add" => pc[q] = "add" /\ current'[q] = current[q]
      PROVE  Kept
  BY <1>2 DEF Committed
<1>3. ASSUME NEW p \in Procs, Start(p) \/ Crash(p) \/ PositionBuffer(p) PROVE Kept
  <2>1. file' = file /\ \A q \in Procs : pc'[q] = "add" => pc[q] = "add" /\ current'[q] = current[q]
    BY <1>1, <1>3 DEF Start, Crash, PositionBuffer, TypeOK
  <2>2. QED
    BY <1>2, <2>1
<1>4. ASSUME NEW p \in Procs, ReadPointer(p) \/ MapSharedMemory(p) PROVE Kept
  <2>1. file' = file /\ \A q \in Procs : pc'[q] = "add" => pc[q] = "add" /\ current'[q] = current[q]
    BY <1>1, <1>4 DEF ReadPointer, MapSharedMemory, TypeOK
  <2>2. QED
    BY <1>2, <2>1
<1>5. ASSUME NEW p \in Procs, (\E i \in Entry : PutCell(p, i)) \/ PrintEntry(p) PROVE Kept
  <2>1. file' = file /\ \A q \in Procs : pc'[q] = "add" => pc[q] = "add" /\ current'[q] = current[q]
    BY <1>1, <1>5 DEF PutCell, PrintEntry, TypeOK
  <2>2. QED
    BY <1>2, <2>1
<1>6. ASSUME NEW p \in Procs, OpenPointerFile(p) PROVE Kept
  <2>1. Opened = file \/ (file = Missing /\ Opened = Empty)
    BY DEF Opened
  <2>2. Committed' = Committed
    BY <1>6, <2>1 DEF OpenPointerFile, Committed
  <2>3. \A q \in Procs : pc'[q] = "add" => pc[q] = "add" /\ current'[q] = current[q]
    BY <1>1, <1>6 DEF OpenPointerFile, TypeOK
  <2>4. QED
    BY <2>2, <2>3
<1>7. ASSUME NEW p \in Procs, MapPointerFile(p) PROVE Kept
  <2>1. file' = file \/ (file = Empty /\ file' = 0)
    BY <1>7 DEF MapPointerFile
  <2>2. Committed' = Committed
    BY <2>1, ZeroIsZero DEF Committed
  <2>3. \A q \in Procs : pc'[q] = "add" => pc[q] = "add" /\ current'[q] = current[q]
    BY <1>1, <1>7 DEF MapPointerFile, TypeOK
  <2>4. QED
    BY <2>2, <2>3
<1>8. ASSUME NEW p \in Procs, ReadCurrent(p) PROVE Kept
  <2>1. file \in Int
    BY <1>8 DEF ReadCurrent, BaseInv, TypeOK, FileOK, Late
  <2>2. file' = file /\ Committed' = Committed /\ BigEndian(file) = Committed
    BY <1>8, <2>1 DEF ReadCurrent, Committed
  <2>3. QED
    BY <1>1, <1>8, <2>1, <2>2 DEF ReadCurrent, TypeOK
<1>9. CASE UNCHANGED vars
  BY <1>2, <1>9 DEF vars
<1>10. QED
  BY <1>3, <1>4, <1>5, <1>6, <1>7, <1>8, <1>9 DEF Next, Step

HoldsInt == Committed \in Int32

LEMMA CommittedIsInt == BaseInv => HoldsInt
<1>1. 0 \in Int32
  BY SMT DEF Int32, MinInt
<1>2. QED
  BY <1>1, RoundAndBack DEF HoldsInt, Committed

\* The runs that have written their entry and will not move the pointer any
\* more, having done it or ended before.
Settled == {r \in whole : \A p \in Procs : pc[p] \in Late => run[p] # r}

\* The pointer counts settled runs only, and so does the copy of it that a run
\* is about to write back.
CountOK ==
  /\ Committed <= DataLen * Cardinality(Settled)
  /\ \A p \in Procs : At(p, "add") =>
       current[p] \in Int32 /\ current[p] <= DataLen * Cardinality(Settled)

FiniteRuns ==
  /\ IsFiniteSet(Settled) /\ Cardinality(Settled) \in Nat
  /\ Cardinality(Settled) <= Cardinality(whole) /\ Cardinality(whole) \in Nat

LEMMA RunsAreFinite == BaseInv => FiniteRuns
<1> SUFFICES ASSUME BaseInv PROVE FiniteRuns
  OBVIOUS
<1>1. IsFiniteSet(1..runs) /\ whole \subseteq 1..runs
  BY FS_Interval DEF BaseInv, TypeOK
<1>2. IsFiniteSet(whole) /\ Settled \subseteq whole
  BY <1>1, FS_Subset DEF Settled
<1>3. QED
  BY <1>2, FS_Subset, FS_CardinalityType DEF FiniteRuns

LEMMA Scaled ==
  ASSUME NEW a \in Nat, NEW b \in Nat, a <= b
  PROVE  DataLen * a <= DataLen * b
BY SizeAssumption, SMT

LEMMA CountStep == BaseInv /\ BaseInv' /\ CountOK /\ [Next]_vars => CountOK'
<1> SUFFICES ASSUME BaseInv, BaseInv', CountOK, [Next]_vars PROVE CountOK'
  OBVIOUS
<1> DEFINE c == Cardinality(Settled)
           d == Cardinality(Settled')
<1>1. Settled \subseteq Settled'
  BY LateStep DEF Settled
<1>2. /\ c \in Nat /\ c <= d /\ DataLen \in Nat
      /\ IsFiniteSet(Settled') /\ d \in Nat /\ DataLen * c <= DataLen * d
  <2>1. IsFiniteSet(Settled)
    BY RunsAreFinite DEF FiniteRuns
  <2>2. IsFiniteSet(Settled')
    <3>1. FiniteRuns'
      BY RunsAreFinite, PTL
    <3>2. QED
      BY <3>1 DEF FiniteRuns
  <2>3. c \in Nat /\ d \in Nat /\ c <= d
    BY <1>1, <2>1, <2>2, FS_Subset, FS_CardinalityType
  <2>4. QED
    BY <2>2, <2>3, Scaled, SizeAssumption
<1>3. Committed \in Int32 /\ Committed' \in Int32
  <2>1. HoldsInt /\ HoldsInt'
    BY CommittedIsInt, PTL
  <2>2. QED
    BY <2>1 DEF HoldsInt
<1> HIDE DEF c, d
<1>4. CASE /\ Committed' = Committed
           /\ \A q \in Procs : pc'[q] = "add" =>
                (file \in Int /\ current'[q] = Committed) \/ (pc[q] = "add" /\ current'[q] = current[q])
  <2>1. Committed' <= DataLen * d
    BY <1>2, <1>3, <1>4, SMT DEF CountOK, Int32, c
  <2>2. ASSUME NEW q \in Procs, pc'[q] = "add"
        PROVE  current'[q] \in Int32 /\ current'[q] <= DataLen * d
    <3>1. CASE current'[q] = Committed
      BY <1>3, <1>4, <2>1, <3>1
    <3>2. CASE pc[q] = "add" /\ current'[q] = current[q]
      <4>1. current[q] \in Int32 /\ current[q] <= DataLen * c
        BY <3>2 DEF CountOK, At, c
      <4>2. QED
        BY <1>2, <3>2, <4>1, SMT DEF Int32
    <3>3. QED
      BY <1>4, <2>2, <3>1, <3>2
  <2>3. QED
    BY <2>1, <2>2 DEF CountOK, At, d
<1>5. ASSUME NEW p \in Procs, AddLength(p) PROVE CountOK'
  <2> USE DEF At, Goto, Late
  <2>1. run[p] \notin Settled /\ run[p] \in Settled'
    <3>1. run[p] \in whole /\ pc[p] = "add"
      BY <1>5 DEF AddLength, BaseInv, RunsOK
    <3>2. whole' = whole /\ run' = run /\ pc' = [pc EXCEPT ![p] = "print"]
      BY <1>5 DEF AddLength, local, history
    <3>3. \A q \in Procs : pc'[q] \in Late => q # p /\ pc[q] \in Late
      BY <3>2 DEF BaseInv, TypeOK
    <3>4. \A q \in Procs : pc'[q] \in Late => run'[q] # run[p]
      BY <3>1, <3>2, <3>3 DEF BaseInv, RunsOK
    <3>5. QED
      BY <3>1, <3>2, <3>4 DEF Settled
  <2>2. c + 1 <= d
    <3>1. IsFiniteSet(Settled)
      BY RunsAreFinite DEF FiniteRuns
    <3>2. Cardinality(Settled \cup {run[p]}) = c + 1
      BY <2>1, <3>1, FS_AddElement DEF c
    <3>3. Settled \cup {run[p]} \subseteq Settled'
      BY <1>1, <2>1
    <3>4. QED
      BY <1>2, <3>2, <3>3, FS_Subset DEF d
  <2>3. DataLen * c + DataLen <= DataLen * d
    <3>1. DataLen * (c + 1) <= DataLen * d
      BY <1>2, <2>2, Scaled
    <3>2. QED
      BY <1>2, <3>1, SMT
  <2>4. current[p] \in Int32 /\ current[p] <= DataLen * c
    BY <1>5 DEF AddLength, CountOK, c
  <2>5. Committed' <= Sum(p)
    <3>1. Sum(p) \in Int /\ Sum(p) >= MinInt
      BY <1>2, <2>4, SMT DEF Sum, Int32, MinInt
    <3>2. file' = BigEndian(Sum(p)) /\ file' \in Int
      BY <1>5, <3>1, RoundAndBack DEF AddLength, Int32
    <3>3. QED
      BY <3>1, <3>2, RoundAndBack DEF Committed
  <2>6. Committed' <= DataLen * d
    BY <1>2, <1>3, <2>3, <2>4, <2>5, SMT DEF Sum, Int32
  <2>7. ASSUME NEW q \in Procs, pc'[q] = "add"
        PROVE  current'[q] \in Int32 /\ current'[q] <= DataLen * d
    <3>1. pc[q] = "add" /\ current'[q] = current[q]
      BY <1>5, <2>7 DEF AddLength, local, BaseInv, TypeOK
    <3>2. current[q] \in Int32 /\ current[q] <= DataLen * c
      BY <3>1 DEF CountOK, c
    <3>3. QED
      BY <1>2, <3>1, <3>2, SMT DEF Int32
  <2>8. QED
    BY <2>6, <2>7 DEF CountOK, d
<1>6. QED
  BY <1>4, <1>5, PointerStep

\* The pointer never counts more entries than were written to the end.
THEOREM CountsOnlyWhole == Spec => []CountsWholeEntries
<1>1. Init => CountOK
  <2> SUFFICES ASSUME Init PROVE CountOK
    OBVIOUS
  <2>1. Committed = 0 /\ Settled = {} /\ \A p \in Procs : pc[p] = "off"
    BY FileAssumption DEF Init, Committed, Settled
  <2>2. DataLen * Cardinality(Settled) = 0
    BY <2>1, FS_EmptySet, SizeAssumption
  <2>3. QED
    BY <2>1, <2>2 DEF CountOK, At
<1>2. BaseInv /\ CountOK => CountsWholeEntries
  <2> SUFFICES ASSUME BaseInv, CountOK PROVE CountsWholeEntries
    OBVIOUS
  <2>1. FiniteRuns /\ HoldsInt
    BY RunsAreFinite, CommittedIsInt
  <2>2. DataLen * Cardinality(Settled) <= DataLen * Cardinality(whole)
    BY <2>1, Scaled DEF FiniteRuns
  <2>3. QED
    BY <2>1, <2>2, SizeAssumption, SMT DEF FiniteRuns, HoldsInt, Int32, CountOK, CountsWholeEntries
<1>3. QED
  BY <1>1, <1>2, BaseHolds, CountStep, PTL DEF Spec

-----------------------------------------------------------------------------
(* Runs that do not overlap.                                               *)

EntryAt(o, r) == \A i \in Entry : mem[o + i] = r

Solo == \A p, q \in Procs : pc[p] # "off" /\ pc[q] # "off" => p = q

\* The pointer is at the end of an entry, and every place below it holds the
\* whole entry of one run.
LogOK ==
  /\ Committed <= Size /\ \E k \in Nat : Committed = k * DataLen
  /\ \A n \in Nat :
       (n + 1) * DataLen <= Committed => \E r \in 1..runs : EntryAt(n * DataLen, r)

\* What the run in progress holds: the pointer that is in the file, and at it
\* the cells it has written.
Own(p) ==
  /\ pc[p] \in {"read", "map", "position"} => done[p] = {}
  /\ pc[p] \in {"map", "position", "put"} \cup Late => ptr[p] = Committed
  /\ At(p, "put") => \A i \in done[p] : mem[ptr[p] + i] = run[p]
  /\ pc[p] \in Late => EntryAt(ptr[p], run[p])
  /\ At(p, "add") => current[p] = Committed
  /\ At(p, "print") => DataLen <= Committed

ShownOK == \A p \in Procs :
  shown[p] # <<>> => \E r \in 1..runs : shown[p] = [i \in Entry |-> r]

AloneInv == Solo /\ LogOK /\ ShownOK /\ \A p \in Procs : Own(p)
AloneOK == alone => AloneInv

LEMMA LogUnchanged ==
  ASSUME BaseInv, BaseInv', LogOK, mem' = mem, Committed' = Committed, runs' \in {runs, runs + 1}
  PROVE  LogOK'
<1>1. \A r \in 1..runs : r \in 1..runs'
  BY DEF BaseInv, TypeOK
<1>2. \A n \in Nat :
        (n + 1) * DataLen <= Committed => \E r \in 1..runs' : EntryAt(n * DataLen, r)'
  BY <1>1 DEF LogOK, EntryAt
<1>3. QED
  BY <1>2 DEF LogOK

\* The entries below the pointer are out of reach of a store above it.
LEMMA BelowPointer ==
  ASSUME NEW n \in Nat, NEW i \in Entry, NEW c \in Int, NEW j \in Nat, (n + 1) * DataLen <= c
  PROVE  n * DataLen + i # c + j
<1>1. (n + 1) * DataLen = n * DataLen + DataLen /\ n * DataLen \in Nat
  BY SizeAssumption, SMT
<1>2. QED
  BY <1>1, SizeAssumption, SMT DEF Entry

\* A store at the pointer or above it leaves the log as it is.
LEMMA LogAfterStore ==
  ASSUME BaseInv, LogOK, Committed' = Committed, runs' = runs,
         \A a \in Int : mem'[a] # mem[a] => \E j \in Nat : a = Committed + j
  PROVE  LogOK'
<1>1. Committed \in Int
  BY CommittedIsInt DEF HoldsInt, Int32
<1>2. ASSUME NEW n \in Nat, (n + 1) * DataLen <= Committed
      PROVE  \E r \in 1..runs' : EntryAt(n * DataLen, r)'
  <2>1. PICK r \in 1..runs : EntryAt(n * DataLen, r)
    BY <1>2 DEF LogOK
  <2>2. ASSUME NEW i \in Entry PROVE mem'[n * DataLen + i] = r
    <3>1. n * DataLen + i \in Int
      BY SizeAssumption, SMT DEF Entry
    <3>2. \A j \in Nat : n * DataLen + i # Committed + j
      BY <1>1, <1>2, BelowPointer
    <3>3. QED
      BY <2>1, <3>1, <3>2 DEF EntryAt
  <2>3. QED
    BY <2>1, <2>2 DEF EntryAt, Entry
<1>3. QED
  BY <1>2 DEF LogOK

\* A pointer moved past a whole entry covers that entry too.
LEMMA LogAfterAdd ==
  ASSUME BaseInv, LogOK, mem' = mem, runs' = runs, Committed' = Committed + DataLen,
         Committed' <= Size, NEW r \in 1..runs, EntryAt(Committed, r)
  PROVE  LogOK'
<1>1. PICK k \in Nat : Committed = k * DataLen
  BY DEF LogOK
<1>2. Committed' = (k + 1) * DataLen /\ k + 1 \in Nat
  BY <1>1, SizeAssumption, SMT
<1>3. ASSUME NEW n \in Nat, (n + 1) * DataLen <= Committed' PROVE (n + 1) * DataLen <= Committed \/ n = k
  <2>1. CASE n < k
    <3>1. (n + 1) * DataLen <= k * DataLen
      <4>1. n + 1 \in Nat /\ n + 1 <= k
        BY <2>1
      <4>2. QED
        BY <4>1, SizeAssumption, SMT
    <3>2. QED
      BY <1>1, <3>1
  <2>2. CASE n > k
    <3>1. (k + 2) * DataLen <= (n + 1) * DataLen
      <4>1. k + 2 \in Nat /\ n + 1 \in Nat /\ k + 2 <= n + 1
        BY <2>2
      <4>2. QED
        BY <4>1, SizeAssumption, SMT
    <3>2. (k + 2) * DataLen = (k + 1) * DataLen + DataLen
      BY SizeAssumption, SMT
    <3>3. QED
      BY <1>2, <1>3, <3>1, <3>2, SizeAssumption, SMT
  <2>3. QED
    BY <2>1, <2>2
<1>4. ASSUME NEW n \in Nat, (n + 1) * DataLen <= Committed'
      PROVE  \E s \in 1..runs' : EntryAt(n * DataLen, s)'
  <2>1. \E s \in 1..runs : EntryAt(n * DataLen, s)
    BY <1>1, <1>3, <1>4 DEF LogOK
  <2>2. QED
    BY <2>1 DEF EntryAt
<1>5. QED
  BY <1>2, <1>4 DEF LogOK

\* A run that overlaps no other moves the pointer from where its entry begins
\* to where it ends.
LEMMA AddMoves ==
  ASSUME BaseInv, AloneInv, NEW p \in Procs, AddLength(p)
  PROVE  /\ Committed' = Committed + DataLen /\ Committed' <= Size
         /\ EntryAt(Committed, run[p]) /\ run[p] \in 1..runs
<1>1. pc[p] = "add" /\ pc[p] \in Late /\ file' = BigEndian(Sum(p))
  BY DEF AddLength, At, Late
<1>2. /\ current[p] = Committed /\ ptr[p] = Committed
      /\ EntryAt(Committed, run[p]) /\ run[p] \in 1..runs
  BY <1>1 DEF AloneInv, Own, At, BaseInv, RunsOK
<1>3. Committed \in Int /\ Committed >= 0 /\ Committed + DataLen <= Size
  BY <1>1, <1>2, SizeAssumption DEF BaseInv, InMemory
<1>4. Sum(p) = Committed + DataLen
  BY <1>2 DEF Sum
<1>5. Sum(p) \in Int32 /\ Sum(p) \in Int
  BY <1>3, <1>4, SizeAssumption, IntAssumption, SMT DEF Int32, MinInt
<1>6. file' \in Int /\ BigEndian(file') = Sum(p)
  BY <1>1, <1>5, RoundAndBack DEF Int32
<1>7. QED
  BY <1>2, <1>3, <1>4, <1>6 DEF Committed

LEMMA AloneStep == BaseInv /\ BaseInv' /\ AloneOK /\ [Next]_vars => AloneOK'
<1> USE SizeAssumption DEF Late, At, Goto, local, history
<1> SUFFICES ASSUME BaseInv, BaseInv', AloneOK, [Next]_vars, alone' PROVE AloneInv'
  BY DEF AloneOK
<1>1. TypeOK /\ TypeOK' /\ FileOK /\ InMemory /\ RunsOK
  BY DEF BaseInv
<1>2. alone
  BY DEF Next, Step, Start, ReadPointer, MapSharedMemory, PositionBuffer, PutCell,
         OpenPointerFile, MapPointerFile, ReadCurrent, AddLength, PrintEntry, Crash, vars
<1>3. Solo /\ LogOK /\ ShownOK /\ \A p \in Procs : Own(p)
  BY <1>2 DEF AloneOK, AloneInv
<1>4. Committed \in Int
  BY CommittedIsInt DEF HoldsInt, Int32
<1>5. ASSUME NEW p \in Procs, NEW l, pc[p] # "off", pc' = [pc EXCEPT ![p] = l],
             Own(p)', ShownOK', LogOK'
      PROVE  AloneInv'
  <2>1. \A q \in Procs : q # p => pc[q] = "off"
    BY <1>3, <1>5 DEF Solo
  <2>2. \A q \in Procs : q # p => pc'[q] = "off"
    BY <1>1, <1>5, <2>1 DEF TypeOK
  <2>3. \A q \in Procs : q # p => Own(q)'
    BY <2>2 DEF Own
  <2>4. Solo'
    BY <2>2 DEF Solo
  <2>5. QED
    BY <1>5, <2>3, <2>4 DEF AloneInv
<1>6. ASSUME NEW p \in Procs, Start(p) PROVE AloneInv'
  <2>1. /\ \A q \in Procs : pc[q] = "off"
        /\ pc' = [pc EXCEPT ![p] = "read"] /\ done' = [done EXCEPT ![p] = {}]
        /\ shown' = [shown EXCEPT ![p] = <<>>]
        /\ runs' = runs + 1 /\ mem' = mem /\ file' = file
    BY <1>6 DEF Start
  <2>2. LogOK'
    <3>1. Committed' = Committed
      BY <2>1 DEF Committed
    <3>2. QED
      BY <1>3, <2>1, <3>1, LogUnchanged
  <2>3. \A q \in Procs : pc'[q] = (IF q = p THEN "read" ELSE "off")
    BY <1>1, <2>1 DEF TypeOK
  <2>4. Solo' /\ \A q \in Procs : Own(q)'
    BY <1>1, <2>1, <2>3 DEF Solo, Own, TypeOK
  <2>5. ShownOK'
    <3>1. \A q \in Procs : shown'[q] # <<>> => shown'[q] = shown[q] /\ shown[q] # <<>>
      BY <1>1, <2>1 DEF TypeOK
    <3>2. \A r \in 1..runs : r \in 1..runs'
      BY <1>1, <2>1 DEF TypeOK
    <3>3. QED
      BY <1>3, <3>1, <3>2 DEF ShownOK
  <2>6. QED
    BY <2>2, <2>4, <2>5 DEF AloneInv
<1>7. ASSUME NEW p \in Procs, ReadPointer(p) PROVE AloneInv'
  <2>1. PICK l \in {"off", "map"} : pc' = [pc EXCEPT ![p] = l]
    BY <1>7 DEF ReadPointer
  <2>2. /\ UNCHANGED <<file, mem, runs, run, done, current, shown>> /\ pc[p] = "read"
    BY <1>7 DEF ReadPointer
  <2>3. l = "map" => ptr'[p] = Committed
    <3>1. file # Empty => Recovered = Committed
      BY <1>1, FileAssumption DEF Recovered, Committed, TypeOK
    <3>2. pc'[p] = l
      BY <1>1, <2>1 DEF TypeOK
    <3>3. l = "map" => file # Empty /\ ptr' = [ptr EXCEPT ![p] = Recovered]
      BY <1>1, <1>7, <3>2 DEF ReadPointer, TypeOK
    <3>4. QED
      BY <1>1, <3>1, <3>3 DEF TypeOK
  <2>4. Committed' = Committed
    BY <2>2 DEF Committed
  <2>5. Own(p)'
    BY <1>1, <1>3, <2>1, <2>2, <2>3, <2>4 DEF Own, TypeOK
  <2>6. LogOK' /\ ShownOK'
    BY <1>3, <2>2, <2>4, LogUnchanged DEF ShownOK
  <2>7. QED
    BY <1>5, <2>1, <2>2, <2>5, <2>6
<1>8. ASSUME NEW p \in Procs, MapSharedMemory(p) \/ PositionBuffer(p) \/ Crash(p) PROVE AloneInv'
  <2>1. PICK l \in {"off", "position", "put"} : pc' = [pc EXCEPT ![p] = l]
    BY <1>8 DEF MapSharedMemory, PositionBuffer, Crash
  <2>2. /\ UNCHANGED <<file, mem, runs, ptr, run, done, current, shown>> /\ pc[p] # "off"
        /\ l = "off" \/ pc[p] \in {"map", "position"}
    BY <1>1, <1>8, <2>1 DEF MapSharedMemory, PositionBuffer, Crash, TypeOK
  <2>3. Committed' = Committed
    BY <2>2 DEF Committed
  <2>4. Own(p)'
    BY <1>1, <1>3, <2>1, <2>2, <2>3 DEF Own, TypeOK
  <2>5. LogOK' /\ ShownOK'
    BY <1>3, <2>2, <2>3, LogUnchanged DEF ShownOK
  <2>6. QED
    BY <1>5, <2>1, <2>2, <2>4, <2>5
<1>9. ASSUME NEW p \in Procs, NEW i \in Entry, PutCell(p, i) PROVE AloneInv'
  <2>1. /\ UNCHANGED <<file, runs, pc, ptr, run, current, shown>> /\ pc[p] = "put"
        /\ mem' = [mem EXCEPT ![ptr[p] + i] = run[p]]
        /\ done' = [done EXCEPT ![p] = @ \cup {i}]
    BY <1>9 DEF PutCell
  <2>2. Committed' = Committed /\ ptr[p] = Committed
    BY <1>3, <2>1 DEF Committed, Own
  <2>3. ptr[p] + i \in Cells
    BY <1>1, <2>1 DEF TypeOK, InMemory, Cells, Entry
  <2>4. \A a \in Int : a # ptr[p] + i => mem'[a] = mem[a]
    BY <1>1, <2>1 DEF TypeOK
  <2>5. LogOK'
    <3>1. \A a \in Int : mem'[a] # mem[a] => \E j \in Nat : a = Committed + j
      BY <2>2, <2>4 DEF Entry
    <3>2. QED
      BY <1>3, <2>1, <2>2, <3>1, LogAfterStore
  <2>6. \A j \in done'[p] : mem'[ptr'[p] + j] = run'[p]
    <3>1. ASSUME NEW j \in done[p], j # i PROVE mem'[ptr[p] + j] = run[p]
      <4>1. j \in Int /\ ptr[p] \in Int
        BY <1>1 DEF TypeOK, Entry
      <4>2. ptr[p] + j # ptr[p] + i /\ ptr[p] + j \in Int
        BY <3>1, <4>1 DEF Entry
      <4>3. mem[ptr[p] + j] = run[p]
        BY <1>3, <2>1 DEF Own
      <4>4. QED
        BY <2>4, <4>2, <4>3
    <3>2. mem'[ptr[p] + i] = run[p]
      BY <1>1, <2>1, <2>3 DEF TypeOK
    <3>3. \A j \in done'[p] : j = i \/ j \in done[p]
      BY <1>1, <2>1 DEF TypeOK
    <3>4. QED
      BY <2>1, <3>1, <3>2, <3>3
  <2>7. Own(p)'
    BY <2>1, <2>2, <2>6 DEF Own
  <2>8. ShownOK' /\ pc' = [pc EXCEPT ![p] = "put"]
    BY <1>1, <1>3, <2>1 DEF ShownOK, TypeOK
  <2>9. QED
    BY <1>5, <2>1, <2>5, <2>7, <2>8
<1>10. ASSUME NEW p \in Procs, OpenPointerFile(p) PROVE AloneInv'
  <2>1. PICK l \in {"off", "mapptr"} : pc' = [pc EXCEPT ![p] = l]
    BY <1>10 DEF OpenPointerFile
  <2>2. /\ UNCHANGED <<mem, runs, ptr, run, done, current, shown>> /\ pc[p] = "put" /\ done[p] = Entry
    BY <1>10 DEF OpenPointerFile, Written
  <2>3. Committed' = Committed
    <3>1. Opened = file \/ (file = Missing /\ Opened = Empty)
      BY DEF Opened
    <3>2. QED
      BY <1>10, <3>1, FileAssumption DEF OpenPointerFile, Committed
  <2>4. Own(p)'
    BY <1>1, <1>3, <2>1, <2>2, <2>3 DEF Own, EntryAt, TypeOK
  <2>5. LogOK' /\ ShownOK'
    BY <1>3, <2>2, <2>3, LogUnchanged DEF ShownOK
  <2>6. QED
    BY <1>5, <2>1, <2>2, <2>4, <2>5
<1>11. ASSUME NEW p \in Procs, MapPointerFile(p) \/ ReadCurrent(p) PROVE AloneInv'
  <2>1. PICK l \in {"off", "get", "add"} : pc' = [pc EXCEPT ![p] = l]
    BY <1>11 DEF MapPointerFile, ReadCurrent
  <2>2. /\ UNCHANGED <<mem, runs, ptr, run, done, shown>> /\ pc[p] \in {"mapptr", "get"}
    BY <1>11 DEF MapPointerFile, ReadCurrent
  <2>3. Committed' = Committed /\ (l = "add" => current'[p] = Committed)
    <3>1. CASE MapPointerFile(p)
      <4>1. file' = file \/ (file = Empty /\ file' = 0)
        BY <3>1 DEF MapPointerFile
      <4>2. pc'[p] = l /\ pc'[p] # "add"
        BY <1>1, <2>1, <3>1 DEF MapPointerFile, TypeOK
      <4>3. QED
        BY <4>1, <4>2, ZeroIsZero, FileAssumption DEF Committed
    <3>2. CASE ReadCurrent(p)
      <4>1. file \in Int
        BY <1>1, <3>2 DEF ReadCurrent, TypeOK, FileOK
      <4>2. QED
        BY <1>1, <3>2, <4>1 DEF ReadCurrent, Committed, TypeOK
    <3>3. QED
      BY <1>11, <3>1, <3>2
  <2>4. Own(p)'
    BY <1>1, <1>3, <2>1, <2>2, <2>3 DEF Own, EntryAt, TypeOK
  <2>5. LogOK' /\ ShownOK'
    BY <1>3, <2>2, <2>3, LogUnchanged DEF ShownOK
  <2>6. QED
    BY <1>5, <2>1, <2>2, <2>4, <2>5
<1>12. ASSUME NEW p \in Procs, AddLength(p) PROVE AloneInv'
  <2>1. /\ UNCHANGED <<mem, runs, ptr, run, done, current, shown>> /\ pc[p] = "add"
        /\ pc' = [pc EXCEPT ![p] = "print"] /\ file' = BigEndian(Sum(p))
    BY <1>12 DEF AddLength
  <2>2. /\ Committed' = Committed + DataLen /\ Committed' <= Size
        /\ EntryAt(Committed, run[p]) /\ run[p] \in 1..runs
    BY <1>3, <1>12, AddMoves DEF AloneInv
  <2>4. LogOK'
    BY <1>3, <2>1, <2>2, LogAfterAdd
  <2>5. Own(p)'
    <3>1. pc'[p] = "print"
      BY <1>1, <2>1 DEF TypeOK
    <3>2. DataLen <= Committed'
      <4>1. Committed >= 0
        BY <1>1, <1>3, <2>1 DEF Own, InMemory
      <4>2. QED
        BY <1>4, <2>2, <4>1
    <3>3. QED
      BY <3>1, <3>2 DEF Own
  <2>6. ShownOK'
    BY <1>3, <2>1 DEF ShownOK
  <2>7. QED
    BY <1>5, <2>1, <2>4, <2>5, <2>6
<1>13. ASSUME NEW p \in Procs, PrintEntry(p) PROVE AloneInv'
  <2>1. /\ UNCHANGED <<file, mem, runs, ptr, run, done, current>> /\ pc[p] = "print"
        /\ pc' = [pc EXCEPT ![p] = "off"]
        /\ shown' = [shown EXCEPT ![p] = [i \in Entry |-> mem[i]]]
    BY <1>13 DEF PrintEntry
  <2>2. Committed' = Committed
    BY <2>1 DEF Committed
  <2>3. PICK r \in 1..runs : EntryAt(0, r)
    <3>1. DataLen <= Committed
      BY <1>3, <2>1 DEF Own
    <3>2. (0 + 1) * DataLen = DataLen /\ 0 * DataLen = 0
      BY SMT
    <3>3. QED
      BY <1>3, <3>1, <3>2 DEF LogOK
  <2>4. [i \in Entry |-> mem[i]] = [i \in Entry |-> r]
    <3>1. \A i \in Entry : 0 + i = i
      BY DEF Entry
    <3>2. QED
      BY <2>3, <3>1 DEF EntryAt
  <2>5. ShownOK'
    <3>1. \A q \in Procs : shown'[q] = [i \in Entry |-> r] \/ shown'[q] = shown[q]
      BY <1>1, <2>1, <2>4 DEF TypeOK
    <3>2. ASSUME NEW q \in Procs, shown'[q] # <<>>
          PROVE  \E t \in 1..runs' : shown'[q] = [i \in Entry |-> t]
      <4>1. CASE shown'[q] = [i \in Entry |-> r]
        BY <2>1, <4>1
      <4>2. CASE shown'[q] = shown[q]
        BY <1>3, <2>1, <3>2, <4>2 DEF ShownOK
      <4>3. QED
        BY <3>1, <4>1, <4>2
    <3>3. QED
      BY <3>2 DEF ShownOK
  <2>6. Own(p)' /\ LogOK'
    BY <1>1, <1>3, <2>1, <2>2, LogUnchanged DEF Own, TypeOK
  <2>7. QED
    BY <1>5, <2>1, <2>5, <2>6
<1>14. CASE UNCHANGED vars
  <2>1. Committed' = Committed
    BY <1>14 DEF vars, Committed
  <2>2. LogOK'
    BY <1>3, <1>14, <2>1, LogUnchanged DEF vars
  <2>3. QED
    BY <1>3, <1>14, <2>1, <2>2 DEF vars, AloneInv, Solo, Own, EntryAt, ShownOK
<1>15. QED
  BY <1>6, <1>7, <1>8, <1>9, <1>10, <1>11, <1>12, <1>13, <1>14 DEF Next, Step

LEMMA AloneHolds == Spec => [](BaseInv /\ AloneOK)
<1>1. Init => AloneOK
  <2> SUFFICES ASSUME Init PROVE AloneInv
    BY DEF AloneOK
  <2>1. Committed = 0 /\ \A p \in Procs : pc[p] = "off" /\ shown[p] = <<>>
    BY FileAssumption DEF Init, Committed
  <2>2. LogOK
    <3>1. 0 = 0 * DataLen /\ 0 <= Size
      BY SizeAssumption, SMT
    <3>2. \A n \in Nat : ~((n + 1) * DataLen <= 0)
      <4>1. \A n \in Nat : (n + 1) * DataLen = n * DataLen + DataLen /\ n * DataLen \in Nat
        BY SizeAssumption, SMT
      <4>2. QED
        BY <4>1, SizeAssumption
    <3>3. QED
      BY <2>1, <3>1, <3>2 DEF LogOK
  <2>3. Solo /\ ShownOK /\ \A p \in Procs : Own(p)
    BY <2>1 DEF Solo, ShownOK, Own, Late, At
  <2>4. QED
    BY <2>2, <2>3 DEF AloneInv
<1>2. QED
  BY <1>1, BaseHolds, AloneStep, PTL DEF Spec

\* The multiples of the length: how many entries there are below a pointer.
LEMMA Multiples ==
  ASSUME NEW k \in Nat
  PROVE  /\ k * DataLen \in Nat /\ (k * DataLen) % DataLen = 0 /\ (k * DataLen) \div DataLen = k
         /\ (k + 1) * DataLen = k * DataLen + DataLen
<1>1. DataLen \in Nat /\ DataLen > 0
  BY SizeAssumption
<1>2. k * DataLen \in Nat /\ (k + 1) * DataLen = k * DataLen + DataLen
  BY <1>1, SMT
<1>3. (k * DataLen) % DataLen = 0 /\ (k * DataLen) \div DataLen = k
  BY <1>1, SMT
<1>4. QED
  BY <1>2, <1>3

\* As long as runs do not overlap the pointer stays in the memory and at the
\* end of an entry, and no run ever writes outside the memory.
THEOREM PointerStaysInBounds == Spec => []PointerInBounds
<1>1. BaseInv /\ AloneOK => PointerInBounds
  <2> SUFFICES ASSUME BaseInv, AloneOK PROVE PointerInBounds
    OBVIOUS
  <2>1. ASSUME alone PROVE Committed \in 0..Size /\ Committed % DataLen = 0
    <3>1. PICK k \in Nat : Committed = k * DataLen
      BY <2>1 DEF AloneOK, AloneInv, LogOK
    <3>2. Committed \in Nat /\ Committed % DataLen = 0
      BY <3>1, Multiples
    <3>3. Committed <= Size
      BY <2>1 DEF AloneOK, AloneInv, LogOK
    <3>4. QED
      BY <3>2, <3>3, SizeAssumption
  <2>2. ASSUME NEW p \in Procs, At(p, "put") PROVE ptr[p] >= 0 /\ ptr[p] + DataLen <= Size
    BY <2>2, SizeAssumption DEF At, BaseInv, InMemory
  <2>3. QED
    BY <2>1, <2>2 DEF PointerInBounds
<1>2. QED
  BY <1>1, AloneHolds, PTL

LEMMA LoggedIsWhole ==
  ASSUME BaseInv, AloneOK, alone, NEW n \in DOMAIN Logged
  PROVE  \E r \in 1..runs : EntryAt((n - 1) * DataLen, r) /\ Logged[n] = r
<1>1. PICK k \in Nat : Committed = k * DataLen
  BY DEF AloneOK, AloneInv, LogOK
<1>2. n \in 1..k
  BY <1>1, Multiples DEF Logged
<1>3. (n - 1) + 1 = n /\ n - 1 \in Nat /\ n \in Nat /\ n <= k
  BY <1>2
<1>4. ((n - 1) + 1) * DataLen <= Committed
  BY <1>1, <1>3, Scaled, SizeAssumption, SMT
<1>5. PICK r \in 1..runs : EntryAt((n - 1) * DataLen, r)
  BY <1>3, <1>4 DEF AloneOK, AloneInv, LogOK
<1>6. mem[(n - 1) * DataLen] = r
  <2>1. 0 \in Entry /\ (n - 1) * DataLen + 0 = (n - 1) * DataLen
    BY <1>3, Multiples, SizeAssumption DEF Entry
  <2>2. QED
    BY <1>5, <2>1 DEF EntryAt
<1>7. QED
  BY <1>5, <1>6 DEF Logged

\* As long as runs do not overlap, wherever earlier ones died, what is below
\* the pointer are whole entries, and a run prints a whole entry.
THEOREM EntriesAreWhole == Spec => []NoTornEntry
<1>1. BaseInv /\ AloneOK => NoTornEntry
  <2> SUFFICES ASSUME BaseInv, AloneOK, alone PROVE NoTornEntry
    BY DEF NoTornEntry
  <2>1. \A n \in DOMAIN Logged, i \in Entry : mem[(n - 1) * DataLen + i] = Logged[n]
    BY LoggedIsWhole DEF EntryAt
  <2>2. QED
    BY <2>1 DEF AloneOK, AloneInv, ShownOK, NoTornEntry
<1>2. QED
  BY <1>1, AloneHolds, PTL

-----------------------------------------------------------------------------
(* The log.                                                                *)

LEMMA LoggedLength ==
  ASSUME NEW k \in Nat, Committed = k * DataLen
  PROVE  Logged = [n \in 1..k |-> mem[(n - 1) * DataLen]]
BY Multiples DEF Logged

\* Room for one more entry in the memory is room in the log.
LEMMA RoomForOne ==
  ASSUME NEW k \in Nat, (k + 1) * DataLen <= Size
  PROVE  k < Size \div DataLen
<1> DEFINE q == Size \div DataLen
<1>1. DataLen \in Nat /\ DataLen > 0 /\ Size \in Nat
  BY SizeAssumption
<1>2. q \in Int /\ Size < (q + 1) * DataLen
  BY <1>1, SMT
<1> HIDE DEF q
<1>3. ASSUME q <= k PROVE FALSE
  <2>1. (q + 1) * DataLen <= (k + 1) * DataLen
    BY <1>1, <1>2, <1>3, SMT
  <2>2. QED
    BY <1>1, <1>2, <2>1, SMT
<1>4. QED
  BY <1>2, <1>3 DEF q

LEMMA OneMore ==
  ASSUME NEW k \in Nat, NEW S, NEW f \in [1..(k + 1) -> S]
  PROVE  f = Append([n \in 1..k |-> f[n]], f[k + 1]) /\ Len([n \in 1..k |-> f[n]]) = k
<1> DEFINE s == [n \in 1..k |-> f[n]]
<1>1. s \in Seq(S) /\ Len(s) = k /\ f[k + 1] \in S
  OBVIOUS
<1>2. f \in Seq(S) /\ Len(f) = k + 1
  OBVIOUS
<1>3. Append(s, f[k + 1]) \in Seq(S) /\ Len(Append(s, f[k + 1])) = k + 1
  BY <1>1
<1>4. \A n \in 1..(k + 1) : Append(s, f[k + 1])[n] = f[n]
  BY <1>1
<1>5. QED
  BY <1>1, <1>2, <1>3, <1>4

LEMMA PlaceInMemory ==
  ASSUME NEW k \in Nat, k * DataLen <= Size, NEW n \in 1..k
  PROVE  (n - 1) * DataLen \in Cells /\ ((n - 1) + 1) * DataLen <= k * DataLen
<1>1. n - 1 \in Nat /\ (n - 1) + 1 = n /\ n \in Nat /\ n <= k
  OBVIOUS
<1>2. (n - 1) * DataLen \in Nat /\ n * DataLen = (n - 1) * DataLen + DataLen
  BY <1>1, Multiples
<1>3. n * DataLen <= k * DataLen
  BY <1>1, SizeAssumption, SMT
<1>4. k * DataLen \in Nat
  BY Multiples
<1>5. QED
  BY <1>1, <1>2, <1>3, <1>4, SizeAssumption DEF Cells

\* A step of runs that do not overlap appends one whole entry or none, and
\* changes no other.
LEMMA LogStep ==
  BaseInv /\ BaseInv' /\ AloneOK /\ AloneOK' /\ [Next]_vars
    => [alone' => Log!AppendEntry]_<<Logged, alone>>
<1> USE SizeAssumption
<1> SUFFICES ASSUME BaseInv, BaseInv', AloneOK, AloneOK', [Next]_vars, alone'
             PROVE  Log!AppendEntry \/ UNCHANGED <<Logged, alone>>
  OBVIOUS
<1>1. alone
  BY DEF Next, Step, Start, ReadPointer, MapSharedMemory, PositionBuffer, PutCell,
         OpenPointerFile, MapPointerFile, ReadCurrent, AddLength, PrintEntry, Crash,
         vars, local, history
<1>2. AloneInv /\ AloneInv' /\ TypeOK /\ TypeOK'
  BY <1>1 DEF AloneOK, BaseInv
<1>3. PICK k \in Nat : Committed = k * DataLen /\ k * DataLen <= Size
  BY <1>2 DEF AloneInv, LogOK
<1>4. Logged = [n \in 1..k |-> mem[(n - 1) * DataLen]]
  BY <1>3, LoggedLength
<1>5. ASSUME Committed' = Committed,
             \A n \in 1..k : mem'[(n - 1) * DataLen] = mem[(n - 1) * DataLen]
      PROVE  Logged' = Logged
  <2>1. Logged' = [n \in 1..k |-> mem'[(n - 1) * DataLen]]
    BY <1>3, <1>5, Multiples DEF Logged
  <2>2. QED
    BY <1>4, <1>5, <2>1
<1>6. ASSUME NEW p \in Procs, AddLength(p) PROVE Log!AppendEntry
  <2>1. Committed' = (k + 1) * DataLen /\ (k + 1) * DataLen <= Size /\ mem' = mem
        /\ EntryAt(k * DataLen, run[p]) /\ run[p] \in 1..MaxRuns
    <3>1. /\ Committed' = Committed + DataLen /\ Committed' <= Size
          /\ EntryAt(Committed, run[p]) /\ run[p] \in 1..runs
      BY <1>2, <1>6, AddMoves
    <3>2. runs \in Nat /\ runs <= MaxRuns
      BY DEF BaseInv, TypeOK, RunsOK
    <3>3. mem' = mem
      BY <1>6 DEF AddLength
    <3>4. (k + 1) * DataLen = k * DataLen + DataLen
      BY Multiples
    <3>5. QED
      BY <1>3, <3>1, <3>2, <3>3, <3>4
  <2>2. Logged' = [n \in 1..(k + 1) |-> mem[(n - 1) * DataLen]]
    BY <2>1, Multiples DEF Logged
  <2>3. mem[k * DataLen] = run[p]
    <3>1. 0 \in Entry /\ k * DataLen + 0 = k * DataLen
      BY Multiples DEF Entry
    <3>2. QED
      BY <2>1, <3>1 DEF EntryAt
  <2> DEFINE f == [n \in 1..(k + 1) |-> mem[(n - 1) * DataLen]]
  <2>4. f \in [1..(k + 1) -> Nat]
    <3>1. \A n \in 1..(k + 1) : (n - 1) * DataLen \in Cells
      BY <2>1, PlaceInMemory
    <3>2. QED
      BY <1>2, <3>1 DEF TypeOK
  <2>5. Logged = [n \in 1..k |-> f[n]] /\ f[k + 1] = run[p]
    <3>1. \A n \in 1..k : n \in 1..(k + 1)
      OBVIOUS
    <3>2. k + 1 \in 1..(k + 1) /\ (k + 1) - 1 = k
      OBVIOUS
    <3>3. QED
      BY <1>4, <2>3, <3>1, <3>2
  <2> HIDE DEF f
  <2>6. f = Append(Logged, run[p]) /\ Len(Logged) = k
    BY <2>4, <2>5, OneMore
  <2>7. Len(Logged) < Size \div DataLen
    BY <2>1, <2>6, RoomForOne
  <2>8. Logged' = Append(Logged, run[p])
    BY <2>2, <2>6 DEF f
  <2>9. QED
    BY <2>1, <2>7, <2>8 DEF Log!AppendEntry
<1>7. ASSUME NEW p \in Procs, NEW i \in Entry, PutCell(p, i) PROVE Logged' = Logged
  <2>1. pc[p] = "put" /\ file' = file /\ mem' = [mem EXCEPT ![ptr[p] + i] = run[p]]
    BY <1>7 DEF PutCell, At
  <2>2. ptr[p] = Committed /\ Committed' = Committed
    BY <1>2, <2>1 DEF AloneInv, Own, Committed
  <2>3. ASSUME NEW n \in 1..k PROVE mem'[(n - 1) * DataLen] = mem[(n - 1) * DataLen]
    <3>1. /\ (n - 1) * DataLen \in Cells /\ n - 1 \in Nat
          /\ ((n - 1) + 1) * DataLen <= Committed /\ Committed \in Int
      BY <1>3, PlaceInMemory, Multiples
    <3>2. 0 \in Entry /\ i \in Nat
      BY DEF Entry
    <3>3. (n - 1) * DataLen + 0 # Committed + i
      BY <3>1, <3>2, BelowPointer
    <3>4. (n - 1) * DataLen # ptr[p] + i
      BY <2>2, <3>1, <3>3 DEF Cells
    <3>5. QED
      BY <1>2, <2>1, <3>1, <3>4 DEF TypeOK
  <2>4. QED
    BY <1>5, <2>2, <2>3
<1>8. ASSUME mem' = mem, ~\E p \in Procs : AddLength(p) PROVE Logged' = Logged
  BY <1>5, <1>8, PointerStep
<1>9. mem' = mem \/ \E p \in Procs, i \in Entry : PutCell(p, i)
  BY DEF Next, Step, Start, ReadPointer, MapSharedMemory, PositionBuffer,
         OpenPointerFile, MapPointerFile, ReadCurrent, AddLength, PrintEntry, Crash, vars, local, history
<1>10. QED
  BY <1>1, <1>6, <1>7, <1>8, <1>9

\* Runs that do not overlap, killed at any point and started again, keep the
\* log: what is logged stays as it is, and one whole entry at a time is added.
THEOREM LogIsKept == Spec => KeepsLog
<1>1. Init => Log!Init
  <2> SUFFICES ASSUME Init PROVE Logged = <<>>
    BY DEF Log!Init
  <2>1. Committed = 0 * DataLen
    BY FileAssumption, SizeAssumption, SMT DEF Init, Committed
  <2>2. Logged = [n \in 1..0 |-> mem[(n - 1) * DataLen]]
    BY <2>1, LoggedLength
  <2>3. QED
    BY <2>2
<1>2. QED
  BY <1>1, AloneHolds, LogStep, PTL DEF Spec, KeepsLog
=============================================================================
