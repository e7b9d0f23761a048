------------------------ MODULE SharedLogPointerProofs ------------------------
(***************************************************************************)
(* What TLAPS proves about SharedLogPointer, for any number of C++         *)
(* services and one Java service, and any sizes and number of runs that    *)
(* two bytes hold: neither service takes the other's pointer for its own;  *)
(* and when the C++ service is one as well, and does not fail, its entries *)
(* stay.                                                                   *)
(***************************************************************************)
EXTENDS SharedLogPointer, FiniteSetTheorems, TLAPS

J == INSTANCE SharedMemoryExampleProofs WITH
       Procs <- JavaProcs, Faults <- JavaFaults, mem <- jMem, runs <- jRuns,
       pc <- jPc, ptr <- jPtr, run <- jRun, done <- jDone, current <- jCurrent,
       shown <- jShown, alone <- jAlone, whole <- jWhole

-----------------------------------------------------------------------------
(* The two halves of an int: the lowest two bytes, where the C++ service   *)
(* has its pointer, and the others as Java reads them, where it has its    *)
(* own.                                                                    *)

Ints == J!Int32
Swap(v) == Java!BigEndian(v)
Lo(v) == v % TwoBytes
Hi(v) == Lo(Swap(v))

LEMMA JavaMayRun ==
  /\ Size \in Nat /\ DataLen \in Nat \ {0} /\ MaxRuns \in Nat
  /\ Missing \notin Int /\ Empty \notin Int /\ Missing # Empty
  /\ JavaFaults \subseteq {"crash", "io"}
  /\ Size <= 2147483647 /\ DataLen <= 2147483647
<1>1. Size <= 2147483647 /\ DataLen <= 2147483647
  BY SizeAssumption, TwoBytesAssumption, SMT DEF TwoBytes
<1>2. QED
  BY <1>1, SizeAssumption, FileAssumption, FaultsAssumption

LEMMA SameSwap == \A v : Swap(v) = J!BigEndian(v)
BY DEF Swap, Java!BigEndian, Java!Byte, Java!SignedByte, J!BigEndian, J!Byte, J!SignedByte

LEMMA SwapTwice ==
  ASSUME NEW v \in Ints
  PROVE  Swap(v) \in Ints /\ Swap(Swap(v)) = v
<1>1. v \in Int
  BY DEF Ints, J!Int32
<1>2. J!BigEndian(v) \in J!Int32 /\ J!BigEndian(J!BigEndian(v)) = v
  BY <1>1, J!RoundAndBack, JavaMayRun DEF Ints
<1>3. QED
  BY <1>2, SameSwap DEF Ints
LEMMA IntIs == \A v \in Ints : v \in Int
BY DEF Ints, J!Int32

\* What the four bytes of an int are to its halves.
Halved(v, d, c, b, a) ==
  /\ J!HasBytes(v, d, c, b, a) /\ v = J!Four(J!SignedByte(d), c, b, a)
  /\ Swap(v) = J!Four(J!SignedByte(a), b, c, d)
  /\ Lo(v) = b * 256 + a /\ Hi(v) = c * 256 + d

LEMMA FourLo ==
  ASSUME NEW s \in Int, NEW a \in J!Bytes, NEW b \in J!Bytes, NEW c \in J!Bytes
  PROVE  Lo(J!Four(s, c, b, a)) = b * 256 + a
<1>1. J!Four(s, c, b, a) = s * 16777216 + c * 65536 + b * 256 + a
  BY DEF J!Four
<1>2. (s * 16777216 + c * 65536 + b * 256 + a) % 65536 = b * 256 + a
  BY SMT DEF J!Bytes
<1>3. QED
  BY <1>1, <1>2 DEF Lo, TwoBytes

LEMMA BytesToHalves ==
  ASSUME NEW v \in Ints, NEW a, NEW b, NEW c, NEW d, J!HasBytes(v, d, c, b, a)
  PROVE  Halved(v, d, c, b, a)
<1>1. v = J!Four(J!SignedByte(d), c, b, a)
  BY J!IntOfBytes, JavaMayRun DEF Ints
<1>2. Swap(v) = J!Four(J!SignedByte(a), b, c, d)
  BY SameSwap, J!BigEndianIsFour, JavaMayRun
<1>3. a \in J!Bytes /\ b \in J!Bytes /\ c \in J!Bytes /\ d \in J!Bytes
  BY DEF J!HasBytes
<1>4. J!SignedByte(a) \in Int /\ J!SignedByte(d) \in Int
  BY <1>3 DEF J!SignedByte, J!Bytes
<1>5. Lo(v) = b * 256 + a
  <2>1. PICK s \in Int : s = J!SignedByte(d)
    BY <1>4
  <2>2. Lo(J!Four(s, c, b, a)) = b * 256 + a
    BY <1>3, <2>1, FourLo
  <2>3. QED
    BY <1>1, <2>1, <2>2
<1>6. Lo(Swap(v)) = c * 256 + d
  <2>1. PICK s \in Int : s = J!SignedByte(a)
    BY <1>4
  <2>2. Lo(J!Four(s, b, c, d)) = c * 256 + d
    BY <1>3, <2>1, FourLo
  <2>3. QED
    BY <1>2, <2>1, <2>2
<1>7. QED
  BY <1>1, <1>2, <1>5, <1>6 DEF Halved, Hi

LEMMA HasHalves ==
  ASSUME NEW v \in Ints
  PROVE  \E a, b, c, d : Halved(v, d, c, b, a)
<1>1. J!HasBytes(v, J!Byte(v, 3), J!Byte(v, 2), J!Byte(v, 1), J!Byte(v, 0))
  BY IntIs, J!IntHasBytes, JavaMayRun
<1>2. PICK a, b, c, d : J!HasBytes(v, d, c, b, a)
  BY <1>1
<1>3. Halved(v, d, c, b, a)
  BY <1>2, BytesToHalves
<1>4. QED
  BY <1>3

LEMMA HalvesAre ==
  ASSUME NEW v \in Ints
  PROVE  Lo(v) \in Nat /\ Hi(v) \in Nat
<1>1. PICK a, b, c, d : Halved(v, d, c, b, a)
  BY HasHalves
<1>b. a \in 0..255 /\ b \in 0..255 /\ c \in 0..255 /\ d \in 0..255
  BY <1>1 DEF Halved, J!HasBytes, J!Bytes
<1>2. Lo(v) = b * 256 + a /\ Hi(v) = c * 256 + d
  BY <1>1 DEF Halved
<1>3. QED
  BY <1>b, <1>2

\* To turn the bytes round is to exchange the halves.
LEMMA SwapHalves ==
  ASSUME NEW v \in Ints
  PROVE  /\ Swap(v) \in Ints /\ Swap(Swap(v)) = v
         /\ Lo(Swap(v)) = Hi(v) /\ Hi(Swap(v)) = Lo(v)
BY SwapTwice DEF Hi

\* The numbers of two bytes are those whose high half is zero.
LEMMA OnlyLow ==
  ASSUME NEW v \in Ints
  PROVE  /\ Hi(v) = 0 <=> 0 <= v /\ v < TwoBytes
         /\ Hi(v) = 0 => v = Lo(v)
<1>1. PICK a, b, c, d : Halved(v, d, c, b, a)
  BY HasHalves
<1>b. a \in 0..255 /\ b \in 0..255 /\ c \in 0..255 /\ d \in 0..255
  BY <1>1 DEF Halved, J!HasBytes, J!Bytes
<1>2. /\ v = J!SignedByte(d) * 16777216 + c * 65536 + b * 256 + a
      /\ Lo(v) = b * 256 + a /\ Hi(v) = c * 256 + d
  BY <1>1 DEF Halved, J!Four
<1>3. (d < 128 /\ J!SignedByte(d) = d) \/ (d >= 128 /\ J!SignedByte(d) = d - 256)
  BY <1>b DEF J!SignedByte
<1>4. PICK s \in Int : s = J!SignedByte(d)
  BY <1>b, <1>3
<1>5. (d < 128 /\ s = d) \/ (d >= 128 /\ s = d - 256)
  BY <1>3, <1>4
<1>6. PICK m \in Int : m = v
  BY IntIs
<1>7. m = s * 16777216 + c * 65536 + b * 256 + a
  BY <1>2, <1>4, <1>6
<1>8. c * 256 + d = 0 <=> 0 <= m /\ m < 65536
  BY <1>b, <1>5, <1>7, SMT
<1>9. c * 256 + d = 0 => m = b * 256 + a
  BY <1>b, <1>5, <1>7, SMT
<1>10. QED
  BY <1>2, <1>6, <1>8, <1>9, SMT DEF TwoBytes

LEMMA TwoDigits ==
  ASSUME NEW m \in Nat, m < 65536
  PROVE  \E e \in J!Bytes, f \in J!Bytes : f * 256 + e = m
<1> DEFINE e == m % 256
           f == m \div 256
<1>1. e \in J!Bytes /\ f \in Int /\ f * 256 + e = m
  BY SMT DEF J!Bytes
<1>2. f >= 0 /\ f < 256
  BY SMT
<1>3. f \in J!Bytes
  BY <1>1, <1>2 DEF J!Bytes
<1> HIDE DEF e, f
<1>4. QED
  BY <1>1, <1>3

\* As long as the low half has room for it, what is added to an int is added
\* to the low half.
LEMMA AddToLow ==
  ASSUME NEW v \in Ints, NEW n \in Nat, Lo(v) + n < TwoBytes
  PROVE  v + n \in Ints /\ Lo(v + n) = Lo(v) + n /\ Hi(v + n) = Hi(v)
<1>1. PICK a, b, c, d : Halved(v, d, c, b, a)
  BY HasHalves
<1>b. a \in 0..255 /\ b \in 0..255 /\ c \in 0..255 /\ d \in 0..255
  BY <1>1 DEF Halved, J!HasBytes, J!Bytes
<1>2. PICK e \in J!Bytes, f \in J!Bytes : f * 256 + e = b * 256 + a + n
  <2>1. PICK m \in Nat : m = b * 256 + a + n /\ m < 65536
    BY <1>b, <1>1, SMT DEF Halved, TwoBytes
  <2>2. QED
    BY <2>1, TwoDigits
<1>3. J!HasBytes(v + n, d, c, f, e)
  <2>1. PICK k \in Int : v = k * 4294967296 + J!Four(d, c, b, a)
    BY <1>1 DEF Halved, J!HasBytes
  <2>2. v + n = k * 4294967296 + J!Four(d, c, f, e)
    BY <1>b, <1>2, <2>1, SMT DEF J!Four, J!Bytes
  <2>3. v + n \in Int
    BY IntIs
  <2>4. QED
    BY <1>b, <1>2, <2>2, <2>3 DEF J!HasBytes, J!Bytes
<1>4. v + n \in Ints
  <2>1. v = J!SignedByte(d) * 16777216 + c * 65536 + b * 256 + a
    BY <1>1 DEF Halved, J!Four
  <2>2. PICK s \in Int : s = J!SignedByte(d) /\ s <= 127
    BY <1>b DEF J!SignedByte
  <2>3. v + n = s * 16777216 + c * 65536 + f * 256 + e
    BY <1>b, <1>2, <2>1, <2>2, SMT DEF J!Bytes
  <2>4. s * 16777216 + c * 65536 + f * 256 + e <= 2147483647
    BY <1>b, <1>2, <2>2, SMT DEF J!Bytes
  <2>5. v \in Int /\ J!MinInt <= v
    BY DEF Ints, J!Int32
  <2>6. J!MinInt \in Int
    BY SMT DEF J!MinInt
  <2>7. QED
    BY <2>3, <2>4, <2>5, <2>6, SMT DEF Ints, J!Int32
<1>5. Halved(v + n, d, c, f, e)
  BY <1>3, <1>4, BytesToHalves
<1>6. QED
  BY <1>b, <1>1, <1>2, <1>4, <1>5 DEF Halved, J!Bytes

LEMMA NoHalves == 0 \in Ints /\ Lo(0) = 0 /\ Hi(0) = 0
<1>1. 0 \in Ints
  BY SMT DEF Ints, J!Int32, J!MinInt
<1>2. Hi(0) = 0 /\ 0 = Lo(0)
  <2>1. 0 <= 0 /\ 0 < TwoBytes
    BY SMT DEF TwoBytes
  <2>2. QED
    BY <1>1, <2>1, OnlyLow
<1>3. QED
  BY <1>1, <1>2

-----------------------------------------------------------------------------
(* Who counts how much: each C++ run moves the C++ pointer once, each Java *)
(* run the Java pointer, so the halves stay halves.                        *)

\* What the theorems assume of who runs, and of what can go wrong.
FewProcs ==
  /\ IsFiniteSet(CppProcs) /\ \A q, r \in JavaProcs : q = r
  /\ "reboot" \notin CppFaults

Cells == 0..(Size - 1)
Entry == 0..(DataLen - 1)

LEMMA SameCells == Cpp!Cells = Cells /\ Java!Cells = Cells /\ Cpp!Entry = Entry /\ Java!Entry = Entry
BY DEF Cells, Entry, Cpp!Cells, Java!Cells, Cpp!Entry, Java!Entry

CppEarly == {"open", "create", "init", "map", "write"}
JavaLate == {"mapptr", "get", "add"}
JavaEarly == {"read", "map", "position", "put"} \cup JavaLate

\* The runs that have yet to move the pointer.
CppMovers == {p \in CppProcs : cPc[p] \in CppEarly}
CppMoved == cRuns - Cardinality(CppMovers)
JavaMoved == jRuns - (IF \E q \in JavaProcs : jPc[q] \in JavaEarly THEN 1 ELSE 0)
CppMost == DataLen * CppMoved
JavaMost == DataLen * JavaMoved

CppCounts ==
  cRuns \in Nat /\ cRuns <= MaxRuns /\ cPc \in [CppProcs -> Cpp!Places]
JavaCounts ==
  jRuns \in Nat /\ jRuns <= MaxRuns /\ jPc \in [JavaProcs -> Java!Places]
CppTypes ==
  /\ CppCounts /\ cMem \in [Cells -> Nat] /\ cPtr \in [CppProcs -> Ints]
  /\ cRun \in [CppProcs -> Nat] /\ cDone \in [CppProcs -> SUBSET Entry]
JavaTypes ==
  /\ JavaCounts /\ jMem \in [Cells -> Nat] /\ jPtr \in [JavaProcs -> Ints]
  /\ jRun \in [JavaProcs -> Nat] /\ jDone \in [JavaProcs -> SUBSET Entry]
  /\ jCurrent \in [JavaProcs -> Ints]

LEMMA Counting ==
  ASSUME FewProcs, NEW S \in SUBSET CppProcs, NEW p \in CppProcs
  PROVE  /\ Cardinality(S) \in Nat
         /\ p \notin S => Cardinality(S \cup {p}) = Cardinality(S) + 1
         /\ p \in S => Cardinality(S \ {p}) = Cardinality(S) - 1
<1>1. IsFiniteSet(S)
  BY FS_Subset DEF FewProcs
<1>2. Cardinality(S) \in Nat
  BY <1>1, FS_CardinalityType
<1>3. p \notin S => Cardinality(S \cup {p}) = Cardinality(S) + 1
  BY <1>1, FS_AddElement
<1>4. p \in S => Cardinality(S \ {p}) = Cardinality(S) - 1
  BY <1>1, FS_RemoveElement
<1>5. QED
  BY <1>2, <1>3, <1>4

LEMMA Scaled ==
  ASSUME NEW a \in Int, NEW b \in Int
  PROVE  /\ DataLen * a \in Int /\ DataLen * (a + 1) = DataLen * a + DataLen
         /\ a <= b => DataLen * a <= DataLen * b
<1>1. DataLen \in Nat /\ DataLen > 0
  BY SizeAssumption
<1>2. DataLen * a \in Int /\ DataLen * (a + 1) = DataLen * a + DataLen
  BY <1>1, SMT
<1>3. a <= b => DataLen * a <= DataLen * b
  <2>1. SUFFICES ASSUME a <= b PROVE DataLen * a <= DataLen * b
    OBVIOUS
  <2>2. PICK d \in Nat : b = a + d
    <3>1. b - a \in Nat /\ b = a + (b - a)
      BY <2>1
    <3>2. QED
      BY <3>1
  <2>3. DataLen * b = DataLen * a + DataLen * d /\ DataLen * d >= 0
    BY <1>1, <2>2, SMT
  <2>4. DataLen * d \in Int
    BY <1>1, SMT
  <2>5. QED
    BY <1>2, <2>3, <2>4
<1>4. QED
  BY <1>2, <1>3

\* No more is counted than two bytes hold.
LEMMA CppMostFits ==
  FewProcs /\ CppCounts => CppMoved \in Int /\ CppMost \in Int /\ CppMost < TwoBytes
<1> SUFFICES ASSUME FewProcs, CppCounts
             PROVE  CppMoved \in Int /\ CppMost \in Int /\ CppMost < TwoBytes
  OBVIOUS
<1>1. CppMoved \in Int /\ CppMoved <= MaxRuns
  <2>1. CASE CppMovers = {}
    <3>1. Cardinality(CppMovers) = 0
      BY <2>1, FS_EmptySet
    <3>2. QED
      BY <3>1, SizeAssumption DEF CppCounts, CppMoved
  <2>2. CASE CppMovers # {}
    <3>1. PICK p \in CppProcs : p \in CppMovers
      BY <2>2 DEF CppMovers
    <3>2. Cardinality(CppMovers) \in Nat
      BY <3>1, Counting DEF CppMovers
    <3>3. QED
      BY <3>2, SizeAssumption DEF CppCounts, CppMoved
  <2>3. QED
    BY <2>1, <2>2
<1>2. DataLen * CppMoved \in Int /\ DataLen * CppMoved <= DataLen * MaxRuns
  BY <1>1, SizeAssumption, Scaled
<1>3. DataLen * MaxRuns \in Int /\ DataLen * MaxRuns < TwoBytes - 1 /\ TwoBytes \in Int
  BY SizeAssumption, TwoBytesAssumption, Scaled, SMT DEF TwoBytes
<1>4. QED
  BY <1>1, <1>2, <1>3 DEF CppMost

LEMMA JavaMostFits ==
  JavaCounts =>
    /\ JavaMoved \in Int /\ JavaMost \in Int
    /\ JavaMost < TwoBytes /\ JavaMost # TwoBytes - 1
<1> SUFFICES ASSUME JavaCounts
             PROVE  /\ JavaMoved \in Int /\ JavaMost \in Int
                    /\ JavaMost < TwoBytes /\ JavaMost # TwoBytes - 1
  OBVIOUS
<1>1. JavaMoved \in Int /\ JavaMoved <= MaxRuns
  BY SizeAssumption DEF JavaCounts, JavaMoved
<1>2. DataLen * JavaMoved \in Int /\ DataLen * JavaMoved <= DataLen * MaxRuns
  BY <1>1, SizeAssumption, Scaled
<1>3. DataLen * MaxRuns \in Int /\ DataLen * MaxRuns < TwoBytes - 1 /\ TwoBytes \in Int
  BY SizeAssumption, TwoBytesAssumption, Scaled, SMT DEF TwoBytes
<1>4. QED
  BY <1>1, <1>2, <1>3 DEF JavaMost

\* The same after a step.
LEMMA CppMostStillFits ==
  FewProcs /\ CppCounts' => CppMoved' \in Int /\ CppMost' \in Int /\ CppMost' < TwoBytes
<1>1. FewProcs' <=> FewProcs
  BY DEF FewProcs
<1>2. (FewProcs /\ CppCounts)' => (CppMoved \in Int /\ CppMost \in Int /\ CppMost < TwoBytes)'
  BY CppMostFits, PTL
<1>3. QED
  BY <1>1, <1>2

LEMMA JavaMostStillFits ==
  JavaCounts' => JavaMoved' \in Int /\ JavaMost' \in Int /\ JavaMost' < TwoBytes
<1>1. (JavaCounts)' => (JavaMoved \in Int /\ JavaMost \in Int /\ JavaMost < TwoBytes)'
  BY JavaMostFits, PTL
<1>2. QED
  BY <1>1
\* What a step of one process does to the counts: a run that moves its pointer
\* adds an entry, one that starts is yet to, and one that ends without having
\* moved it will not.
LEMMA CppGoes ==
  ASSUME FewProcs, CppCounts, CppCounts', NEW p \in CppProcs, NEW l,
         cPc' = [cPc EXCEPT ![p] = l]
  PROVE  /\ cRuns' = cRuns /\ (cPc[p] \in CppEarly \/ l \notin CppEarly) => CppMost <= CppMost'
         /\ cRuns' = cRuns /\ cPc[p] \in CppEarly /\ l \notin CppEarly =>
              CppMost' = CppMost + DataLen
         /\ cRuns' = cRuns + 1 /\ cPc[p] \notin CppEarly /\ l \in CppEarly => CppMost' = CppMost
<1> DEFINE S == CppMovers
           m == CppMoved
           n == CppMoved'
<1>1. CppMovers' = IF l \in CppEarly THEN S \cup {p} ELSE S \ {p}
  BY DEF CppMovers, CppCounts
<1>2. p \in S <=> cPc[p] \in CppEarly
  BY DEF CppMovers
<1>3. S \in SUBSET CppProcs
  BY DEF CppMovers
<1> HIDE DEF S
<1>4. /\ Cardinality(S) \in Nat
      /\ p \notin S => Cardinality(S \cup {p}) = Cardinality(S) + 1
      /\ p \in S => Cardinality(S \ {p}) = Cardinality(S) - 1
  BY <1>3, Counting
<1>5. p \in S => S \cup {p} = S
  OBVIOUS
<1>6. p \notin S => S \ {p} = S
  OBVIOUS
<1>7. m = cRuns - Cardinality(S) /\ n = cRuns' - Cardinality(CppMovers')
  BY DEF CppMoved, S
<1>8. cRuns \in Nat /\ cRuns' \in Nat /\ m \in Int /\ n \in Int
  BY CppMostFits, CppMostStillFits DEF CppCounts
<1>9. CppMost = DataLen * m /\ CppMost' = DataLen * n
  BY DEF CppMost
<1> HIDE DEF m, n
<1>10. cRuns' = cRuns /\ (p \in S \/ l \notin CppEarly) => m <= n
  <2>1. CASE p \in S /\ l \in CppEarly
    <3>1. CppMovers' = S
      BY <1>1, <1>5, <2>1
    <3>2. QED
      BY <1>4, <1>7, <1>8, <3>1
  <2>2. CASE p \in S /\ l \notin CppEarly
    BY <1>1, <1>4, <1>7, <1>8, <2>2
  <2>3. CASE p \notin S /\ l \notin CppEarly
    <3>1. CppMovers' = S
      BY <1>1, <1>6, <2>3
    <3>2. QED
      BY <1>4, <1>7, <1>8, <3>1
  <2>4. QED
    BY <2>1, <2>2, <2>3
<1>11. cRuns' = cRuns /\ p \in S /\ l \notin CppEarly => n = m + 1
  BY <1>1, <1>4, <1>7, <1>8
<1>12. cRuns' = cRuns + 1 /\ p \notin S /\ l \in CppEarly => n = m
  BY <1>1, <1>4, <1>7, <1>8
<1>13. /\ m <= n => DataLen * m <= DataLen * n
       /\ DataLen * (m + 1) = DataLen * m + DataLen
  BY <1>8, Scaled
<1>14. QED
  BY <1>2, <1>9, <1>10, <1>11, <1>12, <1>13

LEMMA JavaGoes ==
  ASSUME FewProcs, JavaCounts, JavaCounts', NEW q \in JavaProcs, NEW l,
         jPc' = [jPc EXCEPT ![q] = l]
  PROVE  /\ jRuns' = jRuns /\ (jPc[q] \in JavaEarly \/ l \notin JavaEarly) => JavaMost <= JavaMost'
         /\ jRuns' = jRuns /\ jPc[q] \in JavaEarly /\ l \notin JavaEarly =>
              JavaMost' = JavaMost + DataLen
         /\ jRuns' = jRuns + 1 /\ jPc[q] \notin JavaEarly /\ l \in JavaEarly => JavaMost' = JavaMost
<1> DEFINE m == JavaMoved
           n == JavaMoved'
<1>1. \A r \in JavaProcs : r = q
  BY DEF FewProcs
<1>2. jPc'[q] = l
  BY DEF JavaCounts
<1>3. (\E r \in JavaProcs : jPc[r] \in JavaEarly) <=> jPc[q] \in JavaEarly
  BY <1>1
<1>4. (\E r \in JavaProcs : jPc'[r] \in JavaEarly) <=> l \in JavaEarly
  BY <1>1, <1>2
<1>5. /\ m = jRuns - (IF jPc[q] \in JavaEarly THEN 1 ELSE 0)
      /\ n = jRuns' - (IF l \in JavaEarly THEN 1 ELSE 0)
  BY <1>3, <1>4 DEF JavaMoved
<1>6. jRuns \in Nat /\ jRuns' \in Nat /\ m \in Int /\ n \in Int
  BY JavaMostFits, JavaMostStillFits DEF JavaCounts
<1>7. JavaMost = DataLen * m /\ JavaMost' = DataLen * n
  BY DEF JavaMost
<1> HIDE DEF m, n
<1>8. /\ m <= n => DataLen * m <= DataLen * n
      /\ DataLen * (m + 1) = DataLen * m + DataLen
  BY <1>6, Scaled
<1>9. jRuns' = jRuns /\ (jPc[q] \in JavaEarly \/ l \notin JavaEarly) => m <= n
  BY <1>5, <1>6
<1>10. jRuns' = jRuns /\ jPc[q] \in JavaEarly /\ l \notin JavaEarly => n = m + 1
  BY <1>5, <1>6
<1>11. jRuns' = jRuns + 1 /\ jPc[q] \notin JavaEarly /\ l \in JavaEarly => n = m
  BY <1>5, <1>6
<1>12. QED
  BY <1>7, <1>8, <1>9, <1>10, <1>11
-----------------------------------------------------------------------------
(* The invariant                                                           *)

\* A number that may be in the file: no half of it counts more than has been
\* written, and a number of the C++ service has its data.
Fine(v) ==
  /\ v \in Ints /\ Lo(v) <= CppMost /\ Hi(v) <= JavaMost
  /\ Hi(v) = 0 => \A i \in Cells : i < Lo(v) => cMem[i] # 0

FileOK ==
  /\ file \in Ints \cup {Missing, Empty}
  /\ file \in Int => Fine(file)
  /\ file \in Int /\ Lo(file) = 0 => \A i \in Cells : i < Hi(file) => jMem[i] # 0

CppAt(p) ==
  /\ Fine(cPtr[p])
  /\ cPc[p] # "off" => cRun[p] # 0
  /\ cPc[p] \in {"truncate", "store"} => Lo(cPtr[p]) > 0
  /\ cPc[p] \in {"open", "create", "init", "map"} => cDone[p] = {}
  /\ cPc[p] = "write" =>
       \A i \in cDone[p] : cPtr[p] + i \in Cells => cMem[cPtr[p] + i] # 0

\* A run of the Java service whose pointer is one it may use has its data, and
\* the C++ service alone writes the file beside it.
JavaAt(q) ==
  /\ jPc[q] # "off" => jRun[q] # 0
  /\ jPc[q] \in JavaEarly \ {"read"} /\ Hi(jPtr[q]) = 0 =>
       /\ \A i \in Cells : i < Lo(jPtr[q]) => jMem[i] # 0
       /\ file \in Int /\ Lo(file) = 0 => Hi(file) <= Lo(jPtr[q])
  /\ jPc[q] \in JavaLate \cup {"put"} => jPtr[q] \in 0..(Size - DataLen)
  /\ jPc[q] \in {"read", "map", "position"} => jDone[q] = {}
  /\ jPc[q] = "put" => \A i \in jDone[q] : jMem[jPtr[q] + i] # 0
  /\ jPc[q] \in JavaLate => file # Missing /\ \A i \in Entry : jMem[jPtr[q] + i] # 0
  /\ jPc[q] = "add" =>
       /\ Lo(jCurrent[q]) <= JavaMost /\ Hi(jCurrent[q]) <= CppMost
       /\ Hi(jCurrent[q]) = 0 => Lo(jCurrent[q]) <= jPtr[q]

Inv ==
  /\ CppTypes /\ JavaTypes /\ 0 <= CppMost /\ 0 <= JavaMost /\ FileOK
  /\ \A p \in CppProcs : CppAt(p)
  /\ \A q \in JavaProcs : JavaAt(q)

\* What every step does: counts grow, and what is written stays written.
Grow ==
  /\ CppMost <= CppMost' /\ JavaMost <= JavaMost'
  /\ \A i \in Cells : (cMem[i] # 0 => cMem'[i] # 0) /\ (jMem[i] # 0 => jMem'[i] # 0)

FineNext(v) ==
  /\ v \in Ints /\ Lo(v) <= CppMost' /\ Hi(v) <= JavaMost'
  /\ Hi(v) = 0 => \A i \in Cells : i < Lo(v) => cMem'[i] # 0

\* The counts before and after a step.
Counts ==
  /\ CppMost \in Int /\ CppMost' \in Int /\ CppMost' < TwoBytes
  /\ JavaMost \in Int /\ JavaMost' \in Int /\ JavaMost' < TwoBytes

LEMMA CountsAre ==
  ASSUME FewProcs, CppCounts, CppCounts', JavaCounts, JavaCounts'
  PROVE  Counts
BY CppMostFits, CppMostStillFits, JavaMostFits, JavaMostStillFits DEF Counts

LEMMA StillFine ==
  ASSUME Counts, Grow, NEW v, Fine(v)
  PROVE  FineNext(v)
<1>1. v \in Ints /\ Lo(v) <= CppMost /\ Hi(v) <= JavaMost
  BY DEF Fine
<1>2. Lo(v) \in Nat /\ Hi(v) \in Nat
  BY <1>1, HalvesAre
<1>3. Lo(v) <= CppMost' /\ Hi(v) <= JavaMost'
  BY <1>1, <1>2 DEF Counts, Grow
<1>4. QED
  BY <1>1, <1>3 DEF Fine, FineNext, Grow

LEMMA ZeroFine ==
  ASSUME Counts, Grow, 0 <= CppMost, 0 <= JavaMost
  PROVE  FineNext(0)
<1>1. 0 <= CppMost' /\ 0 <= JavaMost'
  BY DEF Counts, Grow
<1>2. \A i \in Cells : ~ (i < 0)
  BY SizeAssumption DEF Cells
<1>3. QED
  BY <1>1, <1>2, NoHalves DEF FineNext
-----------------------------------------------------------------------------
(* The steps of the C++ service                                            *)

JavaRests == UNCHANGED jVars

CppFrame(p) ==
  /\ CppTypes' /\ Counts /\ Grow
  /\ \A r \in CppProcs : r # p =>
       cPc'[r] = cPc[r] /\ cPtr'[r] = cPtr[r] /\ cRun'[r] = cRun[r] /\ cDone'[r] = cDone[r]

FileMoves(p) ==
  \/ file' = file \/ file' = Empty \/ file' = 0
  \/ file' = cPtr'[p] /\ Lo(cPtr'[p]) > 0

CppDoes(p) == CppFrame(p) /\ CppAt(p)' /\ FileMoves(p)

\* The counts of the service that rests.
LEMMA JavaStays ==
  ASSUME JavaTypes, JavaRests
  PROVE  JavaTypes' /\ JavaMost' = JavaMost /\ jMem' = jMem /\ jPc' = jPc
<1>1. /\ jMem' = jMem /\ jRuns' = jRuns /\ jPc' = jPc /\ jPtr' = jPtr /\ jRun' = jRun
      /\ jDone' = jDone /\ jCurrent' = jCurrent
  BY DEF JavaRests, jVars
<1>2. JavaTypes'
  BY <1>1 DEF JavaTypes, JavaCounts
<1>3. JavaMost' = JavaMost
  BY <1>1 DEF JavaMost, JavaMoved
<1>4. QED
  BY <1>1, <1>2, <1>3

\* A step that only goes on, or ends.
LEMMA CppOnlyGoes ==
  ASSUME FewProcs, Inv, JavaRests, NEW p \in CppProcs, NEW l \in Cpp!Places,
         cPc' = [cPc EXCEPT ![p] = l], cPc[p] \in CppEarly \/ l \notin CppEarly,
         cMem' = cMem, cRuns' = cRuns, cPtr' = cPtr, cRun' = cRun, cDone' = cDone
  PROVE  CppFrame(p) /\ FineNext(cPtr'[p]) /\ cPc'[p] = l
<1>1. CppTypes /\ JavaTypes
  BY DEF Inv
<1>2. CppTypes' /\ cPc'[p] = l
  BY <1>1 DEF CppTypes, CppCounts
<1>3. JavaTypes' /\ JavaMost' = JavaMost /\ jMem' = jMem
  BY <1>1, JavaStays
<1>4. CppMost <= CppMost'
  BY <1>1, <1>2, CppGoes DEF CppTypes
<1>5. Counts
  BY <1>1, <1>2, <1>3, CountsAre DEF CppTypes, JavaTypes
<1>6. Grow
  BY <1>3, <1>4, <1>5 DEF Grow, Counts
<1>7. \A r \in CppProcs : r # p => cPc'[r] = cPc[r]
  BY <1>1 DEF CppTypes, CppCounts
<1>8. Fine(cPtr[p])
  BY DEF Inv, CppAt
<1>9. FineNext(cPtr'[p])
  BY <1>5, <1>6, <1>8, StillFine
<1>10. QED
  BY <1>2, <1>5, <1>6, <1>7, <1>9 DEF CppFrame

LEMMA CppAtIs ==
  ASSUME NEW p \in CppProcs, FineNext(cPtr'[p]),
         cPc'[p] # "off" => cRun'[p] # 0,
         cPc'[p] \in {"truncate", "store"} => Lo(cPtr'[p]) > 0,
         cPc'[p] \in {"open", "create", "init", "map"} => cDone'[p] = {},
         cPc'[p] = "write" =>
           \A i \in cDone'[p] : cPtr'[p] + i \in Cells => cMem'[cPtr'[p] + i] # 0
  PROVE  CppAt(p)'
<1>1. Fine(cPtr[p])'
  BY DEF Fine, FineNext
<1>2. QED
  BY <1>1 DEF CppAt

LEMMA CppSimpleSteps ==
  ASSUME FewProcs, Inv, JavaRests, NEW p \in CppProcs,
         \/ Cpp!CreatePointer(p) \/ Cpp!InitPointer(p) \/ Cpp!MapMemory(p)
         \/ Cpp!TruncatePointer(p) \/ Cpp!StorePointer(p) \/ Cpp!PrintMemory(p)
         \/ Cpp!Close(p) \/ Cpp!Crash(p)
  PROVE  CppDoes(p)
<1> DEFINE From(a, b) == 
      /\ cPc[p] = a /\ cPc' = [cPc EXCEPT ![p] = b]
      /\ cMem' = cMem /\ cRuns' = cRuns /\ cPtr' = cPtr /\ cRun' = cRun /\ cDone' = cDone
<1>0. CppAt(p)
  BY DEF Inv
<1>1. CASE Cpp!CreatePointer(p)
  <2>1. From("create", "init") /\ file' = Empty
    BY <1>1 DEF Cpp!CreatePointer, Cpp!At, Cpp!Goto, Cpp!local
  <2>2. CppFrame(p) /\ FineNext(cPtr'[p]) /\ cPc'[p] = "init"
    BY <2>1, CppOnlyGoes DEF CppEarly, Cpp!Places
  <2>3. CppAt(p)'
    BY <1>0, <2>1, <2>2, CppAtIs DEF CppAt
  <2>4. QED
    BY <2>1, <2>2, <2>3 DEF CppDoes, FileMoves
<1>2. CASE Cpp!InitPointer(p)
  <2>1. From("init", "map") /\ (file' = 0 \/ file' = file)
    BY <1>2 DEF Cpp!InitPointer, Cpp!At, Cpp!Goto, Cpp!local
  <2>2. CppFrame(p) /\ FineNext(cPtr'[p]) /\ cPc'[p] = "map"
    BY <2>1, CppOnlyGoes DEF CppEarly, Cpp!Places
  <2>3. CppAt(p)'
    BY <1>0, <2>1, <2>2, CppAtIs DEF CppAt
  <2>4. QED
    BY <2>1, <2>2, <2>3 DEF CppDoes, FileMoves
<1>3. CASE Cpp!MapMemory(p)
  <2>1. file' = file /\ (From("map", "write") \/ From("map", "off"))
    BY <1>3 DEF Cpp!MapMemory, Cpp!At, Cpp!Goto, Cpp!local
  <2>2. CASE From("map", "write")
    <3>1. CppFrame(p) /\ FineNext(cPtr'[p]) /\ cPc'[p] = "write"
      BY <2>2, CppOnlyGoes DEF CppEarly, Cpp!Places
    <3>2. CppAt(p)'
      BY <1>0, <2>2, <3>1, CppAtIs DEF CppAt
    <3>3. QED
      BY <2>1, <3>1, <3>2 DEF CppDoes, FileMoves
  <2>3. CASE From("map", "off")
    <3>1. CppFrame(p) /\ FineNext(cPtr'[p]) /\ cPc'[p] = "off"
      BY <2>3, CppOnlyGoes DEF CppEarly, Cpp!Places
    <3>2. CppAt(p)'
      BY <3>1, CppAtIs
    <3>3. QED
      BY <2>1, <3>1, <3>2 DEF CppDoes, FileMoves
  <2>4. QED
    BY <2>1, <2>2, <2>3
<1>4. CASE Cpp!TruncatePointer(p)
  <2>1. \/ From("truncate", "store") /\ file' = Empty
        \/ From("truncate", "print") /\ file' = file
    BY <1>4 DEF Cpp!TruncatePointer, Cpp!At, Cpp!Goto, Cpp!local
  <2>2. CASE From("truncate", "store") /\ file' = Empty
    <3>1. CppFrame(p) /\ FineNext(cPtr'[p]) /\ cPc'[p] = "store"
      BY <2>2, CppOnlyGoes DEF CppEarly, Cpp!Places
    <3>2. CppAt(p)'
      BY <1>0, <2>2, <3>1, CppAtIs DEF CppAt
    <3>3. QED
      BY <2>2, <3>1, <3>2 DEF CppDoes, FileMoves
  <2>3. CASE From("truncate", "print") /\ file' = file
    <3>1. CppFrame(p) /\ FineNext(cPtr'[p]) /\ cPc'[p] = "print"
      BY <2>3, CppOnlyGoes DEF CppEarly, Cpp!Places
    <3>2. CppAt(p)'
      BY <1>0, <2>3, <3>1, CppAtIs DEF CppAt
    <3>3. QED
      BY <2>3, <3>1, <3>2 DEF CppDoes, FileMoves
  <2>4. QED
    BY <2>1, <2>2, <2>3
<1>5. CASE Cpp!StorePointer(p)
  <2>1. From("store", "print") /\ (file' = cPtr[p] \/ file' = file)
    BY <1>5 DEF Cpp!StorePointer, Cpp!At, Cpp!Goto, Cpp!local
  <2>2. CppFrame(p) /\ FineNext(cPtr'[p]) /\ cPc'[p] = "print"
    BY <2>1, CppOnlyGoes DEF CppEarly, Cpp!Places
  <2>3. CppAt(p)'
    BY <1>0, <2>1, <2>2, CppAtIs DEF CppAt
  <2>4. Lo(cPtr'[p]) > 0
    BY <1>0, <2>1 DEF CppAt
  <2>5. QED
    BY <2>1, <2>2, <2>3, <2>4 DEF CppDoes, FileMoves
<1>6. CASE Cpp!PrintMemory(p)
  <2>1. From("print", "close") /\ file' = file
    BY <1>6 DEF Cpp!PrintMemory, Cpp!At, Cpp!Goto
  <2>2. CppFrame(p) /\ FineNext(cPtr'[p]) /\ cPc'[p] = "close"
    BY <2>1, CppOnlyGoes DEF CppEarly, Cpp!Places
  <2>3. CppAt(p)'
    BY <1>0, <2>1, <2>2, CppAtIs DEF CppAt
  <2>4. QED
    BY <2>1, <2>2, <2>3 DEF CppDoes, FileMoves
<1>7. CASE Cpp!Close(p) \/ Cpp!Crash(p)
  <2>1. From(cPc[p], "off") /\ file' = file
    BY <1>7 DEF Cpp!Close, Cpp!Crash, Cpp!At, Cpp!Goto, Cpp!local
  <2>2. CppFrame(p) /\ FineNext(cPtr'[p]) /\ cPc'[p] = "off"
    BY <2>1, CppOnlyGoes DEF CppEarly, Cpp!Places
  <2>3. CppAt(p)'
    BY <2>2, CppAtIs
  <2>4. QED
    BY <2>1, <2>2, <2>3 DEF CppDoes, FileMoves
<1>8. QED
  BY <1>1, <1>2, <1>3, <1>4, <1>5, <1>6, <1>7
LEMMA CppStarts ==
  ASSUME FewProcs, Inv, JavaRests, NEW p \in CppProcs, Cpp!Start(p)
  PROVE  CppDoes(p)
<1>1. CppTypes /\ JavaTypes /\ 0 <= CppMost /\ 0 <= JavaMost
  BY DEF Inv
<1>2. /\ cPc[p] = "off" /\ cRuns < MaxRuns /\ cRuns' = cRuns + 1 /\ file' = file /\ cMem' = cMem
      /\ cPc' = [cPc EXCEPT ![p] = "open"] /\ cRun' = [cRun EXCEPT ![p] = cRuns + 1]
      /\ cPtr' = [cPtr EXCEPT ![p] = 0] /\ cDone' = [cDone EXCEPT ![p] = {}]
  BY DEF Cpp!Start, Cpp!At, Cpp!Goto
<1>3. CppTypes'
  BY <1>1, <1>2, NoHalves, SizeAssumption DEF CppTypes, CppCounts, Cpp!Places
<1>4. cPc'[p] = "open" /\ cRun'[p] = cRuns + 1 /\ cPtr'[p] = 0 /\ cDone'[p] = {}
  BY <1>1, <1>2 DEF CppTypes, CppCounts
<1>5. JavaTypes' /\ JavaMost' = JavaMost /\ jMem' = jMem
  BY <1>1, JavaStays
<1>6. CppMost' = CppMost
  BY <1>1, <1>2, <1>3, CppGoes DEF CppTypes, CppEarly
<1>7. Counts
  BY <1>1, <1>3, <1>5, CountsAre DEF CppTypes, JavaTypes
<1>8. Grow
  BY <1>2, <1>5, <1>6, <1>7 DEF Grow, Counts
<1>9. \A r \in CppProcs : r # p =>
        cPc'[r] = cPc[r] /\ cPtr'[r] = cPtr[r] /\ cRun'[r] = cRun[r] /\ cDone'[r] = cDone[r]
  BY <1>1, <1>2 DEF CppTypes, CppCounts
<1>10. FineNext(0) /\ FineNext(cPtr'[p])
  BY <1>1, <1>4, <1>7, <1>8, ZeroFine
<1>11. cRun'[p] # 0
  BY <1>1, <1>4 DEF CppTypes, CppCounts
<1>12. CppAt(p)'
  BY <1>4, <1>10, <1>11, CppAtIs
<1>13. QED
  BY <1>2, <1>3, <1>7, <1>8, <1>9, <1>12 DEF CppDoes, CppFrame, FileMoves

LEMMA CppOpens ==
  ASSUME FewProcs, Inv, JavaRests, NEW p \in CppProcs, Cpp!OpenPointer(p)
  PROVE  CppDoes(p)
<1>1. CppTypes /\ JavaTypes /\ FileOK /\ 0 <= CppMost /\ 0 <= JavaMost /\ CppAt(p)
  BY DEF Inv
<1>2. /\ cPc[p] = "open" /\ file' = file /\ cMem' = cMem /\ cRuns' = cRuns
      /\ cRun' = cRun /\ cDone' = cDone
  BY DEF Cpp!OpenPointer, Cpp!At
<1>3. PICK l \in {"create", "map"}, v \in Ints :
        /\ cPc' = [cPc EXCEPT ![p] = l] /\ cPtr' = [cPtr EXCEPT ![p] = v]
        /\ Fine(v) \/ v = 0
  <2>1. CASE file = Missing
    <3>1. cPc' = [cPc EXCEPT ![p] = "create"] /\ cPtr' = cPtr
      BY <2>1 DEF Cpp!OpenPointer, Cpp!Goto
    <3>2. cPtr' = [cPtr EXCEPT ![p] = cPtr[p]] /\ cPtr[p] \in Ints /\ Fine(cPtr[p])
      BY <1>1, <3>1 DEF CppTypes, CppAt
    <3>3. QED
      BY <3>1, <3>2
  <2>2. CASE file = Empty
    <3>1. cPc' = [cPc EXCEPT ![p] = "map"] /\ cPtr' = [cPtr EXCEPT ![p] = 0]
      BY <2>2, FileAssumption DEF Cpp!OpenPointer, Cpp!Goto, Cpp!Recovered
    <3>2. QED
      BY <3>1, NoHalves
  <2>3. CASE file \notin {Missing, Empty}
    <3>1. cPc' = [cPc EXCEPT ![p] = "map"] /\ cPtr' = [cPtr EXCEPT ![p] = file]
      BY <2>3 DEF Cpp!OpenPointer, Cpp!Goto, Cpp!Recovered
    <3>2. file \in Ints /\ Fine(file)
      BY <1>1, <2>3, IntIs DEF FileOK
    <3>3. QED
      BY <3>1, <3>2
  <2>4. QED
    BY <2>1, <2>2, <2>3
<1>4. cPc'[p] = l /\ cPtr'[p] = v
  BY <1>1, <1>3 DEF CppTypes, CppCounts
<1>5. CppTypes'
  BY <1>1, <1>2, <1>3 DEF CppTypes, CppCounts, Cpp!Places
<1>6. JavaTypes' /\ JavaMost' = JavaMost /\ jMem' = jMem
  BY <1>1, JavaStays
<1>7. CppMost <= CppMost'
  BY <1>1, <1>2, <1>3, <1>5, CppGoes DEF CppTypes, CppEarly
<1>8. Counts
  BY <1>1, <1>5, <1>6, CountsAre DEF CppTypes, JavaTypes
<1>9. Grow
  BY <1>2, <1>6, <1>7, <1>8 DEF Grow, Counts
<1>10. \A r \in CppProcs : r # p =>
         cPc'[r] = cPc[r] /\ cPtr'[r] = cPtr[r] /\ cRun'[r] = cRun[r] /\ cDone'[r] = cDone[r]
  BY <1>1, <1>2, <1>3 DEF CppTypes, CppCounts
<1>11. FineNext(v)
  BY <1>1, <1>3, <1>8, <1>9, ZeroFine, StillFine
<1>12. CppAt(p)'
  BY <1>1, <1>2, <1>3, <1>4, <1>11, CppAtIs DEF CppAt
<1>13. QED
  BY <1>2, <1>5, <1>8, <1>9, <1>10, <1>12 DEF CppDoes, CppFrame, FileMoves

LEMMA CppWrites ==
  ASSUME FewProcs, Inv, JavaRests, NEW p \in CppProcs, NEW i \in Cpp!Entry, Cpp!WriteCell(p, i)
  PROVE  CppDoes(p)
<1> DEFINE a == cPtr[p] + i
<1>1. CppTypes /\ JavaTypes /\ CppAt(p)
  BY DEF Inv
<1>2. /\ cPc[p] = "write" /\ file' = file /\ cRuns' = cRuns /\ cRun' = cRun /\ cPtr' = cPtr
      /\ cMem' = (IF a \in Cells THEN [cMem EXCEPT ![a] = cRun[p]] ELSE cMem)
  BY SameCells DEF Cpp!WriteCell, Cpp!At
<1>3. PICK l \in {"write", "off"} : cPc' = [cPc EXCEPT ![p] = l]
  <2>1. cPc' = cPc \/ cPc' = [cPc EXCEPT ![p] = "off"]
    BY DEF Cpp!WriteCell, Cpp!Goto
  <2>2. cPc = [cPc EXCEPT ![p] = "write"]
    BY <1>1, <1>2 DEF CppTypes, CppCounts
  <2>3. QED
    BY <2>1, <2>2
<1>4. PICK D \in SUBSET Entry : cDone' = [cDone EXCEPT ![p] = D] /\ D \subseteq cDone[p] \cup {i}
  <2>1. cDone' = cDone \/ cDone' = [cDone EXCEPT ![p] = cDone[p] \cup {i}]
    BY DEF Cpp!WriteCell
  <2>2. cDone = [cDone EXCEPT ![p] = cDone[p]] /\ cDone[p] \in SUBSET Entry
    BY <1>1 DEF CppTypes
  <2>3. i \in Entry
    BY SameCells
  <2>4. QED
    BY <2>1, <2>2, <2>3
<1>5. cPc'[p] = l /\ cDone'[p] = D
  BY <1>1, <1>3, <1>4 DEF CppTypes, CppCounts
<1>6. cRun[p] # 0 /\ cRun[p] \in Nat
  BY <1>1, <1>2 DEF CppAt, CppTypes
<1>7. CppTypes'
  BY <1>1, <1>2, <1>3, <1>4, <1>6 DEF CppTypes, CppCounts, Cpp!Places
<1>8. JavaTypes' /\ JavaMost' = JavaMost /\ jMem' = jMem
  BY <1>1, JavaStays
<1>9. CppMost <= CppMost'
  BY <1>1, <1>2, <1>3, <1>7, CppGoes DEF CppTypes, CppEarly
<1>10. Counts
  BY <1>1, <1>7, <1>8, CountsAre DEF CppTypes, JavaTypes
<1>11. \A j \in Cells : (cMem[j] # 0 => cMem'[j] # 0) /\ (j = a => cMem'[j] # 0)
  BY <1>1, <1>2, <1>6 DEF CppTypes
<1>12. Grow
  BY <1>8, <1>9, <1>10, <1>11 DEF Grow, Counts
<1>13. \A r \in CppProcs : r # p =>
         cPc'[r] = cPc[r] /\ cPtr'[r] = cPtr[r] /\ cRun'[r] = cRun[r] /\ cDone'[r] = cDone[r]
  BY <1>1, <1>2, <1>3, <1>4 DEF CppTypes, CppCounts
<1>14. FineNext(cPtr'[p])
  BY <1>1, <1>2, <1>10, <1>12, StillFine DEF CppAt
<1>15. cPc'[p] = "write" =>
         \A j \in cDone'[p] : cPtr'[p] + j \in Cells => cMem'[cPtr'[p] + j] # 0
  BY <1>1, <1>2, <1>4, <1>5, <1>11 DEF CppAt
<1>16. CppAt(p)'
  BY <1>2, <1>3, <1>5, <1>6, <1>14, <1>15, CppAtIs
<1>17. QED
  BY <1>2, <1>7, <1>10, <1>12, <1>13, <1>16 DEF CppDoes, CppFrame, FileMoves
LEMMA CppMoves ==
  ASSUME FewProcs, Inv, JavaRests, NEW p \in CppProcs, Cpp!MovePointer(p)
  PROVE  CppDoes(p) /\ Lo(cPtr'[p]) = Lo(cPtr[p]) + DataLen /\ Hi(cPtr'[p]) = Hi(cPtr[p])
<1> DEFINE v == cPtr[p]
<1>1. CppTypes /\ JavaTypes /\ CppAt(p)
  BY DEF Inv
<1>2. /\ cPc[p] = "write" /\ cDone[p] = Entry /\ file' = file /\ cRuns' = cRuns /\ cRun' = cRun
      /\ cMem' = cMem /\ cDone' = cDone
      /\ cPc' = [cPc EXCEPT ![p] = "truncate"] /\ cPtr' = [cPtr EXCEPT ![p] = v + DataLen]
  BY SameCells DEF Cpp!MovePointer, Cpp!At, Cpp!Goto, Cpp!Written, Cpp!EndOfEntry
<1>3. CppCounts /\ CppCounts'
  BY <1>1, <1>2 DEF CppTypes, CppCounts, Cpp!Places
<1>4. JavaTypes' /\ JavaMost' = JavaMost /\ jMem' = jMem
  BY <1>1, JavaStays
<1>5. CppMost' = CppMost + DataLen
  <2>1. cPc[p] \in CppEarly /\ "truncate" \notin CppEarly
    BY <1>2 DEF CppEarly
  <2>2. cRuns' = cRuns /\ cPc' = [cPc EXCEPT ![p] = "truncate"]
    BY <1>2
  <2>3. QED
    BY <1>3, <2>1, <2>2, CppGoes
<1>6. Counts
  BY <1>1, <1>3, <1>4, CountsAre DEF JavaTypes
<1>7. Grow
  BY <1>2, <1>4, <1>5, <1>6, SizeAssumption DEF Grow, Counts
<1>8. v \in Ints /\ Lo(v) <= CppMost /\ Hi(v) <= JavaMost
  BY <1>1 DEF CppAt, Fine
<1>9. Lo(v) \in Nat /\ Hi(v) \in Nat /\ DataLen \in Nat /\ DataLen > 0 /\ TwoBytes \in Int
  BY <1>8, HalvesAre, SizeAssumption, SMT DEF TwoBytes
<1>10. Lo(v) + DataLen <= CppMost' /\ Lo(v) + DataLen < TwoBytes
  BY <1>5, <1>6, <1>8, <1>9 DEF Counts
<1>11. v + DataLen \in Ints /\ Lo(v + DataLen) = Lo(v) + DataLen /\ Hi(v + DataLen) = Hi(v)
  BY <1>8, <1>9, <1>10, AddToLow
<1>12. cPc'[p] = "truncate" /\ cPtr'[p] = v + DataLen
  BY <1>1, <1>2 DEF CppTypes, CppCounts
<1>13. CppTypes'
  BY <1>1, <1>2, <1>3, <1>11 DEF CppTypes
<1>14. \A r \in CppProcs : r # p =>
         cPc'[r] = cPc[r] /\ cPtr'[r] = cPtr[r] /\ cRun'[r] = cRun[r] /\ cDone'[r] = cDone[r]
  BY <1>1, <1>2 DEF CppTypes, CppCounts
<1>15. Hi(v) = 0 => \A i \in Cells : i < Lo(v) + DataLen => cMem[i] # 0
  <2>1. SUFFICES ASSUME Hi(v) = 0, NEW i \in Cells, i < Lo(v) + DataLen
                 PROVE  cMem[i] # 0
    OBVIOUS
  <2>2. v = Lo(v)
    BY <1>8, <2>1, OnlyLow
  <2>3. i \in Int /\ DataLen \in Nat
    BY SizeAssumption DEF Cells
  <2>4. CASE i < Lo(v)
    BY <1>1, <2>1, <2>4 DEF CppAt, Fine
  <2>5. CASE i >= Lo(v)
    <3>1. PICK j \in Entry : v + j = i
      <4>1. i - Lo(v) \in Entry /\ Lo(v) + (i - Lo(v)) = i
        BY <1>9, <2>1, <2>3, <2>5 DEF Entry
      <4>2. QED
        BY <2>2, <4>1
    <3>2. QED
      BY <1>1, <1>2, <3>1 DEF CppAt
  <2>6. QED
    BY <1>9, <2>3, <2>4, <2>5
<1>16. FineNext(v + DataLen)
  BY <1>2, <1>4, <1>8, <1>10, <1>11, <1>15 DEF FineNext
<1>17. CppAt(p)'
  BY <1>1, <1>2, <1>9, <1>11, <1>12, <1>16, CppAtIs DEF CppAt
<1>18. CppDoes(p)
  BY <1>2, <1>6, <1>7, <1>13, <1>14, <1>17 DEF CppDoes, CppFrame, FileMoves
<1>19. QED
  BY <1>11, <1>12, <1>18

LEMMA CppDoesSo ==
  ASSUME FewProcs, Inv, JavaRests, NEW p \in CppProcs,
         Cpp!Start(p) \/ Cpp!Step(p) \/ Cpp!Crash(p)
  PROVE  CppDoes(p)
BY CppSimpleSteps, CppStarts, CppOpens, CppWrites, CppMoves DEF Cpp!Step

\* The invariant after a step of the C++ service.
LEMMA CppKeeps ==
  ASSUME FewProcs, Inv, JavaRests, NEW p \in CppProcs, CppDoes(p)
  PROVE  Inv'
<1>1. /\ CppTypes /\ JavaTypes /\ 0 <= CppMost /\ 0 <= JavaMost /\ FileOK
      /\ CppTypes' /\ Counts /\ Grow /\ FileMoves(p) /\ CppAt(p)'
  BY DEF Inv, CppDoes, CppFrame
<1>2. JavaTypes' /\ jMem' = jMem /\ jPc' = jPc /\ jPtr' = jPtr /\ jRun' = jRun /\ jDone' = jDone /\ jCurrent' = jCurrent
  BY <1>1, JavaStays DEF JavaRests, jVars
<1>3. 0 <= CppMost' /\ 0 <= JavaMost'
  BY <1>1 DEF Counts, Grow
<1>4. FineNext(0) /\ FineNext(cPtr'[p])
  BY <1>1, ZeroFine DEF CppAt, Fine, FineNext
<1>5. /\ file' \in Ints \cup {Missing, Empty}
      /\ file' \in Int => FineNext(file')
      /\ file' = file \/ file' = Empty \/ file' = 0 \/ Lo(file') > 0
      /\ file' = Missing => file = Missing
  <2>1. CASE file' = file
    BY <1>1, <2>1, StillFine DEF FileOK
  <2>2. CASE file' = Empty
    BY <2>2, FileAssumption
  <2>3. CASE file' = 0
    BY <1>4, <2>3, FileAssumption DEF FineNext
  <2>4. CASE file' = cPtr'[p] /\ Lo(cPtr'[p]) > 0
    BY <1>4, <2>4, FileAssumption, IntIs DEF FineNext
  <2>5. QED
    BY <1>1, <2>1, <2>2, <2>3, <2>4 DEF FileMoves
<1>6. file' \in Int /\ Lo(file') = 0 => file' = file \/ file' = 0
  BY <1>5, FileAssumption
<1>7. FileOK'
  <2>1. file' \in Int => Fine(file)'
    BY <1>5 DEF Fine, FineNext
  <2>2. file' \in Int /\ Lo(file') = 0 => \A i \in Cells : i < Hi(file') => jMem'[i] # 0
    <3>1. \A i \in Cells : ~ (i < 0)
      BY SizeAssumption DEF Cells
    <3>2. QED
      BY <1>1, <1>2, <1>6, <3>1, NoHalves DEF FileOK
  <2>3. QED
    BY <1>5, <2>1, <2>2 DEF FileOK
<1>8. ASSUME NEW r \in CppProcs PROVE CppAt(r)'
  <2>1. CASE r = p
    BY <1>1, <2>1
  <2>2. CASE r # p
    <3>1. /\ cPc'[r] = cPc[r] /\ cPtr'[r] = cPtr[r] /\ cRun'[r] = cRun[r] /\ cDone'[r] = cDone[r]
          /\ CppAt(r)
      BY <2>2 DEF Inv, CppDoes, CppFrame
    <3>2. FineNext(cPtr'[r])
      BY <1>1, <3>1, StillFine DEF CppAt
    <3>3. QED
      BY <1>1, <3>1, <3>2, CppAtIs DEF CppAt, Grow
  <2>3. QED
    BY <2>1, <2>2
<1>9. ASSUME NEW q \in JavaProcs PROVE JavaAt(q)'
  <2>1. JavaAt(q)
    BY DEF Inv
  <2>2. ASSUME file' \in Int, Lo(file') = 0, jPtr[q] \in Ints,
               file \in Int /\ Lo(file) = 0 => Hi(file) <= Lo(jPtr[q])
        PROVE  Hi(file') <= Lo(jPtr[q])
    BY <1>6, <2>2, NoHalves, HalvesAre
  <2>3. jPtr[q] \in Ints /\ jCurrent[q] \in Ints
    BY <1>1 DEF JavaTypes
  <2>4. Lo(jCurrent[q]) \in Nat /\ Hi(jCurrent[q]) \in Nat
    BY <2>3, HalvesAre
  <2>5. Lo(jCurrent[q]) <= JavaMost => Lo(jCurrent[q]) <= JavaMost'
    BY <1>1, <2>4 DEF Counts, Grow
  <2>6. Hi(jCurrent[q]) <= CppMost => Hi(jCurrent[q]) <= CppMost'
    BY <1>1, <2>4 DEF Counts, Grow
  <2>7. QED
    BY <1>2, <1>5, <2>1, <2>2, <2>3, <2>5, <2>6 DEF JavaAt
<1>10. QED
  BY <1>1, <1>2, <1>3, <1>7, <1>8, <1>9 DEF Inv
-----------------------------------------------------------------------------
(* The steps of the Java service                                           *)

CppRests == UNCHANGED cVars

JavaFrame == JavaTypes' /\ Counts /\ Grow

JavaDoes(q) == JavaFrame /\ JavaAt(q)' /\ FileOK'

LEMMA CppStays ==
  ASSUME CppTypes, CppRests
  PROVE  /\ CppTypes' /\ CppMost' = CppMost /\ cMem' = cMem /\ cPc' = cPc /\ cPtr' = cPtr
         /\ cRun' = cRun /\ cDone' = cDone
<1>1. /\ cMem' = cMem /\ cRuns' = cRuns /\ cPc' = cPc /\ cPtr' = cPtr /\ cRun' = cRun
      /\ cDone' = cDone
  BY DEF CppRests, cVars
<1>2. CppTypes'
  BY <1>1 DEF CppTypes, CppCounts
<1>3. CppMost' = CppMost
  BY <1>1 DEF CppMost, CppMoved, CppMovers
<1>4. QED
  BY <1>1, <1>2, <1>3

LEMMA FileStays ==
  ASSUME Inv, Counts, Grow, file' = file \/ file' = Empty \/ file' = 0
  PROVE  FileOK'
<1>1. CASE file' = file
  <2>1. FileOK
    BY DEF Inv
  <2>2. file \in Int => FineNext(file)
    BY <2>1, StillFine DEF FileOK
  <2>3. file \in Int => Fine(file)'
    BY <1>1, <2>2 DEF Fine, FineNext
  <2>4. QED
    BY <1>1, <2>1, <2>3 DEF FileOK, Grow
<1>2. CASE file' = Empty
  BY <1>2, FileAssumption DEF FileOK
<1>3. CASE file' = 0
  <2>1. FineNext(0)
    BY ZeroFine DEF Inv
  <2>2. Fine(file)'
    BY <1>3, <2>1 DEF Fine, FineNext
  <2>3. \A i \in Cells : ~ (i < 0)
    BY SizeAssumption DEF Cells
  <2>4. QED
    BY <1>3, <2>2, <2>3, NoHalves DEF FileOK
<1>4. QED
  BY <1>1, <1>2, <1>3

\* What a step of the Java service does that only goes on, or ends.
JavaGoesOn(q, a, b) ==
  /\ jPc[q] = a /\ jPc' = [jPc EXCEPT ![q] = b]
  /\ jMem' = jMem /\ jRuns' = jRuns /\ jPtr' = jPtr /\ jRun' = jRun /\ jDone' = jDone
  /\ jCurrent' = jCurrent

LEMMA JavaOnlyGoes ==
  ASSUME FewProcs, Inv, CppRests, NEW q \in JavaProcs, NEW a, NEW b \in Java!Places,
         JavaGoesOn(q, a, b), a \in JavaEarly \/ b \notin JavaEarly
  PROVE  JavaFrame /\ jPc'[q] = b /\ jPc[q] = a
<1>1. CppTypes /\ JavaTypes
  BY DEF Inv
<1>2. JavaTypes' /\ jPc'[q] = b /\ jPc[q] = a
  BY <1>1 DEF JavaTypes, JavaCounts, JavaGoesOn
<1>3. CppTypes' /\ CppMost' = CppMost /\ cMem' = cMem
  BY <1>1, CppStays
<1>4. jPc' = [jPc EXCEPT ![q] = b] /\ jRuns' = jRuns /\ jMem' = jMem
  BY DEF JavaGoesOn
<1>5. JavaMost <= JavaMost'
  BY <1>1, <1>2, <1>4, JavaGoes DEF JavaTypes
<1>6. Counts
  BY <1>1, <1>2, <1>3, CountsAre DEF CppTypes, JavaTypes
<1>7. Grow
  BY <1>3, <1>4, <1>5, <1>6 DEF Grow, Counts
<1>8. QED
  BY <1>2, <1>6, <1>7 DEF JavaFrame

LEMMA JavaEnds ==
  ASSUME FewProcs, Inv, CppRests, NEW q \in JavaProcs, NEW a, JavaGoesOn(q, a, "off"),
         file' = file
  PROVE  JavaDoes(q)
<1>1. JavaFrame /\ jPc'[q] = "off"
  BY JavaOnlyGoes DEF JavaEarly, JavaLate, Java!Places
<1>2. FileOK'
  BY <1>1, FileStays DEF JavaFrame
<1>3. JavaAt(q)'
  BY <1>1 DEF JavaAt, JavaEarly, JavaLate
<1>4. QED
  BY <1>1, <1>2, <1>3 DEF JavaDoes

\* The low half of a Java pointer that lies in the memory is all of it.
LEMMA InMemory ==
  ASSUME NEW v \in 0..(Size - DataLen)
  PROVE  v \in Ints => Hi(v) = 0 /\ Lo(v) = v
<1>1. 0 <= v /\ v < TwoBytes
  BY SizeAssumption, TwoBytesAssumption, SMT DEF TwoBytes
<1>2. QED
  BY <1>1, OnlyLow

LEMMA JavaSimpleSteps ==
  ASSUME FewProcs, Inv, CppRests, NEW q \in JavaProcs,
         \/ Java!MapSharedMemory(q) \/ Java!PositionBuffer(q) \/ Java!OpenPointerFile(q)
         \/ Java!MapPointerFile(q) \/ Java!PrintEntry(q) \/ Java!Crash(q)
  PROVE  JavaDoes(q)
<1>0. JavaAt(q) /\ FileOK /\ JavaTypes
  BY DEF Inv
<1>1. CASE Java!MapSharedMemory(q)
  <2>1. file' = file /\ (JavaGoesOn(q, "map", "position") \/ JavaGoesOn(q, "map", "off"))
    BY <1>1 DEF Java!MapSharedMemory, Java!At, Java!Goto, Java!local, JavaGoesOn
  <2>2. CASE JavaGoesOn(q, "map", "position")
    <3>1. JavaFrame /\ jPc'[q] = "position" /\ jPc[q] = "map"
      BY <2>2, JavaOnlyGoes DEF JavaEarly, JavaLate, Java!Places
    <3>2. JavaAt(q)'
      BY <1>0, <2>1, <2>2, <3>1 DEF JavaAt, JavaGoesOn, JavaEarly, JavaLate
    <3>3. QED
      BY <2>1, <3>1, <3>2, FileStays DEF JavaDoes, JavaFrame
  <2>3. QED
    BY <2>1, <2>2, JavaEnds
<1>2. CASE Java!PositionBuffer(q)
  <2>1. /\ file' = file
        /\ \/ JavaGoesOn(q, "position", "put") /\ jPtr[q] \in 0..(Size - DataLen)
           \/ JavaGoesOn(q, "position", "off")
    BY <1>2 DEF Java!PositionBuffer, Java!Fits, Java!At, Java!Goto, Java!local, JavaGoesOn
  <2>2. CASE JavaGoesOn(q, "position", "put") /\ jPtr[q] \in 0..(Size - DataLen)
    <3>1. JavaFrame /\ jPc'[q] = "put" /\ jPc[q] = "position"
      BY <2>2, JavaOnlyGoes DEF JavaEarly, JavaLate, Java!Places
    <3>2. JavaAt(q)'
      BY <1>0, <2>1, <2>2, <3>1 DEF JavaAt, JavaGoesOn, JavaEarly, JavaLate
    <3>3. QED
      BY <2>1, <3>1, <3>2, FileStays DEF JavaDoes, JavaFrame
  <2>3. QED
    BY <2>1, <2>2, JavaEnds
<1>3. CASE Java!OpenPointerFile(q)
  <2>1. \/ JavaGoesOn(q, "put", "mapptr") /\ file' = Java!Opened /\ jDone[q] = Entry
        \/ JavaGoesOn(q, "put", "off") /\ file' = file
    BY <1>3, SameCells DEF Java!OpenPointerFile, Java!Written, Java!At, Java!Goto, Java!local, JavaGoesOn
  <2>2. CASE JavaGoesOn(q, "put", "mapptr") /\ file' = Java!Opened /\ jDone[q] = Entry
    <3>1. JavaFrame /\ jPc'[q] = "mapptr" /\ jPc[q] = "put"
      BY <2>2, JavaOnlyGoes DEF JavaEarly, JavaLate, Java!Places
    <3>2. file' # Missing /\ (file' = file \/ file' = Empty)
      BY <2>2, FileAssumption DEF Java!Opened
    <3>3. file' \in Int => file' = file
      BY <3>2, FileAssumption
    <3>4. JavaAt(q)'
      BY <1>0, <2>2, <3>1, <3>2, <3>3 DEF JavaAt, JavaGoesOn, JavaEarly, JavaLate
    <3>5. QED
      BY <3>1, <3>2, <3>4, FileStays DEF JavaDoes, JavaFrame
  <2>3. QED
    BY <2>1, <2>2, JavaEnds
<1>4. CASE Java!MapPointerFile(q)
  <2>1. \/ JavaGoesOn(q, "mapptr", "get") /\ (file' = file \/ file' = 0)
        \/ JavaGoesOn(q, "mapptr", "off") /\ file' = file
    BY <1>4 DEF Java!MapPointerFile, Java!At, Java!Goto, Java!local, JavaGoesOn
  <2>2. CASE JavaGoesOn(q, "mapptr", "get") /\ (file' = file \/ file' = 0)
    <3>1. JavaFrame /\ jPc'[q] = "get" /\ jPc[q] = "mapptr"
      BY <2>2, JavaOnlyGoes DEF JavaEarly, JavaLate, Java!Places
    <3>2. file' # Missing
      BY <1>0, <2>2, <3>1, FileAssumption DEF JavaAt, JavaLate
    <3>3. jPtr[q] \in Ints /\ Lo(jPtr[q]) \in Nat
      BY <1>0, HalvesAre DEF JavaTypes
    <3>4. file' \in Int /\ Lo(file') = 0 /\ (file \in Int /\ Lo(file) = 0 => Hi(file) <= Lo(jPtr[q]))
            => Hi(file') <= Lo(jPtr[q])
      BY <2>2, <3>3, NoHalves
    <3>5. JavaAt(q)'
      BY <1>0, <2>2, <3>1, <3>2, <3>4 DEF JavaAt, JavaGoesOn, JavaEarly, JavaLate
    <3>6. QED
      BY <2>2, <3>1, <3>5, FileStays DEF JavaDoes, JavaFrame
  <2>3. QED
    BY <2>1, <2>2, JavaEnds
<1>5. CASE Java!PrintEntry(q)
  <2>1. JavaGoesOn(q, "print", "off") /\ file' = file
    BY <1>5 DEF Java!PrintEntry, Java!At, Java!Goto, JavaGoesOn
  <2>2. QED
    BY <2>1, JavaEnds
<1>6. CASE Java!Crash(q)
  <2>1. JavaGoesOn(q, jPc[q], "off") /\ file' = file
    BY <1>6 DEF Java!Crash, Java!Goto, Java!local, JavaGoesOn
  <2>2. QED
    BY <2>1, JavaEnds
<1>7. QED
  BY <1>1, <1>2, <1>3, <1>4, <1>5, <1>6
LEMMA JavaStarts ==
  ASSUME FewProcs, Inv, CppRests, NEW q \in JavaProcs, Java!Start(q)
  PROVE  JavaDoes(q)
<1>1. CppTypes /\ JavaTypes
  BY DEF Inv
<1>2. /\ jPc[q] = "off" /\ jRuns < MaxRuns /\ jRuns' = jRuns + 1 /\ file' = file /\ jMem' = jMem
      /\ jPc' = [jPc EXCEPT ![q] = "read"] /\ jRun' = [jRun EXCEPT ![q] = jRuns + 1]
      /\ jPtr' = [jPtr EXCEPT ![q] = 0] /\ jDone' = [jDone EXCEPT ![q] = {}]
      /\ jCurrent' = [jCurrent EXCEPT ![q] = 0]
  BY DEF Java!Start, Java!At, Java!Goto
<1>3. JavaTypes'
  BY <1>1, <1>2, NoHalves, SizeAssumption DEF JavaTypes, JavaCounts, Java!Places
<1>4. jPc'[q] = "read" /\ jRun'[q] = jRuns + 1 /\ jDone'[q] = {}
  BY <1>1, <1>2 DEF JavaTypes, JavaCounts
<1>5. CppTypes' /\ CppMost' = CppMost /\ cMem' = cMem
  BY <1>1, CppStays
<1>6. JavaMost' = JavaMost
  BY <1>1, <1>2, <1>3, JavaGoes DEF JavaTypes, JavaEarly, JavaLate
<1>7. Counts
  BY <1>1, <1>3, <1>5, CountsAre DEF CppTypes, JavaTypes
<1>8. Grow
  BY <1>2, <1>5, <1>6, <1>7 DEF Grow, Counts
<1>9. jRun'[q] # 0
  BY <1>1, <1>4 DEF JavaTypes, JavaCounts
<1>10. JavaAt(q)'
  BY <1>4, <1>9 DEF JavaAt, JavaEarly, JavaLate
<1>11. FileOK'
  BY <1>2, <1>7, <1>8, FileStays
<1>12. QED
  BY <1>3, <1>7, <1>8, <1>10, <1>11 DEF JavaDoes, JavaFrame

LEMMA JavaReads ==
  ASSUME FewProcs, Inv, CppRests, NEW q \in JavaProcs, Java!ReadPointer(q)
  PROVE  JavaDoes(q)
<1>1. CppTypes /\ JavaTypes /\ FileOK /\ JavaAt(q)
  BY DEF Inv
<1>2. /\ jPc[q] = "read" /\ file' = file /\ jMem' = jMem /\ jRuns' = jRuns
      /\ jRun' = jRun /\ jDone' = jDone /\ jCurrent' = jCurrent
  BY DEF Java!ReadPointer, Java!At
<1>3. CASE file = Empty
  <2>1. JavaGoesOn(q, "read", "off")
    BY <1>2, <1>3 DEF Java!ReadPointer, Java!Goto, JavaGoesOn
  <2>2. QED
    BY <1>2, <2>1, JavaEnds
<1>4. CASE file # Empty
  <2>1. PICK v \in Ints :
          /\ jPtr' = [jPtr EXCEPT ![q] = v]
          /\ Hi(v) = 0 => \A i \in Cells : i < Lo(v) => jMem[i] # 0
          /\ file \in Int /\ Lo(file) = 0 => Hi(file) <= Lo(v)
    <3>1. CASE file = Missing
      <4>1. jPtr' = [jPtr EXCEPT ![q] = 0]
        BY <1>4, <3>1 DEF Java!ReadPointer, Java!Recovered
      <4>2. \A i \in Cells : ~ (i < 0)
        BY SizeAssumption DEF Cells
      <4>3. QED
        BY <3>1, <4>1, <4>2, NoHalves, FileAssumption
    <3>2. CASE file # Missing
      <4>1. jPtr' = [jPtr EXCEPT ![q] = Swap(file)]
        BY <1>4, <3>2 DEF Java!ReadPointer, Java!Recovered, Swap
      <4>2. file \in Ints /\ file \in Int
        BY <1>1, <1>4, <3>2, IntIs DEF FileOK
      <4>3. Swap(file) \in Ints /\ Lo(Swap(file)) = Hi(file) /\ Hi(Swap(file)) = Lo(file)
        BY <4>2, SwapHalves
      <4>4. Hi(file) <= Lo(Swap(file))
        BY <4>2, <4>3, HalvesAre
      <4>5. Lo(file) = 0 => \A i \in Cells : i < Hi(file) => jMem[i] # 0
        BY <1>1, <4>2 DEF FileOK
      <4>6. QED
        BY <4>1, <4>3, <4>4, <4>5
    <3>3. QED
      BY <3>1, <3>2
  <2>2. jPc' = [jPc EXCEPT ![q] = "map"]
    BY <1>4 DEF Java!ReadPointer, Java!Goto
  <2>3. jPc'[q] = "map" /\ jPtr'[q] = v
    BY <1>1, <2>1, <2>2 DEF JavaTypes, JavaCounts
  <2>4. JavaTypes'
    BY <1>1, <1>2, <2>1, <2>2 DEF JavaTypes, JavaCounts, Java!Places
  <2>5. CppTypes' /\ CppMost' = CppMost /\ cMem' = cMem
    BY <1>1, CppStays
  <2>6. JavaMost <= JavaMost'
    BY <1>1, <1>2, <2>2, <2>4, JavaGoes DEF JavaTypes, JavaEarly, JavaLate
  <2>7. Counts
    BY <1>1, <2>4, <2>5, CountsAre DEF CppTypes, JavaTypes
  <2>8. Grow
    BY <1>2, <2>5, <2>6, <2>7 DEF Grow, Counts
  <2>9. JavaAt(q)'
    BY <1>1, <1>2, <2>1, <2>3 DEF JavaAt, JavaEarly, JavaLate
  <2>10. FileOK'
    BY <1>2, <2>7, <2>8, FileStays
  <2>11. QED
    BY <2>4, <2>7, <2>8, <2>9, <2>10 DEF JavaDoes, JavaFrame
<1>5. QED
  BY <1>3, <1>4

LEMMA JavaPuts ==
  ASSUME FewProcs, Inv, CppRests, NEW q \in JavaProcs, NEW i \in Java!Entry, Java!PutCell(q, i)
  PROVE  JavaDoes(q)
<1> DEFINE a == jPtr[q] + i
<1>1. CppTypes /\ JavaTypes /\ JavaAt(q)
  BY DEF Inv
<1>2. /\ jPc[q] = "put" /\ file' = file /\ jRuns' = jRuns /\ jRun' = jRun /\ jPtr' = jPtr
      /\ jCurrent' = jCurrent /\ jPc' = jPc
      /\ jMem' = [jMem EXCEPT ![a] = jRun[q]] /\ jDone' = [jDone EXCEPT ![q] = jDone[q] \cup {i}]
  BY DEF Java!PutCell, Java!At
<1>3. jRun[q] # 0 /\ jRun[q] \in Nat /\ i \in Entry
  BY <1>1, <1>2, SameCells DEF JavaAt, JavaTypes
<1>4. JavaTypes' /\ jDone'[q] = jDone[q] \cup {i}
  BY <1>1, <1>2, <1>3 DEF JavaTypes, JavaCounts
<1>5. CppTypes' /\ CppMost' = CppMost /\ cMem' = cMem
  BY <1>1, CppStays
<1>6. JavaMost' = JavaMost
  BY <1>2 DEF JavaMost, JavaMoved
<1>7. Counts
  BY <1>1, <1>4, <1>5, CountsAre DEF CppTypes, JavaTypes
<1>8. jPtr[q] \in 0..(Size - DataLen)
  BY <1>1, <1>2 DEF JavaAt
<1>9. \A j \in Entry : jPtr[q] + j \in Cells
  BY <1>8, SizeAssumption DEF Cells, Entry
<1>10. \A j \in Cells : (jMem[j] # 0 => jMem'[j] # 0) /\ (j = a => jMem'[j] # 0)
  BY <1>1, <1>2, <1>3 DEF JavaTypes
<1>11. Grow
  BY <1>5, <1>6, <1>7, <1>10 DEF Grow, Counts
<1>12. \A j \in jDone'[q] : jMem'[jPtr[q] + j] # 0
  <2>1. jDone[q] \subseteq Entry
    BY <1>1 DEF JavaTypes
  <2>2. \A j \in jDone[q] : jMem[jPtr[q] + j] # 0
    BY <1>1, <1>2 DEF JavaAt
  <2>3. QED
    BY <1>3, <1>4, <1>9, <1>10, <2>1, <2>2
<1>13. Hi(jPtr[q]) = 0 =>
         /\ \A j \in Cells : j < Lo(jPtr[q]) => jMem'[j] # 0
         /\ file \in Int /\ Lo(file) = 0 => Hi(file) <= Lo(jPtr[q])
  BY <1>1, <1>2, <1>10 DEF JavaAt, JavaEarly
<1>14. JavaAt(q)'
  BY <1>2, <1>3, <1>8, <1>12, <1>13 DEF JavaAt, JavaEarly, JavaLate
<1>15. FileOK'
  BY <1>2, <1>7, <1>11, FileStays
<1>16. QED
  BY <1>4, <1>7, <1>11, <1>14, <1>15 DEF JavaDoes, JavaFrame
LEMMA JavaLooks ==
  ASSUME FewProcs, Inv, CppRests, NEW q \in JavaProcs, Java!ReadCurrent(q)
  PROVE  JavaDoes(q)
<1>1. CppTypes /\ JavaTypes /\ FileOK /\ JavaAt(q)
  BY DEF Inv
<1>2. /\ jPc[q] = "get" /\ file # Empty /\ file' = file /\ jMem' = jMem /\ jRuns' = jRuns
      /\ jRun' = jRun /\ jPtr' = jPtr /\ jDone' = jDone
      /\ jCurrent' = [jCurrent EXCEPT ![q] = Swap(file)] /\ jPc' = [jPc EXCEPT ![q] = "add"]
  BY DEF Java!ReadCurrent, Java!At, Java!Goto, Swap
<1>3. file \in Ints /\ file \in Int /\ Fine(file)
  BY <1>1, <1>2, IntIs DEF FileOK, JavaAt, JavaLate
<1>4. Swap(file) \in Ints /\ Lo(Swap(file)) = Hi(file) /\ Hi(Swap(file)) = Lo(file)
  BY <1>3, SwapHalves
<1>5. JavaTypes' /\ jPc'[q] = "add" /\ jCurrent'[q] = Swap(file)
  BY <1>1, <1>2, <1>4 DEF JavaTypes, JavaCounts, Java!Places
<1>6. CppTypes' /\ CppMost' = CppMost /\ cMem' = cMem
  BY <1>1, CppStays
<1>7. JavaMost <= JavaMost'
  BY <1>1, <1>2, <1>5, JavaGoes DEF JavaTypes, JavaEarly, JavaLate
<1>8. Counts
  BY <1>1, <1>5, <1>6, CountsAre DEF CppTypes, JavaTypes
<1>9. Grow
  BY <1>2, <1>6, <1>7, <1>8 DEF Grow, Counts
<1>10. FineNext(file)
  BY <1>3, <1>8, <1>9, StillFine
<1>11. Lo(jCurrent'[q]) <= JavaMost' /\ Hi(jCurrent'[q]) <= CppMost'
  BY <1>4, <1>5, <1>10 DEF FineNext
<1>12. /\ jPtr[q] \in 0..(Size - DataLen) /\ jPtr[q] \in Ints
       /\ jPc[q] \in JavaEarly \ {"read"} /\ jPc[q] \in JavaLate
  BY <1>1, <1>2 DEF JavaAt, JavaTypes, JavaLate, JavaEarly
<1>13. Hi(jPtr[q]) = 0 /\ Lo(jPtr[q]) = jPtr[q]
  BY <1>12, InMemory
<1>14. /\ \A j \in Cells : j < Lo(jPtr[q]) => jMem[j] # 0
       /\ file \in Int /\ Lo(file) = 0 => Hi(file) <= Lo(jPtr[q])
  BY <1>1, <1>12, <1>13 DEF JavaAt
<1>15. Hi(jCurrent'[q]) = 0 => Lo(jCurrent'[q]) <= jPtr[q]
  BY <1>3, <1>4, <1>5, <1>13, <1>14
<1>16. jRun[q] # 0 /\ file # Missing /\ \A i \in Entry : jMem[jPtr[q] + i] # 0
  BY <1>1, <1>2, <1>12 DEF JavaAt
<1>17. JavaAt(q)'
  BY <1>2, <1>5, <1>11, <1>12, <1>14, <1>15, <1>16 DEF JavaAt, JavaLate
<1>18. FileOK'
  BY <1>2, <1>8, <1>9, FileStays
<1>19. QED
  BY <1>5, <1>8, <1>9, <1>17, <1>18 DEF JavaDoes, JavaFrame

LEMMA JavaAdds ==
  ASSUME FewProcs, Inv, CppRests, NEW q \in JavaProcs, Java!AddLength(q)
  PROVE  JavaDoes(q) /\ file' \in Int /\ Hi(file') > 0
<1> DEFINE v == jCurrent[q]
           w == v + DataLen
<1>1. CppTypes /\ JavaTypes /\ JavaAt(q) /\ 0 <= JavaMost
  BY DEF Inv
<1>2. JavaGoesOn(q, "add", "print") /\ file' = Swap(w)
  BY DEF Java!AddLength, Java!At, Java!Goto, Java!local, Java!Sum, JavaGoesOn, Swap
<1>3. JavaFrame /\ jPc'[q] = "print" /\ jPc[q] = "add"
  BY <1>2, JavaOnlyGoes DEF JavaEarly, JavaLate, Java!Places
<1>4. jMem' = jMem /\ jRuns' = jRuns /\ jRun' = jRun /\ jPc' = [jPc EXCEPT ![q] = "print"]
  BY <1>2 DEF JavaGoesOn
<1>5. JavaTypes' /\ Counts /\ Grow
  BY <1>3 DEF JavaFrame
<1>6. CppMost' = CppMost /\ cMem' = cMem
  BY <1>1, CppStays
<1>7. JavaMost' = JavaMost + DataLen
  <2>1. jPc[q] \in JavaEarly /\ "print" \notin JavaEarly
    BY <1>3 DEF JavaEarly, JavaLate
  <2>2. JavaCounts /\ JavaCounts'
    BY <1>1, <1>5 DEF JavaTypes
  <2>3. QED
    BY <1>4, <2>1, <2>2, JavaGoes
<1>8. /\ v \in Ints /\ Lo(v) <= JavaMost /\ Hi(v) <= CppMost
      /\ Hi(v) = 0 => Lo(v) <= jPtr[q]
  BY <1>1, <1>3 DEF JavaAt, JavaTypes
<1>9. /\ Lo(v) \in Nat /\ Hi(v) \in Nat /\ DataLen \in Nat /\ DataLen > 0
      /\ TwoBytes \in Int
  BY <1>8, HalvesAre, SizeAssumption, SMT DEF TwoBytes
<1>10. Lo(v) + DataLen <= JavaMost' /\ Lo(v) + DataLen < TwoBytes
  BY <1>5, <1>7, <1>8, <1>9 DEF Counts
<1>11. w \in Ints /\ Lo(w) = Lo(v) + DataLen /\ Hi(w) = Hi(v)
  BY <1>8, <1>9, <1>10, AddToLow
<1>12. file' \in Ints /\ Lo(file') = Hi(v) /\ Hi(file') = Lo(v) + DataLen
  BY <1>2, <1>11, SwapHalves
<1>13. FineNext(file')
  BY <1>6, <1>8, <1>9, <1>10, <1>12 DEF FineNext
<1>14. Fine(file)'
  BY <1>13 DEF Fine, FineNext
<1>15. ASSUME Lo(file') = 0, NEW i \in Cells, i < Hi(file')
       PROVE  jMem'[i] # 0
  <2>1. /\ jPtr[q] \in 0..(Size - DataLen) /\ jPtr[q] \in Ints
        /\ jPc[q] \in JavaEarly \ {"read"} /\ jPc[q] \in JavaLate
    BY <1>1, <1>3 DEF JavaAt, JavaTypes, JavaLate, JavaEarly
  <2>2. Hi(jPtr[q]) = 0 /\ Lo(jPtr[q]) = jPtr[q]
    BY <2>1, InMemory
  <2>3. /\ \A j \in Cells : j < jPtr[q] => jMem[j] # 0
        /\ \A j \in Entry : jMem[jPtr[q] + j] # 0
    BY <1>1, <2>1, <2>2 DEF JavaAt
  <2>4. i \in Int /\ jPtr[q] \in Int /\ i < jPtr[q] + DataLen
    BY <1>8, <1>9, <1>12, <1>15, <2>1 DEF Cells
  <2>5. CASE i >= jPtr[q]
    <3>1. i - jPtr[q] \in Entry /\ jPtr[q] + (i - jPtr[q]) = i
      BY <1>9, <2>4, <2>5 DEF Entry
    <3>2. jMem[jPtr[q] + (i - jPtr[q])] # 0
      BY <2>3, <3>1
    <3>3. QED
      BY <1>4, <3>1, <3>2
  <2>6. CASE i < jPtr[q]
    BY <1>4, <2>3, <2>6
  <2>7. QED
    BY <2>4, <2>5, <2>6
<1>16. FileOK'
  BY <1>12, <1>14, <1>15 DEF FileOK
<1>17. JavaAt(q)'
  BY <1>1, <1>3, <1>4 DEF JavaAt, JavaEarly, JavaLate
<1>18. QED
  BY <1>3, <1>9, <1>12, <1>16, <1>17, IntIs DEF JavaDoes

LEMMA JavaDoesSo ==
  ASSUME FewProcs, Inv, CppRests, NEW q \in JavaProcs,
         Java!Start(q) \/ Java!Step(q) \/ Java!Crash(q)
  PROVE  JavaDoes(q)
BY JavaSimpleSteps, JavaStarts, JavaReads, JavaPuts, JavaLooks, JavaAdds DEF Java!Step

LEMMA JavaLoses ==
  ASSUME FewProcs, Inv, NEW q \in JavaProcs, LoseMapping(q)
  PROVE  CppRests /\ JavaDoes(q)
<1>1. JavaGoesOn(q, jPc[q], "off") /\ file' = file /\ CppRests
  BY DEF LoseMapping, Java!Goto, JavaGoesOn, CppRests
<1>2. QED
  BY <1>1, JavaEnds

\* The invariant after a step of the Java service.
LEMMA JavaKeeps ==
  ASSUME FewProcs, Inv, CppRests, NEW q \in JavaProcs, JavaDoes(q)
  PROVE  Inv'
<1>1. /\ CppTypes /\ JavaTypes /\ 0 <= CppMost /\ 0 <= JavaMost
      /\ JavaTypes' /\ Counts /\ Grow /\ JavaAt(q)' /\ FileOK'
  BY DEF Inv, JavaDoes, JavaFrame
<1>2. /\ CppTypes' /\ CppMost' = CppMost /\ cMem' = cMem /\ cPc' = cPc /\ cPtr' = cPtr
      /\ cRun' = cRun /\ cDone' = cDone
  BY <1>1, CppStays
<1>3. 0 <= CppMost' /\ 0 <= JavaMost'
  BY <1>1 DEF Counts, Grow
<1>4. ASSUME NEW r \in CppProcs PROVE CppAt(r)'
  <2>1. CppAt(r)
    BY DEF Inv
  <2>2. FineNext(cPtr'[r])
    BY <1>1, <1>2, <2>1, StillFine DEF CppAt
  <2>3. QED
    BY <1>2, <2>1, <2>2, CppAtIs DEF CppAt
<1>5. ASSUME NEW r \in JavaProcs PROVE JavaAt(r)'
  <2>1. r = q
    BY DEF FewProcs
  <2>2. QED
    BY <1>1, <2>1
<1>6. QED
  BY <1>1, <1>2, <1>3, <1>4, <1>5 DEF Inv

LEMMA InvInit == FewProcs /\ Init => Inv
<1> SUFFICES ASSUME FewProcs, Init PROVE Inv
  OBVIOUS
<1>1. /\ file = Missing /\ cMem = [i \in Cells |-> 0] /\ cRuns = 0
      /\ cPc = [p \in CppProcs |-> "off"] /\ cPtr = [p \in CppProcs |-> 0]
      /\ cRun = [p \in CppProcs |-> 0] /\ cDone = [p \in CppProcs |-> {}]
  BY SameCells DEF Init, Cpp!Init
<1>2. /\ jMem = [i \in Cells |-> 0] /\ jRuns = 0
      /\ jPc = [p \in JavaProcs |-> "off"] /\ jPtr = [p \in JavaProcs |-> 0]
      /\ jRun = [p \in JavaProcs |-> 0] /\ jDone = [p \in JavaProcs |-> {}]
      /\ jCurrent = [p \in JavaProcs |-> 0]
  BY SameCells DEF Init, Java!Init
<1>3. CppTypes
  BY <1>1, NoHalves, SizeAssumption DEF CppTypes, CppCounts, Cpp!Places
<1>4. JavaTypes
  BY <1>2, NoHalves, SizeAssumption DEF JavaTypes, JavaCounts, Java!Places
<1>5. CppMost = 0
  <2>1. CppMovers = {}
    BY <1>1 DEF CppMovers, CppEarly
  <2>2. Cardinality(CppMovers) = 0
    BY <2>1, FS_EmptySet
  <2>3. CppMoved = 0
    BY <1>1, <2>2 DEF CppMoved
  <2>4. QED
    BY <2>3, SizeAssumption, SMT DEF CppMost
<1>6. JavaMost = 0
  <2>1. \A q \in JavaProcs : jPc[q] \notin JavaEarly
    BY <1>2 DEF JavaEarly, JavaLate
  <2>2. JavaMoved = 0
    <3>1. jRuns = 0 /\ ~ \E q \in JavaProcs : jPc[q] \in JavaEarly
      BY <1>2, <2>1
    <3>2. JavaMoved = jRuns - 0
      BY <3>1 DEF JavaMoved
    <3>3. QED
      BY <3>1, <3>2
  <2>3. QED
    BY <2>2, SizeAssumption, SMT DEF JavaMost
<1>7. Fine(0)
  <2>1. \A i \in Cells : ~ (i < 0)
    BY SizeAssumption DEF Cells
  <2>2. QED
    BY <1>5, <1>6, <2>1, NoHalves DEF Fine
<1>8. ASSUME NEW p \in CppProcs PROVE CppAt(p)
  <2>1. cPc[p] = "off" /\ cPtr[p] = 0
    BY <1>1
  <2>2. QED
    BY <1>7, <2>1 DEF CppAt
<1>9. \A q \in JavaProcs : JavaAt(q)
  BY <1>2 DEF JavaAt, JavaEarly, JavaLate
<1>10. FileOK
  BY <1>1, FileAssumption DEF FileOK
<1>11. QED
  BY <1>3, <1>4, <1>5, <1>6, <1>8, <1>9, <1>10 DEF Inv

LEMMA InvStep ==
  FewProcs /\ Inv /\ [Next]_<<file, cVars, jVars>> => Inv'
<1> SUFFICES ASSUME FewProcs, Inv, [Next]_<<file, cVars, jVars>>
             PROVE  Inv'
  OBVIOUS
<1>1. CASE Cpp!Next /\ UNCHANGED jVars
  <2>1. ~ Cpp!Reboot
    BY DEF FewProcs, Cpp!Reboot
  <2>2. PICK p \in CppProcs : Cpp!Start(p) \/ Cpp!Step(p) \/ Cpp!Crash(p)
    BY <1>1, <2>1 DEF Cpp!Next
  <2>3. QED
    BY <1>1, <2>2, CppDoesSo, CppKeeps DEF JavaRests
<1>2. CASE Java!Next /\ UNCHANGED cVars
  <2>1. PICK q \in JavaProcs : Java!Start(q) \/ Java!Step(q) \/ Java!Crash(q)
    BY <1>2 DEF Java!Next
  <2>2. QED
    BY <1>2, <2>1, JavaDoesSo, JavaKeeps DEF CppRests
<1>3. CASE \E q \in JavaProcs : LoseMapping(q)
  BY <1>3, JavaLoses, JavaKeeps
<1>4. CASE UNCHANGED <<file, cVars, jVars>>
  <2>1. /\ CppTypes /\ JavaTypes /\ JavaRests /\ CppRests /\ file' = file /\ 0 <= CppMost /\ 0 <= JavaMost
    BY <1>4 DEF Inv, JavaRests, CppRests
  <2>2. /\ CppTypes' /\ CppMost' = CppMost /\ cMem' = cMem /\ cPc' = cPc /\ cPtr' = cPtr
        /\ cRun' = cRun /\ cDone' = cDone
    BY <2>1, CppStays
  <2>3. /\ JavaTypes' /\ JavaMost' = JavaMost /\ jMem' = jMem /\ jPc' = jPc /\ jPtr' = jPtr
        /\ jRun' = jRun /\ jDone' = jDone /\ jCurrent' = jCurrent
    BY <2>1, JavaStays DEF JavaRests, jVars
  <2>4. Counts
    BY <2>1, <2>2, <2>3, CountsAre DEF CppTypes, JavaTypes
  <2>5. Grow
    BY <2>2, <2>3, <2>4 DEF Grow, Counts
  <2>6. FileOK'
    BY <2>1, <2>4, <2>5, FileStays
  <2>7. ASSUME NEW r \in CppProcs PROVE CppAt(r)'
    <3>1. CppAt(r)
      BY DEF Inv
    <3>2. FineNext(cPtr'[r])
      BY <2>2, <2>4, <2>5, <3>1, StillFine DEF CppAt
    <3>3. QED
      BY <2>2, <3>1, <3>2, CppAtIs DEF CppAt
  <2>8. ASSUME NEW q \in JavaProcs PROVE JavaAt(q)'
    BY <2>1, <2>2, <2>3 DEF Inv, JavaAt
  <2>9. QED
    BY <2>1, <2>2, <2>3, <2>6, <2>7, <2>8 DEF Inv
<1>5. QED
  BY <1>1, <1>2, <1>3, <1>4 DEF Next

LEMMA InvHolds == FewProcs => (Spec => []Inv)
<1>1. SUFFICES ASSUME FewProcs PROVE Spec => []Inv
  OBVIOUS
<1>2. Init => Inv
  BY <1>1, InvInit
<1>3. Inv /\ [Next]_<<file, cVars, jVars>> => Inv'
  BY <1>1, InvStep
<1>4. QED
  BY <1>2, <1>3, PTL DEF Spec

\* Neither service takes the other's pointer for its own: what either reads as
\* a pointer into its memory has all of its data behind it, wherever the
\* processes were killed, and whoever wrote the file last.
THEOREM PointersAreOwn == FewProcs => (Spec => []OwnPointerOnly)
<1>1. SUFFICES ASSUME FewProcs PROVE Spec => []OwnPointerOnly
  OBVIOUS
<1>2. ASSUME Inv, file \in Int PROVE OwnPointerOnly
  <2>1. /\ file \in Ints /\ Fine(file)
        /\ Lo(file) = 0 => \A i \in Cells : i < Hi(file) => jMem[i] # 0
    BY <1>2, FileAssumption DEF Inv, FileOK
  <2>2. Size < TwoBytes /\ Size \in Int /\ TwoBytes \in Int
    BY SizeAssumption, TwoBytesAssumption, SMT DEF TwoBytes
  <2>3. file \in 0..Size => \A i \in Cells : i < file => cMem[i] # 0
    <3>1. file \in 0..Size => Hi(file) = 0 /\ file = Lo(file)
      BY <1>2, <2>1, <2>2, OnlyLow
    <3>2. QED
      BY <2>1, <3>1 DEF Fine
  <2>4. Java!Committed = Swap(file)
    BY <1>2 DEF Java!Committed, Swap
  <2>5. Swap(file) \in Ints /\ Lo(Swap(file)) = Hi(file) /\ Hi(Swap(file)) = Lo(file)
    BY <2>1, SwapHalves
  <2>6. Swap(file) \in 0..Size => \A i \in Cells : i < Swap(file) => jMem[i] # 0
    <3>1. PICK w \in Ints : w = Swap(file)
      BY <2>5
    <3>2. w \in 0..Size => Hi(w) = 0 /\ w = Lo(w)
      BY <2>2, <3>1, IntIs, OnlyLow
    <3>3. QED
      BY <2>1, <2>5, <3>1, <3>2
  <2>7. QED
    BY <2>3, <2>4, <2>6, SameCells DEF OwnPointerOnly
<1>3. Inv => OwnPointerOnly
  BY <1>2 DEF OwnPointerOnly
<1>4. Spec => []Inv
  BY <1>1, InvHolds
<1>5. QED
  BY <1>3, <1>4, PTL
-----------------------------------------------------------------------------
(* One C++ service that is not killed and whose disk is not full, beside   *)
(* any Java service: its entries stay.                                     *)

Steady ==
  FewProcs /\ (\A p, r \in CppProcs : p = r) /\ CppFaults \subseteq {"map"}

AtEntry(n) == \E k \in Nat : n = DataLen * k

\* The whole entries of the memory m end before n, or at n.
EndsAt(m, n) == \A i \in Cells : m[i] # 0 /\ i < EndOfEntries => i < n

\* While nobody writes, the file, if it is the C++ service's, says where.
FileEnds(f, m) ==
  /\ f \notin Int => EndsAt(m, 0)
  /\ f \in Int /\ Hi(f) = 0 => AtEntry(Lo(f)) /\ EndsAt(m, Lo(f))

\* A run that writes has its pointer, v, from the file, and the cells D.
FileIs(f, v) == (f \notin Int => v = 0) /\ (f \in Int /\ Hi(f) = 0 => f = v)
Writing(m, v, D) ==
  Hi(v) = 0 =>
    /\ AtEntry(Lo(v))
    /\ \A i \in Cells : m[i] # 0 /\ i < EndOfEntries => i < Lo(v) \/ i - Lo(v) \in D
WrittenTo(m, v) == Hi(v) = 0 => AtEntry(Lo(v)) /\ EndsAt(m, Lo(v))

\* What holds of the file, the memory, the pointer and the cells a run has
\* written, wherever it is.
KeptAt(l, f, m, v, D) ==
  /\ l \in {"off", "open", "print", "close"} => FileEnds(f, m)
  /\ l \in {"open", "create", "init"} => v = 0
  /\ l \in {"create", "init"} => EndsAt(m, 0)
  /\ l \in {"map", "write"} => FileIs(f, v) /\ Writing(m, v, D)
  /\ l \in {"truncate", "store"} => WrittenTo(m, v)

Kept == \A p \in CppProcs : KeptAt(cPc[p], file, cMem, cPtr[p], cDone[p])

LEMMA AtEntries ==
  ASSUME NEW n, AtEntry(n)
  PROVE  n \in Nat /\ AtEntry(n + DataLen) /\ (n + DataLen > Size => EndOfEntries <= n)
<1>1. PICK k \in Nat : n = DataLen * k
  BY DEF AtEntry
<1>2. DataLen \in Nat /\ DataLen > 0 /\ Size \in Nat
  BY SizeAssumption
<1>3. n \in Nat
  BY <1>1, <1>2, SMT
<1>4. DataLen * (k + 1) = n + DataLen /\ k + 1 \in Nat
  BY <1>1, Scaled
<1>5. AtEntry(n + DataLen)
  BY <1>4 DEF AtEntry
<1>6. PICK e \in Nat : e = Size \div DataLen /\ e * DataLen <= Size
  <2>1. Size \div DataLen \in Nat
    BY <1>2, SMT
  <2>2. (Size \div DataLen) * DataLen <= Size
    BY <1>2, SMT
  <2>3. QED
    BY <2>1, <2>2
<1>7. EndOfEntries = DataLen * e
  BY <1>2, <1>6 DEF EndOfEntries
<1>8. DataLen * e <= Size
  BY <1>2, <1>6
<1>9. n + DataLen > Size => e <= k
  <2>1. k < e => DataLen * (k + 1) <= DataLen * e
    BY <1>4, Scaled
  <2>2. DataLen * e \in Int
    BY Scaled
  <2>3. QED
    BY <1>2, <1>3, <1>4, <1>8, <2>1, <2>2
<1>10. e <= k => DataLen * e <= DataLen * k
  BY Scaled
<1>11. QED
  BY <1>1, <1>3, <1>5, <1>7, <1>9, <1>10

LEMMA ZeroAtEntry == AtEntry(0)
<1>1. DataLen * 0 = 0
  BY SizeAssumption, SMT
<1>2. QED
  BY <1>1 DEF AtEntry

\* What the Java service does to the file.
FileByJava(f, g) ==
  \/ g = f \/ (f \notin Int /\ (g \notin Int \/ g = 0))
  \/ g \in Int /\ Hi(g) > 0

LEMMA KeptByJava ==
  ASSUME NEW l, NEW f, NEW g, NEW m, NEW v, NEW D, KeptAt(l, f, m, v, D), FileByJava(f, g)
  PROVE  KeptAt(l, g, m, v, D)
<1>1. FileEnds(f, m) => FileEnds(g, m)
  BY NoHalves, ZeroAtEntry DEF FileEnds, FileByJava
<1>2. FileIs(f, v) => FileIs(g, v)
  BY DEF FileIs, FileByJava
<1>3. QED
  BY <1>1, <1>2 DEF KeptAt

LEMMA JavaFiles ==
  ASSUME FewProcs, Inv, CppRests, NEW q \in JavaProcs,
         Java!Start(q) \/ Java!Step(q) \/ Java!Crash(q)
  PROVE  FileByJava(file, file')
<1>1. CASE \E i \in Java!Entry : Java!PutCell(q, i)
  BY <1>1 DEF Java!PutCell, FileByJava
<1>2. CASE Java!OpenPointerFile(q)
  <2>1. file' = Java!Opened \/ file' = file
    BY <1>2 DEF Java!OpenPointerFile
  <2>2. QED
    BY <2>1, FileAssumption DEF Java!Opened, FileByJava
<1>3. CASE Java!MapPointerFile(q)
  <2>1. file' = file \/ (file = Empty /\ file' = 0)
    BY <1>3 DEF Java!MapPointerFile
  <2>2. QED
    BY <2>1, FileAssumption DEF FileByJava
<1>4. CASE Java!AddLength(q)
  BY <1>4, JavaAdds DEF FileByJava
<1>5. CASE \/ Java!Start(q) \/ Java!ReadPointer(q) \/ Java!MapSharedMemory(q)
           \/ Java!PositionBuffer(q) \/ Java!ReadCurrent(q) \/ Java!PrintEntry(q)
           \/ Java!Crash(q)
  <2>1. file' = file
    BY <1>5 DEF Java!Start, Java!ReadPointer, Java!MapSharedMemory, Java!PositionBuffer,
      Java!ReadCurrent, Java!PrintEntry, Java!Crash
  <2>2. QED
    BY <2>1 DEF FileByJava
<1>6. QED
  BY <1>1, <1>2, <1>3, <1>4, <1>5 DEF Java!Step

\* A negative number close to zero has nothing but ones in its high half.
LEMMA NearZero ==
  ASSUME NEW v \in Ints, v < 0, v >= 0 - TwoBytes
  PROVE  Hi(v) = TwoBytes - 1
<1>1. PICK a, b, c, d : Halved(v, d, c, b, a)
  BY HasHalves
<1>b. a \in 0..255 /\ b \in 0..255 /\ c \in 0..255 /\ d \in 0..255
  BY <1>1 DEF Halved, J!HasBytes, J!Bytes
<1>2. /\ v = J!SignedByte(d) * 16777216 + c * 65536 + b * 256 + a
      /\ Hi(v) = c * 256 + d
  BY <1>1 DEF Halved, J!Four
<1>3. PICK s \in Int : s = J!SignedByte(d) /\ ((d < 128 /\ s = d) \/ (d >= 128 /\ s = d - 256))
  <2>1. (d < 128 /\ J!SignedByte(d) = d) \/ (d >= 128 /\ J!SignedByte(d) = d - 256)
    BY <1>b DEF J!SignedByte
  <2>2. J!SignedByte(d) \in Int
    BY <1>b, <2>1
  <2>3. QED
    BY <2>1, <2>2
<1>4. PICK m \in Int : m = v /\ m < 0 /\ m >= 0 - 65536
  BY IntIs, SMT DEF TwoBytes
<1>5. m = s * 16777216 + c * 65536 + b * 256 + a
  BY <1>2, <1>3, <1>4
<1>6. c = 255 /\ d = 255
  BY <1>b, <1>3, <1>4, <1>5, SMT
<1>7. QED
  BY <1>2, <1>6, SMT DEF TwoBytes

\* A pointer that is not in two bytes is not one into the memory.
LEMMA OutsideMemory ==
  ASSUME Inv, NEW v, Fine(v), Hi(v) # 0, NEW i \in Entry
  PROVE  v + i \notin Cells
<1>1. /\ v \in Ints /\ v \in Int /\ Hi(v) <= JavaMost /\ Hi(v) \in Nat /\ ~ (0 <= v /\ v < TwoBytes)
  BY IntIs, OnlyLow, HalvesAre DEF Fine
<1>2. JavaMost < TwoBytes /\ JavaMost # TwoBytes - 1 /\ JavaMost \in Int
  BY JavaMostFits DEF Inv, JavaTypes
<1>3. /\ TwoBytes \in Int /\ Size \in Int /\ DataLen \in Int /\ Size < TwoBytes /\ DataLen < TwoBytes
  BY SizeAssumption, TwoBytesAssumption, SMT DEF TwoBytes
<1>4. Hi(v) # TwoBytes - 1
  BY <1>1, <1>2, <1>3
<1>5. v >= TwoBytes \/ v < 0 - TwoBytes
  BY <1>1, <1>3, <1>4, NearZero
<1>6. QED
  BY <1>1, <1>3, <1>5 DEF Cells, Entry

\* What the C++ service's steps do, that alone of them all keeps its entries.
LEMMA KeptByWrite ==
  ASSUME Inv, NEW p \in CppProcs, KeptAt(cPc[p], file, cMem, cPtr[p], cDone[p]),
         NEW i \in Entry, Cpp!WriteCell(p, i)
  PROVE  /\ KeptAt(cPc'[p], file', cMem', cPtr'[p], cDone'[p])
         /\ \A j \in Cells : cMem[j] # 0 /\ j < EndOfEntries => cMem'[j] = cMem[j]
<1> DEFINE v == cPtr[p]
           a == v + i
<1>1. CppTypes /\ CppAt(p) /\ i \notin cDone[p]
  BY DEF Inv, Cpp!WriteCell
<1>2. /\ cPc[p] = "write" /\ file' = file /\ cPtr' = cPtr
      /\ cMem' = (IF a \in Cells THEN [cMem EXCEPT ![a] = cRun[p]] ELSE cMem)
  BY SameCells DEF Cpp!WriteCell, Cpp!At
<1>3. FileIs(file, v) /\ Writing(cMem, v, cDone[p])
  BY <1>2 DEF KeptAt
<1>4. v \in Ints /\ v \in Int /\ Fine(v) /\ Lo(v) \in Nat
  BY <1>1, IntIs, HalvesAre DEF CppAt, Fine
<1>5. Hi(v) # 0 => a \notin Cells
  BY <1>4, OutsideMemory
<1>6. Hi(v) = 0 => v = Lo(v)
  BY <1>4, OnlyLow
<1>i. i \in Nat /\ i < DataLen
  BY SizeAssumption DEF Entry
<1>7. a \in Cells => ~ (cMem[a] # 0 /\ a < EndOfEntries)
  <2>1. SUFFICES ASSUME a \in Cells, cMem[a] # 0, a < EndOfEntries PROVE FALSE
    OBVIOUS
  <2>2. a < Lo(v) \/ a - Lo(v) \in cDone[p]
    BY <1>3, <1>5, <2>1 DEF Writing
  <2>3. v = Lo(v)
    BY <1>5, <1>6, <2>1
  <2>4. ~ (a < Lo(v)) /\ a - Lo(v) = i
    BY <1>4, <1>i, <2>3
  <2>5. QED
    BY <1>1, <2>2, <2>4
<1>8. \A j \in Cells : cMem[j] # 0 /\ j < EndOfEntries => cMem'[j] = cMem[j]
  BY <1>1, <1>2, <1>7 DEF CppTypes
<1>9. \A j \in Cells : j # a => cMem'[j] = cMem[j]
  BY <1>1, <1>2 DEF CppTypes
<1>10. CASE cPc'[p] = "write"
  <2>1. cDone'[p] = cDone[p] \cup {i}
    <3>1. cDone' = [cDone EXCEPT ![p] = cDone[p] \cup {i}] \/ cPc' = [cPc EXCEPT ![p] = "off"]
      BY DEF Cpp!WriteCell, Cpp!Goto
    <3>2. QED
      BY <1>1, <1>10, <3>1 DEF CppTypes, CppCounts
  <2>2. Writing(cMem', v, cDone'[p])
    <3>1. SUFFICES ASSUME Hi(v) = 0, NEW j \in Cells, cMem'[j] # 0, j < EndOfEntries
                   PROVE  j < Lo(v) \/ j - Lo(v) \in cDone'[p]
      BY <1>3 DEF Writing
    <3>2. CASE j = a
      BY <1>4, <1>6, <1>i, <2>1, <3>1, <3>2
    <3>3. CASE j # a
      BY <1>3, <1>9, <2>1, <3>1, <3>3 DEF Writing
    <3>4. QED
      BY <3>2, <3>3
  <2>3. QED
    BY <1>2, <1>3, <1>8, <1>10, <2>2 DEF KeptAt
<1>11. CASE cPc'[p] # "write"
  <2>1. cPc'[p] = "off" /\ a \notin Cells
    <3>1. cPc' = cPc \/ (cPc' = [cPc EXCEPT ![p] = "off"] /\ a \notin Cells)
      BY SameCells DEF Cpp!WriteCell, Cpp!Goto
    <3>2. QED
      BY <1>1, <1>2, <1>11, <3>1 DEF CppTypes, CppCounts
  <2>2. cMem' = cMem
    BY <1>2, <2>1
  <2>3. Hi(v) = 0 => AtEntry(v) /\ EndOfEntries <= v
    <3>1. SUFFICES ASSUME Hi(v) = 0 PROVE AtEntry(v) /\ EndOfEntries <= v
      OBVIOUS
    <3>2. AtEntry(v) /\ v \in Nat
      BY <1>3, <1>4, <1>6, <3>1 DEF Writing
    <3>3. v + DataLen > Size
      BY <1>i, <2>1, <3>2, SizeAssumption DEF Cells
    <3>4. QED
      BY <3>2, <3>3, AtEntries
  <2>4. EndOfEntries \in Int
    <3>1. Size \div DataLen \in Int
      BY SizeAssumption, SMT
    <3>2. QED
      BY <3>1, SizeAssumption, SMT DEF EndOfEntries
  <2>5. Hi(v) = 0 => AtEntry(v) /\ EndsAt(cMem, v)
    BY <1>4, <2>3, <2>4 DEF EndsAt, Cells
  <2>6. FileEnds(file, cMem)
    BY <1>3, <1>6, <2>5, NoHalves DEF FileEnds, FileIs
  <2>7. QED
    BY <1>2, <1>8, <2>1, <2>2, <2>6 DEF KeptAt
<1>12. QED
  BY <1>10, <1>11
LEMMA KeptByCpp ==
  ASSUME Steady, Inv, JavaRests, NEW p \in CppProcs,
         KeptAt(cPc[p], file, cMem, cPtr[p], cDone[p]),
         Cpp!Start(p) \/ Cpp!Step(p) \/ Cpp!Crash(p)
  PROVE  /\ KeptAt(cPc'[p], file', cMem', cPtr'[p], cDone'[p])
         /\ \A j \in Cells : cMem[j] # 0 /\ j < EndOfEntries => cMem'[j] = cMem[j]
<1> DEFINE v == cPtr[p]
           D == cDone[p]
<1>0. /\ CppTypes /\ CppAt(p) /\ "disk" \notin CppFaults /\ "crash" \notin CppFaults
      /\ file \in Ints \cup {Missing, Empty}
  BY DEF Inv, FileOK, Steady
<1>1. CASE Cpp!Start(p)
  <2>1. /\ cPc[p] = "off" /\ cPc'[p] = "open" /\ cPtr'[p] = 0 /\ file' = file /\ cMem' = cMem
    BY <1>0, <1>1 DEF Cpp!Start, Cpp!At, Cpp!Goto, CppTypes, CppCounts
  <2>2. QED
    BY <2>1 DEF KeptAt
<1>2. CASE Cpp!OpenPointer(p)
  <2>1. cPc[p] = "open" /\ file' = file /\ cMem' = cMem /\ cDone' = cDone
    BY <1>2 DEF Cpp!OpenPointer, Cpp!At
  <2>2. FileEnds(file, cMem) /\ v = 0
    BY <2>1 DEF KeptAt
  <2>3. CASE file = Missing
    <3>1. cPc'[p] = "create" /\ cPtr' = cPtr
      BY <1>0, <1>2, <2>3 DEF Cpp!OpenPointer, Cpp!Goto, CppTypes, CppCounts
    <3>2. EndsAt(cMem, 0)
      BY <2>2, <2>3, FileAssumption DEF FileEnds
    <3>3. QED
      BY <2>1, <2>2, <3>1, <3>2 DEF KeptAt
  <2>4. CASE file = Empty
    <3>1. cPc'[p] = "map" /\ cPtr'[p] = 0
      BY <1>0, <1>2, <2>4, FileAssumption DEF Cpp!OpenPointer, Cpp!Goto, Cpp!Recovered, CppTypes, CppCounts
    <3>2. EndsAt(cMem, 0)
      BY <2>2, <2>4, FileAssumption DEF FileEnds
    <3>3. Writing(cMem, 0, D) /\ FileIs(file, 0)
      BY <2>4, <3>2, FileAssumption, NoHalves, ZeroAtEntry DEF Writing, FileIs, EndsAt
    <3>4. QED
      BY <2>1, <3>1, <3>3 DEF KeptAt
  <2>5. CASE file \in Ints
    <3>1. file \in Int /\ file # Missing /\ file # Empty
      BY <2>5, IntIs, FileAssumption
    <3>2. cPc'[p] = "map" /\ cPtr'[p] = file
      BY <1>0, <1>2, <3>1 DEF Cpp!OpenPointer, Cpp!Goto, Cpp!Recovered, CppTypes, CppCounts
    <3>3. Writing(cMem, file, D) /\ FileIs(file, file)
      BY <2>2, <3>1 DEF Writing, FileIs, FileEnds, EndsAt
    <3>4. QED
      BY <2>1, <3>2, <3>3 DEF KeptAt
  <2>6. QED
    BY <1>0, <2>3, <2>4, <2>5
<1>3. CASE Cpp!CreatePointer(p)
  <2>1. cPc[p] = "create" /\ cPc'[p] = "init" /\ cMem' = cMem /\ cPtr' = cPtr
    BY <1>0, <1>3 DEF Cpp!CreatePointer, Cpp!At, Cpp!Goto, Cpp!local, CppTypes, CppCounts
  <2>2. QED
    BY <2>1 DEF KeptAt
<1>4. CASE Cpp!InitPointer(p)
  <2>1. /\ cPc[p] = "init" /\ cPc'[p] = "map" /\ cMem' = cMem /\ cPtr' = cPtr /\ cDone' = cDone
        /\ file' = 0
    BY <1>0, <1>4 DEF Cpp!InitPointer, Cpp!At, Cpp!Goto, Cpp!local, CppTypes, CppCounts
  <2>2. EndsAt(cMem, 0) /\ v = 0
    BY <2>1 DEF KeptAt
  <2>3. Writing(cMem, 0, D) /\ FileIs(0, 0)
    BY <2>2, NoHalves, ZeroAtEntry DEF Writing, FileIs, EndsAt
  <2>4. QED
    BY <2>1, <2>2, <2>3 DEF KeptAt
<1>5. CASE Cpp!MapMemory(p)
  <2>1. /\ cPc[p] = "map" /\ cMem' = cMem /\ cPtr' = cPtr /\ cDone' = cDone /\ file' = file
        /\ cPc'[p] = "write" \/ cPc'[p] = "off"
    BY <1>0, <1>5 DEF Cpp!MapMemory, Cpp!At, Cpp!Goto, Cpp!local, CppTypes, CppCounts
  <2>2. FileIs(file, v) /\ Writing(cMem, v, D) /\ D = {}
    BY <1>0, <2>1 DEF KeptAt, CppAt
  <2>3. v = 0 => Lo(v) = 0 /\ Hi(v) = 0
    BY NoHalves
  <2>4. FileEnds(file, cMem)
    BY <2>2, <2>3 DEF FileEnds, FileIs, Writing, EndsAt
  <2>5. QED
    BY <2>1, <2>2, <2>4 DEF KeptAt
<1>6. CASE \E i \in Cpp!Entry : Cpp!WriteCell(p, i)
  BY <1>6, KeptByWrite, SameCells
<1>7. CASE Cpp!MovePointer(p)
  <2>1. /\ cPc[p] = "write" /\ D = Entry /\ cMem' = cMem /\ cPc'[p] = "truncate"
        /\ cPtr'[p] = v + DataLen
    BY <1>0, <1>7, SameCells DEF Cpp!MovePointer, Cpp!At, Cpp!Goto, Cpp!Written, Cpp!EndOfEntry,
      CppTypes, CppCounts
  <2>2. Writing(cMem, v, Entry)
    BY <2>1 DEF KeptAt
  <2>3. /\ Lo(v) \in Nat /\ Hi(v + DataLen) = Hi(v) /\ Lo(v + DataLen) = Lo(v) + DataLen
    BY <1>0, <1>7, <2>1, CppMoves, HalvesAre DEF Steady, CppTypes
  <2>4. Hi(v) = 0 => AtEntry(Lo(v) + DataLen)
    BY <2>2, AtEntries DEF Writing
  <2>5. Hi(v) = 0 => EndsAt(cMem, Lo(v) + DataLen)
    <3>1. SUFFICES ASSUME Hi(v) = 0, NEW j \in Cells, cMem[j] # 0, j < EndOfEntries
                   PROVE  j < Lo(v) + DataLen
      BY DEF EndsAt
    <3>2. j < Lo(v) \/ j - Lo(v) \in Entry
      BY <2>2, <3>1 DEF Writing
    <3>3. j \in Int /\ DataLen \in Int /\ DataLen > 0
      BY SizeAssumption DEF Cells
    <3>4. QED
      BY <2>3, <3>2, <3>3 DEF Entry
  <2>6. WrittenTo(cMem, v + DataLen)
    BY <2>3, <2>4, <2>5 DEF WrittenTo
  <2>7. QED
    BY <2>1, <2>6 DEF KeptAt
<1>8. CASE Cpp!TruncatePointer(p)
  <2>1. cPc[p] = "truncate" /\ cPc'[p] = "store" /\ cMem' = cMem /\ cPtr' = cPtr
    BY <1>0, <1>8 DEF Cpp!TruncatePointer, Cpp!At, Cpp!Goto, Cpp!local, CppTypes, CppCounts
  <2>2. QED
    BY <2>1 DEF KeptAt
<1>9. CASE Cpp!StorePointer(p)
  <2>1. cPc[p] = "store" /\ cPc'[p] = "print" /\ cMem' = cMem /\ file' = v
    BY <1>0, <1>9 DEF Cpp!StorePointer, Cpp!At, Cpp!Goto, Cpp!local, CppTypes, CppCounts
  <2>2. WrittenTo(cMem, v) /\ v \in Int
    BY <1>0, <2>1, IntIs DEF KeptAt, CppTypes
  <2>3. FileEnds(v, cMem)
    BY <2>2 DEF FileEnds, WrittenTo
  <2>4. QED
    BY <2>1, <2>3 DEF KeptAt
<1>10. CASE Cpp!PrintMemory(p) \/ Cpp!Close(p)
  <2>1. /\ cPc[p] \in {"print", "close"} /\ cPc'[p] \in {"close", "off"} /\ cMem' = cMem
        /\ file' = file
    BY <1>0, <1>10 DEF Cpp!PrintMemory, Cpp!Close, Cpp!At, Cpp!Goto, Cpp!local, CppTypes, CppCounts
  <2>2. QED
    BY <2>1 DEF KeptAt
<1>11. CASE Cpp!Crash(p)
  BY <1>0, <1>11 DEF Cpp!Crash
<1>12. QED
  BY <1>1, <1>2, <1>3, <1>4, <1>5, <1>6, <1>7, <1>8, <1>9, <1>10, <1>11 DEF Cpp!Step

\* The step, of either service.
StaysPut == \A j \in Cells : cMem[j] # 0 /\ j < EndOfEntries => cMem'[j] = cMem[j]

LEMMA KeptStep ==
  Steady /\ Inv /\ Kept /\ [Next]_<<file, cVars, jVars>> => Kept' /\ StaysPut
<1> SUFFICES ASSUME Steady, Inv, Kept, [Next]_<<file, cVars, jVars>>
             PROVE  Kept' /\ StaysPut
  OBVIOUS
<1>0. FewProcs
  BY DEF Steady
<1>1. ASSUME FileByJava(file, file'), UNCHANGED cVars PROVE Kept' /\ StaysPut
  <2>1. cMem' = cMem /\ cPc' = cPc /\ cPtr' = cPtr /\ cDone' = cDone
    BY <1>1 DEF cVars
  <2>2. ASSUME NEW r \in CppProcs PROVE KeptAt(cPc[r], file', cMem, cPtr[r], cDone[r])
    BY <1>1, KeptByJava DEF Kept
  <2>3. QED
    BY <2>1, <2>2 DEF Kept, StaysPut
<1>2. CASE Cpp!Next /\ UNCHANGED jVars
  <2>1. ~ Cpp!Reboot
    BY <1>0 DEF FewProcs, Cpp!Reboot
  <2>2. PICK p \in CppProcs : Cpp!Start(p) \/ Cpp!Step(p) \/ Cpp!Crash(p)
    BY <1>2, <2>1 DEF Cpp!Next
  <2>3. KeptAt(cPc'[p], file', cMem', cPtr'[p], cDone'[p]) /\ StaysPut
    BY <1>2, <2>2, KeptByCpp DEF Kept, StaysPut, JavaRests
  <2>4. \A r \in CppProcs : r = p
    BY DEF Steady
  <2>5. QED
    BY <2>3, <2>4 DEF Kept
<1>3. CASE Java!Next /\ UNCHANGED cVars
  <2>1. PICK q \in JavaProcs : Java!Start(q) \/ Java!Step(q) \/ Java!Crash(q)
    BY <1>3 DEF Java!Next
  <2>2. QED
    BY <1>0, <1>1, <1>3, <2>1, JavaFiles DEF CppRests
<1>4. CASE \E q \in JavaProcs : LoseMapping(q)
  BY <1>1, <1>4 DEF LoseMapping, FileByJava
<1>5. CASE UNCHANGED <<file, cVars, jVars>>
  BY <1>1, <1>5 DEF FileByJava
<1>6. QED
  BY <1>2, <1>3, <1>4, <1>5 DEF Next

\* Whatever the Java service does to the file, also where it is killed in the
\* middle of it, the C++ service never writes over an entry it has logged.
THEOREM EntriesStay == Steady => (Spec => CppEntriesStay)
<1>1. SUFFICES ASSUME Steady PROVE Spec => CppEntriesStay
  OBVIOUS
<1>2. FewProcs
  BY <1>1 DEF Steady
<1>3. Init => Kept
  <2>1. SUFFICES ASSUME Init PROVE Kept
    OBVIOUS
  <2>2. /\ file = Missing /\ cMem = [i \in Cells |-> 0]
        /\ cPc = [p \in CppProcs |-> "off"]
    BY <2>1, SameCells DEF Init, Cpp!Init
  <2>3. FileEnds(file, cMem)
    BY <2>2, FileAssumption DEF FileEnds, EndsAt
  <2>4. ASSUME NEW p \in CppProcs PROVE KeptAt(cPc[p], file, cMem, cPtr[p], cDone[p])
    <3>1. cPc[p] = "off"
      BY <2>2
    <3>2. QED
      BY <2>3, <3>1 DEF KeptAt
  <2>5. QED
    BY <2>4, Zenon DEF Kept
<1>4. Spec => []Inv
  BY <1>2, InvHolds
<1>5. Inv /\ Kept /\ [Next]_<<file, cVars, jVars>> => Kept'
  BY <1>1, KeptStep
<1>6. Inv /\ Kept /\ [Next]_<<file, cVars, jVars>> => StaysPut
  BY <1>1, KeptStep
<1>7. StaysPut =>
        [\A i \in Cpp!Cells : cMem[i] # 0 /\ i < EndOfEntries => cMem'[i] = cMem[i]]_cMem
  BY SameCells DEF StaysPut
<1>8. QED
  BY <1>3, <1>4, <1>5, <1>6, <1>7, PTL DEF Spec, CppEntriesStay
=============================================================================
