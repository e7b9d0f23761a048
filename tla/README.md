# A verification of *optimizer*

The repository holds four independent ideas for making something faster, each a
small program: a request aggregator (Java), a shared-memory log (C++ and Java), a
vectorised test for Latin strings (C++) and a vectorised UTF-16 to UTF-8 converter
(C++). It also keeps the programs by which its build identified the compilers. This
directory models each of them in TLA+, checks the models with TLC and proves some of
what TLC checks with TLAPS. `PROJECT.json` names, for every definition, the source
lines it models.

## The system

| part | state | operations | what is hard |
|---|---|---|---|
| `Aggregator/RequestAggregator.java` | the map `cache` from request to pending future, the monitor, the futures | `sendRequest`, `batchProcessRequests` | calls from many threads between any two map operations; a counter that lags behind the map; callbacks of `complete` that re-enter the monitor; a backend that throws or answers too little |
| `Aggregator/ExampleUsage.java` | two futures, the callbacks registered on them | two calls, two `thenAccept` | whether a callback comes before or after the completion, and in whose thread it runs |
| `ShareMemory/ShareMemoryForCpp.cpp` | `/my_shared_memory`, `log_pointer.dat`, one process's `logPointer` | read or create the pointer, map, append, replace the pointer, print | death between any two steps, restart of the service and of the machine, writes that fail unseen, two services at once, a full memory |
| `ShareMemory/SharedMemoryExample.java` | `shared_memory.dat`, `log_pointer.dat`, one process's `logPointer` | read the pointer, map, append, add to the mapped pointer, print | the same; the pointer is read twice |
| the two of them in one directory | one `log_pointer.dat`, two memories | as above | two byte orders in one file; a file truncated under a mapping |
| `SIMD/main.cpp`, `SIMD/bazel-simd/main.cpp` | none between calls; the benchmark's string and results | six `isLatin` functions, of which a build vectorises those of its architecture; `generateRandomString`; `main` | where a chunk ends and the byte loop begins; the vector length that a RISC-V machine chooses; the inclusive bounds of the distribution |
| `string_utf16_to_utf8/main.cpp`, scalar | none between calls | `utf16_to_utf8` | boundaries of the encodings, pairs, ill-formed text, byte order |
| the same, AVX2 | a 48-byte stack buffer during a call | `utf16_to_utf8_avx2` | the buffer, the tail, signed lanes, pairs |
| the same, `main` | the generated strings | `generate_random_utf16_string`, three timed conversions | the generator must produce what the converters accept, and the conversions that are compared must do the same work |
| `CMakeCCompilerId.c`, `CMakeCXXCompilerId.cpp` | the strings the build reads out of them | one chain of conditions after another, on the macros of the compiler | compilers that define the macros of others; encodings of versions that change; two long texts that must agree |

The parts share nothing, with one exception: the C++ and the Java service use the
same pointer file. The threads of the aggregator share `cache` and the monitor, and
call each other through the callbacks of the futures. The processes of a
shared-memory service share the two files, and communicate with their own later
runs through them. The build runs the C probe and then the C++ probe.

## What makes each part correct

* Aggregator: a future is completed with the response to its own request, once; it
  is never forgotten; nobody waits for ever; a lookup never finds a future that is
  done. Its client prints each response once, and its own.
* Shared memory: the pointer never covers what has not been written; an entry that
  has been logged is whole and stays as it is, whenever the service dies; neither
  service takes the other's pointer for its own.
* Latin test: all functions give one answer, and return; they are measured on text.
* UTF-16: decoding the output gives back the input; an exception exactly for
  ill-formed input; the vector converter does what the scalar one does and stays
  in its buffer.
* Probes: a compiler is named for what it is, whatever it pretends to be; its version
  comes out as the comments say it is encoded; the two probes agree.

## Modules

### `RequestAggregator`, `FutureBroker`, `ExampleUsage`

A member of `Calls` is one invocation of `sendRequest`, and at the same time the
future it makes. A step is what a thread does between two points at which another
thread can see or disturb it:

| action | code |
|---|---|
| `SendRequest` | `cache.get` and the early return |
| `Put` | `cache.put`: the mapping becomes visible |
| `Count` | the end of `put`, where `ConcurrentHashMap` adds to its element count |
| `Enter` | taking the monitor, `isEmpty()` (which reads the count) and its early return |
| `Copy` | `new ArrayList<>(requests)`, with a weakly consistent iterator |
| `Apply` | `batchFunction.apply`; with `MayFail` it may throw or return too few |
| `Remove`, `ResponseMissing` | `responses.get(i)`, which may throw, and `cache.remove` |
| `Complete`, `Resume` | `complete(response)`: the response is set, then callbacks run |
| `Return` | the end of the loop, and `sendRequest` returning its future |

A callback may call `sendRequest` again, in the thread that holds the monitor:
such a call has the completing call as its `parent`, and the parent goes on when
its children have ended. The model lets a callback run only if some caller had been
given the future before it was completed, since nobody else could register one.

`FutureBroker` is what a caller may rely on: a future is asked for, perhaps joined by
others, then answered with the response to its request or given up, and never changes
after that. The aggregator implements it (`BrokersFutures`); what the mapping hides is
the map, the monitor and the batches.

`ExampleUsage` composes the aggregator with the example's `main`, whose statements are
`MainCalls` and `ThenAccept`. A callback runs at once if its future is complete, and
otherwise inside `Complete`, in the thread that holds the monitor. `users` says
whether main has the aggregator to itself, as in the repository, or shares it, or is
absent.

### `ShareMemoryForCpp`, `SharedMemoryExample`, `DurableLog`, `SharedLogPointer`

One module per program, one action per system call or store; `memcpy` and `put`
are one action per cell, in any order. A process is started again after every end
of a run. A memory cell records the number of the run that wrote it; the code writes
the same text each time, so the number is what tells two entries apart.
`Faults` chooses what may go wrong: death at any step (`crash`), a write to the
pointer file that fails unnoticed (`disk`), a mapping that fails (`map`, `io`), a
restart of the machine (`reboot`), after which the C++ memory object is new and the
pointer file is not. A store past the end of the C++ memory object is undefined; the
model lets it be lost or kill the process.

Some properties speak of runs that do not overlap, or make an exception of what a
restart of the machine lost. The history variables `alone`, `wiped` and `whole` (the
Java runs that have written their whole entry) record that, and no action reads them.

The pointer file holds a number as a little-endian machine reads it. The Java module
turns it round when it reads and writes (`BigEndian`), with the sign of a Java `int`.
`SharedLogPointer` is both modules on one variable `file`, each with a memory of its
own. Only there can a Java process find the file truncated under its mapping
(`LoseMapping`).

`DurableLog` is what `README.md` of the repository promises: a sequence of entries
that only grows (`Spec`), or one whose pointer may be lost as a whole (`LossySpec`).
The refinement mapping of both services is the entries below the pointer, each by the
run that wrote it; in C++ a pointer that is being replaced in its file counts as the
old one, and after a restart of the machine the log begins behind the last hole.

### `IsLatin`, `LatinBenchmark`

One call of one function. `Init` chooses the function and the build; a function that
the build has no vectors for is the baseline. The chunks the four fixed-width loops
allow are at most one; `vsetvl` allows any length that the RISC-V specification does.
`LatinBenchmark` is the benchmark's `main`: it draws a string, letter by letter, and
calls three of the functions on it in turn. In its instance the functions may also be
called by others with any string.

### `Utf16`, `Utf16ToUtf8`, `Utf16ToUtf8Avx2`, `Utf16Benchmark`

`Utf16` has the arithmetic of the code, and a decoder of UTF-8 and the definition of
well-formed UTF-16 written from the Unicode standard, for comparison.
`Utf16ToUtf8` is the scalar loop, an iteration a step. `Utf16ToUtf8Avx2` writes a
block unit by unit into the buffer, so that the buffer's length is visible, and is
mapped to the scalar module by counting the buffer as written. Its two branches for
blocks that are not ASCII are the same code and one branch of the model.
`Utf16Benchmark` composes the generator of `main` with the scalar converter, which
other callers may give any other string, and then with the vector converter
(`ConvertAgain`).

### `Preprocessor`, `CompilerMachine`, `CMakeCCompilerId`, `CMakeCXXCompilerId`, `CompilerProbes`

A compiler, to the probes, is the macros it predefines (`macro`). `Preprocessor` has
chains of `#if .. #elif`, of which the first condition that holds decides, and the
macros `DEC` and `HEX`. `CompilerMachine` is the text on platforms and architectures,
which both probes contain word for word. Each probe has a module of its own although
they are alike: they are two texts that can diverge, and `ProbesAgree` is about that.
A probe's actions are its sections from top to bottom; `info` collects the strings it
defines, `require` the names its `main` refers to. A string of version components is a
sequence of digit sequences, and a component that is not defined is `<<>>`.

`CompilerProbes` supplies the compilers, which are external. What macros each kind has
comes from the conditions of the probes. How a release is encoded in them comes from the
comments beside the formulas (`VRP`, `0xVRRPP`) and from the names of macros that hold
one component each, not from the formulas that decode it. Six kinds have neither
(`Unexplained`): their macros hold some number, and `VersionRead` says nothing of them.
Nor does it of Watcom, whose comment and formulas disagree. A compiler may also have the
macros of another (`Pretended`), of GNU, of MSVC, or of Clang, which itself has those of
GNU; Intel's may have those of GNU and MSVC, since their sections provide for both, one
definition replacing the other. Who pretends (`Roles`) is an assumption, not something
the source says: a compiler late in the chain, which would be taken for those before it,
does not. The three build directories hold the same two files; one copy is mapped.

## Runs

| run | instance | what it shows |
|---|---|---|
| `agg_client` | 3 calls, 2 requests, failing backend; the client alone, beside others, or absent | futures are in one place, answered rightly, never stranded except by a failed batch; the aggregator is a broker of futures; the client prints rightly; calls end and futures are answered unless replaced or their batch failed |
| `agg_replaced` | 2 calls, 1 request | deviation 1 |
| `cpp_service` | 2 services, 4 runs, entries of 2 cells, memory of 7, all faults | the pointer is never ahead of the data but for what a restart of the machine lost, although the last entry does not fit; runs that do not overlap implement the log that can be lost only as a whole, with whole entries |
| `cpp_crash` | 1 service, 3 runs | deviation 2 |
| `java_service` | 2 services, 4 runs, room for 2 entries and a half | runs that do not overlap implement the durable log; those that do never count more entries than were written, nor put one where it does not fit; every entry kept or printed is whole |
| `java_crash` | 1 service, 2 runs | deviation 3 |
| `shared_pointer` | a C++ and a Java service, 4 runs each, Java crashing | neither takes the other's pointer for its own; whole C++ entries stay |
| `latin` | vectors of 64, 32, 16, 16 and up to 16 bytes, strings around the multiples of them, the benchmark's string of 33 | every function agrees with the definition and returns; the benchmark measures text and ends |
| `utf16` | each unit, all strings up to 3 edge units, generated strings of 4 or 5 units | round trip, exceptions, the generator; when the two conversions the benchmark times agree |
| `avx2` | 16 lanes, 48 bytes, strings of up to two blocks and a unit, with and without pairs | the vector converter implements the scalar one where it can, and keeps every unit unless a block is misjudged |
| `avx2_signed` | one block | deviation 4 |
| `compiler_probes` | 42 kinds of compiler, 471 installations | names, versions, simulated compilers, platforms and language versions, that `main` refers to what is defined and to nothing else, and that the probes agree |

Why the bounds are enough. Three calls let two of them race for a request while a
third runs the batch or is made by a callback of it; two requests let a batch fail on
one and not the other. Two services and four runs let a service that has been
restarted race with one that has not; two cells are the least that can be torn; four
Java runs fill the memory and go on, and three C++ entries fill all but one cell of
theirs, so that the fourth runs past the end. The strings for the vector code have 0, 1
or 2 blocks and every kind of tail, with the odd unit at the edges of blocks. The
benchmark of the UTF-16 converters runs with two lanes, so that its short strings fill
blocks; the real sixteen are those of `avx2`. The releases of each compiler lie on both
sides of every limit at which its encoding changes. Deadlock is not checked: every one
of these systems stops when its calls, runs or sections have ended.

`TypeOK` is among the properties of a run where a plausible mistake in the code would
break it. That of the Java service and that of the scalar converter say what their
variables hold, are true in `java_service` and `utf16` too, and are proved.

Fairness. `RequestAggregator` assumes that a thread that can run does so, and that
the backend returns or throws (weak fairness of each call's steps; the Java monitor
promises no more, and weak fairness is enough here because the number of calls is
finite). `ExampleUsage` adds that its main thread runs; nobody else is obliged to make a
call. `IsLatin` and `LatinBenchmark` assume that their one thread runs. Nothing is
assumed of the services and the probes, whose properties are all of safety.

## Proofs

TLAPS checks every theorem from the specification, for all values of the constants
that satisfy the `ASSUME`s.

* `RequestAggregatorProofs!Typing`: `Spec => []TypeOK`. Types alone are not
  inductive: that a loop index stays within one of its list needs to know that it is
  1 whenever the list is copied and within the list while a future is being completed,
  and that a call beyond its first step has a request (`CallOK`).
* `RequestAggregatorProofs!LookupFindsPending`, `AnswersMatch` and
  `FuturesAreConserved`: `Spec => []HitsArePending`, `[]RightAnswer` and `[]OnePlace`,
  for any finite sets of calls and requests, with a failing backend and re-entrant
  callbacks. The three hold only together, and with one fact more (`HandsOver`: what a
  batch has removed from the map was made for the request its loop is at). That the
  places are disjoint makes `Complete` find its future incomplete; that `HitsArePending`
  ties a future to one key makes `Remove` and `Put` take it out of `Mapped` altogether;
  that a call has no place before its `Put` lets it choose its request freely. Steps
  that move no future are one lemma (`QuietStep`).
* `RequestAggregatorProofs!NothingStranded`: `Spec => []NoStranding`. The
  strengthening is `Counter`: the map's counter is the number of mapped requests less
  the puts that have not counted theirs. So a call that finds the counter at zero and
  skips the batch either finds an empty map or leaves a call behind that is still to
  enter (`EmptyCounter`); no other step takes a mapped request from the call that
  answers for it.
* `RequestAggregatorProofs!OnlyCallbacksTake`, `ReturnsAreAnswered` and
  `ImplementsBroker`: `Spec => []RemovalFindsFuture`, `Spec => ReturnsAnswered` and
  `Spec => BrokersFutures`. `Monitor` says that a call made by a callback has its caller
  wait in that callback, and that one call at a time has its turn in the monitor. So
  what a batch has yet to come to (`Ahead`) stays mapped, unless its own callbacks made
  calls, and its own future is among it as long as that is mapped (`Batches`). With
  `Counter`, a call that returns its future unanswered would have left it in the map
  without a batch, or in the hand of another call that has its turn too. The refinement
  needs nothing further: by `Places` and `Monitor` each step opens, closes, answers or
  drops a future of the broker, or leaves all as they are.
* `RequestAggregatorProofs!ClientUsesAggregator` and `LinesAreRight`: `ClientSpec => Spec` of
  the aggregator, so every theorem above holds in the client's system too, and
  `ClientSpec => []PrintsRightly`. That a line is the response to its own request
  follows from `RightAnswer`, and that two calls of main are for its two requests
  (`CallsMade`). That no line is printed twice: a callback that has printed does not
  wait any more (`Printing`). That main prints in order when it is alone: its calls then
  follow one another, meet no other call, lose no future, and return their own,
  answered (`SoloCalls`, which rests on the aggregator's invariants).
* `ShareMemoryForCppProofs!Typing`, `PointerNeverAhead` and `PrintsOwnEntry`: `Spec =>
  []TypeOK`, `[]NoHoles` and `[]ReadsBack`, for any number of services and any sizes. The
  invariant adds that what `memcpy` has written of an entry is in the memory and that
  no run writes NUL; nothing but a restart of the machine takes a cell back to NUL, and
  that notes what it takes, so a pointer stays justified. `FirstNul`, that the C string
  printed has an end, rests on the well-foundedness of the natural numbers.
* `ShareMemoryForCppProofs!EntriesAreWhole` and `LogKeptOrLost`: `Spec => []NoTornEntry`
  and `Spec => KeepsLogOrLosesPointer`. As long as runs have not overlapped (`AloneInv`),
  one process runs at a time; the pointer counts entries, one for each earlier run at
  most; the cells of one entry below it hold one number; and the process knows the
  pointer that the file had and has written what it has done of its entry. A step then
  does one of three things: it changes nothing below the pointer (`LogStays`), it moves
  the pointer over a whole entry (`LogAfterMove`), or it loses the pointer or the memory
  (`LogGoes`), and the log stays, grows by one entry, or is empty. The last entry may be
  cut off by the end of the memory; the log beyond that does not grow.
* `SharedMemoryExampleProofs!Typing` and `CountsOnlyWhole`: `Spec => []TypeOK` and
  `[]CountsWholeEntries`, for services that overlap in any way, and any sizes that are
  Java ints (`IntAssumption`). Turning the bytes of an `int` round gives an `int` and
  gives it back when it is turned round again (lemmas on `BigEndian`): this and the
  wrap-around of the sum are the only arithmetic of the program that is not obvious.
  The pointer counts settled runs only, those that have written their entry and have
  done, or will not do, their addition. A run that is between reading and writing the
  pointer is not among them, so what another one adds meanwhile cannot make it wrong.
* `SharedMemoryExampleProofs!PointerStaysInBounds`, `EntriesAreWhole` and `LogIsKept`:
  `Spec => []PointerInBounds`, `[]NoTornEntry` and `KeepsLog`. As in C++, a run that
  overlaps no other has the pointer that is in the file. The second copy of the
  pointer, which the program reads at the end, is then the first.
* `IsLatinProofs!Typing` and `EveryKernelAgrees`: `Spec => []TypeOK` and
  `[]SameAnswer`, for all strings and vector lengths. The loop invariant is that
  everything before `i` is Latin.
* `IsLatinProofs!EveryKernelAgreesInMain` and `OnlyTextIsMeasured`: `BenchmarkSpec =>
  []SameAnswer` and `[]OnlyText`, the second being the safety half of `MeasuresText`, for
  any charset whose one NUL is at its end (`CharsetAssumption`, a C string literal) and
  any length. A call of `main` begins the loop invariant anew.
* `Utf16Proofs` holds the lemmas on decoding. What a recursive function computes for
  every string is an induction over data, which the library's theorems offer only with
  an operator as a parameter. It is done here by the least element of a set: of the
  lengths at which a statement fails there would be a first one (`LeastElement`,
  `SetInduction`). So the decoder and the encoder are total functions on strings of any
  length (`DecoderExists`, `WriterExists`), and one sequence of bytes more is one code
  point more, which is one unit or one pair more (`DecodeAppend`, `Utf16Append`).
* `Utf16ToUtf8Proofs!Typing`, `ThrowsExactly` and `TextComesBack`: `Spec => []TypeOK`,
  `[]ThrowsIffIllFormed` and `[]RoundTrip`, for strings of any length and both byte
  orders. `Paired`: the prefix that has been read is well formed and never ends inside a
  pair; so the unit at which the loop throws has no partner in the
  whole string. `Carried`: what has been written decodes to code points whose UTF-16 is
  the prefix that has been read.
* `Utf16ToUtf8Proofs!ThrowsExactlyInMain`, `TextComesBackInMain` and `DrawnTextSurvives`:
  the same two of `BenchmarkSpec`, and `BenchmarkSpec => []TextSurvives`, for any set of
  numbers up to 0x10FFFF that may be drawn, surrogates included, and any length. `Drawn` says where each drawn character ends in the string; the scalar
  converter stops only at such places.
* `Utf16ToUtf8Avx2Proofs!Typing` and `BufferNeverOverflows`: `Spec => []TypeOK` and
  `[]BufferFits`, for any number of lanes with three bytes each. In a block the buffer
  holds at most three bytes a lane; in the tail, three for each unit since a point from
  which less than a block was left.
* `Utf16ToUtf8Avx2Proofs!ImplementsScalar`: `Spec => RefinesScalar`, the vector
  converter implements the scalar one. Blocks begin at multiples of the lanes
  (`Blocks`), so a block that the comparison takes for ASCII is one of those that
  `NoneMisjudged` speaks of, and a lane that is not a surrogate writes what the scalar
  loop writes for that unit (`LaneIsUnit`).
* `Utf16ToUtf8Avx2Proofs!UnitsComeBackUnlessMisjudged`: `Spec => []UnitsSurvive`, for
  every string, with surrogates or not. `Layout` says where the bytes of each unit are,
  through blocks, buffer and tail. If no unit was cut to a byte, the units come back from
  their own bytes, one after another (`UnitsComeBack`, from the last byte to the first).
  The other half must exclude that a byte and the ones behind it make up for what was
  cut. Bytes are weighed for it (`Heavy`): what is taken for a unit is never lighter than
  what was written for that unit, and heavier if the unit was cut, but all the bytes
  weigh what they weigh (`NothingTruncated`). A block is misjudged exactly if it cuts a
  unit (`MisjudgedTruncates`).
* `Utf16ToUtf8Proofs!BothConversionsAgree`: `BenchmarkSpec => []ConversionsAgree`, for any
  drawn numbers and any lanes that fit the buffer (`VectorAssumption`). What the scalar
  converter writes is a piece for each unit, two bytes for each half of a pair (`Piled`),
  and in it 0xED is followed by a byte below 0xA0 (`Followed`). The three bytes of a
  surrogate on its own are not, so where the results agree the vector converter has
  written none (`NoHalfWritten`). Its pieces are then the scalar ones, or shorter where it
  cut a unit, and shorter pieces make fewer bytes (`NoneShorter`). `Mirrored` ties the pairs in the string to what was
  drawn, and `SecondConversion` carries the vector converter's own invariants over to a
  run of it inside `main`.
* `SharedLogPointerProofs!PointersAreOwn`: `Spec => []OwnPointerOnly`, for any number of
  C++ services that race and fail, at most one Java service that may be killed anywhere,
  and no restart of the machine (`FewProcs`). Both conditions are needed: two Java
  services push the pointer past what is written, and a restart takes the C++ memory away
  under a pointer that stays. An `int` is two halves, the low one where C++ counts and the
  high one where Java does. Turning the bytes round exchanges them (`SwapHalves`), and an
  addition stays in one (`AddToLow`), because neither count grows past the entries of the
  runs that have moved it, all of which fit in two bytes (`TwoBytesAssumption`: memories
  of 1024 bytes, entries of 21, up to 3120 runs). So a number that lies in the memory of
  one service has nothing of the other's in it, and what it counts has been written
  (`Inv`).
* `SharedLogPointerProofs!EntriesStay`: `Spec => CppEntriesStay`, for one C++ service that
  does not lose its own pointer by a crash or a full disk, which is deviation 2
  (`Steady`), beside a Java service that may be killed anywhere. Java leaves the file as
  it is, or empty, or holding zero, or a number with something in the high half
  (`FileByJava`); the file, if it holds a pointer of C++, says where the whole entries
  of C++ end (`Kept`); everything else C++ cannot read, cannot use, or takes for the
  beginning of an empty log only where it has none.

Model-checked only:

* liveness (`CallsFinish`, `AnsweredUnlessDropped`, `PrintsUnlessDropped`, `Returns`, and
  the part of `MeasuresText` that is about the end of `main`), which is beyond the
  prover;
* the probes, whose properties are about finitely many compilers, all of which TLC
  tries.

## Deviations found

1. Two calls that both miss the cache both put: the second replaces the first future,
   which is never completed (`agg_replaced`).
2. A C++ service killed between the truncation and the write of the pointer file
   loses the pointer; logged entries are written over (`cpp_crash`).
3. A Java service killed between the creation and the mapping of the pointer file
   leaves it empty, and no later run gets past `EOFException` (`java_crash`).
4. The vector converter compares units as signed numbers, so it truncates a block
   whose only units that are not ASCII are 0x80 or from 0x8000 on (`avx2_signed`).

Seen while modelling, and not shown by a run of their own:

* The C++ service writes past the end of the memory when an entry no longer fits (part
  of `cpp_service`).
* Its pointer file survives a restart of the machine and its memory object does not: the
  next entry is put behind a hole, and what is printed ends at the hole (the exceptions
  in `NoHoles` and `ReadsBack`).
* Two Java services add to the pointer twice for entries they put in one place, which
  leaves a hole (why `KeepsLog` and `NoTornEntry` of the Java module speak of runs that do
  not overlap). With three, the pointer can pass the end of the memory by more than an
  entry (why the first half of `PointerInBounds` does too); the next `position` throws.
* A C++ run that is killed where the entry no longer fits leaves the pointer where it was,
  and the next one writes the cut-off entry again (the exception in `CppEntriesStay`). One
  that is not killed moves the pointer on, past the end of the memory; after 3120 such
  runs it would reach the bytes of the file in which Java has its pointer (why
  `SharedLogPointer` has `TwoBytesAssumption`).
* On one pointer file each service stops, writes nowhere, or begins anew because of the
  other's pointer, and the C++ service's second `open` can truncate a file that Java has
  created since its first.
* The vector converter turns a surrogate pair into two three-byte sequences, so the two
  conversions the benchmark compares do not do the same work (`ConversionsAgree`).
* The requests of a batch that threw stay in the cache, for later calls to join (the
  exception in `NoStranding`).
* A first `open`, or a `read`, of an existing pointer file that fails is taken for a missing
  or an empty file: the C++ service begins at 0 over the entries that are there. Neither is
  among the model's `Faults`, so its properties say nothing of such a failure.
* Of Watcom's version the comment says `VVRR` and the formulas read `VVRP`: by the comment
  10.6 is 1006, and comes out as 10.0.6 (`CMakeCCompilerId.c:130`; why `VersionRead` leaves
  Watcom out).
* The probes' `main` does not refer to the version string of a Fujitsu compiler that has
  one ready, to an internal version that is a string, nor to `qnxnto`; `HEX` gives
  characters beyond `9` for digits above nine, so it reads binary-coded decimals only.

## Not modelled

`SIMD/simd.cpp` and `SIMD/simd.h`: every line is a comment. `WORKSPACE`, `BUILD` and
`CMakeLists.txt` describe the build and have no state. The other two copies of the two
probes are the same text. Of the benchmarks, the clock, the wording of the output and
the library converter, which has no effect on the rest; `latin_lookup`, which nothing
reads.

## Plan

Done, in this order: the aggregator and its runs, the two services with `DurableLog`,
the Latin test, the converters and their benchmark, and the first theorems; then
`FutureBroker` and the example client, restarts of the machine, overlapping Java
services, the shared pointer file, the Latin benchmark, pairs in the vector converter,
and the compiler probes.

After that the proofs: the aggregator's remaining safety properties and its refinement
of the broker, the client, the logs of both services, the scalar converter and the
benchmark's text, and the refinement of the scalar converter by the vector one; at last
when the two conversions of the benchmark agree, when the vector converter keeps its
units, and the shared pointer file.

With that every safety property that the runs check has a theorem, but for those of the
probes; what is left to TLC is named above. Open: whether `EntriesStay` holds beside
several Java services too, and with memories as large as an `int` allows if the two
pointers are told apart in another way than by their halves.
