-------------------------- MODULE RequestAggregator --------------------------
(***************************************************************************)
(* Aggregator/RequestAggregator.java: concurrent calls of sendRequest on   *)
(* one aggregator.  A call is named by a member of Calls and makes at most *)
(* one CompletableFuture, so the call also names that future.  The request *)
(* values are Keys; the backend's response to request k is written k.      *)
(*                                                                         *)
(* A step is what one thread does between two points at which another      *)
(* thread can observe or disturb it: an operation on the ConcurrentHashMap *)
(* `cache', the acquisition of the monitor, the return of batchFunction,   *)
(* the completion of a future.                                             *)
(***************************************************************************)
EXTENDS Integers, Sequences, FiniteSets

CONSTANTS Keys,      \* the request values, up to equals()
          Calls,     \* the invocations of sendRequest
          None,      \* Java's null
          MayFail    \* whether batchFunction may throw or answer too little

ASSUME CallsAssumption == IsFiniteSet(Calls) /\ None \notin Calls
ASSUME KeysAssumption == IsFiniteSet(Keys) /\ None \notin Keys
ASSUME MayFailAssumption == MayFail \in BOOLEAN

VARIABLES
  cache,   \* request -> the pending future it is mapped to, or None
  size,    \* the map's element counter, updated after the insertion it counts
  answer,  \* future -> the response it was completed with, or None
  pc, key, ret,  \* per call: where it is, its argument, the future it returned
  parent,  \* the call whose completion callback made this call, or None
  seen,    \* the keys present when the copy of keySet() began
  list,    \* requestList
  got,     \* responses.size()
  idx,     \* i + 1
  taken,   \* responseFuture, once removed from the map
  lost     \* history: the futures whose mapping a put has replaced

callVars == <<key, parent>>
batchVars == <<seen, list, got, idx, taken>>
vars == <<cache, size, answer, pc, key, ret, parent,
          seen, list, got, idx, taken, lost>>

Finished == {"returned", "thrown"}
Critical == {"copy", "apply", "loop", "complete", "callback"}
Cached == {k \in Keys : cache[k] # None}

Init ==
  /\ cache = [k \in Keys |-> None] /\ size = 0 /\ lost = {}
  /\ answer = [c \in Calls |-> None] /\ pc = [c \in Calls |-> "idle"]
  /\ key = [c \in Calls |-> None] /\ ret = [c \in Calls |-> None]
  /\ parent = [c \in Calls |-> None] /\ seen = [c \in Calls |-> {}]
  /\ list = [c \in Calls |-> <<>>] /\ got = [c \in Calls |-> 0]
  /\ idx = [c \in Calls |-> 1] /\ taken = [c \in Calls |-> None]

Goto(c, l) == pc' = [pc EXCEPT ![c] = l]

\* The end of a call that made a future: sendRequest hands it to the caller.
Finish(c) == Goto(c, "returned") /\ ret' = [ret EXCEPT ![c] = c]

\* A call waits for the calls its own callback has made.
Running(c) == \A d \in Calls : parent[d] = c => pc[d] \in Finished

\* complete() runs the callbacks of the future, in the completing thread, if
\* some caller already held the future and could register one.
RunsCallback(p) ==
  /\ pc[p] = "callback" /\ Running(p)
  /\ \E d \in Calls : ret[d] = taken[p]

-----------------------------------------------------------------------------
(* sendRequest                                                             *)

\* The call, made by a thread of its own (p = None) or by a callback of the
\* call p, looks its request up and returns a pending future it finds.
SendRequest(c, k, p) ==
  /\ pc[c] = "idle"
  /\ p # None => RunsCallback(p)
  /\ key' = [key EXCEPT ![c] = k]
  /\ parent' = [parent EXCEPT ![c] = p]
  /\ \/ cache[k] # None /\ ret' = [ret EXCEPT ![c] = cache[k]] /\ Goto(c, "returned")
     \/ cache[k] = None /\ Goto(c, "put") /\ UNCHANGED ret
  /\ UNCHANGED <<cache, size, answer, batchVars, lost>>

AfterPutBug(c) == IF cache[key[c]] = None THEN [cache EXCEPT ![key[c]] = c] ELSE cache
AfterPut(c) == [cache EXCEPT ![key[c]] = c]

\* put replaces whatever was mapped since the lookup.  It counts only a
\* mapping that is new, and only after the mapping has become visible.
Put(c) ==
  /\ pc[c] = "put"
  /\ cache' = AfterPut(c)
  /\ lost' = lost \cup ({cache[key[c]]} \ {None})
  /\ Goto(c, IF cache[key[c]] = None THEN "count" ELSE "enter")
  /\ UNCHANGED <<size, answer, ret, callVars, batchVars>>

Count(c) ==
  /\ pc[c] = "count"
  /\ size' = size + 1
  /\ Goto(c, "enter")
  /\ UNCHANGED <<cache, answer, ret, callVars, batchVars, lost>>

-----------------------------------------------------------------------------
(* batchProcessRequests                                                    *)

\* The monitor is re-entrant: a call made by a callback runs in the thread
\* that is inside the monitor already.
MonitorFreeBug(c) == TRUE
NotReentrantBug(c) == \A d \in Calls : pc[d] \notin Critical
MonitorFree(c) == parent[c] # None \/ \A d \in Calls : pc[d] \notin Critical

\* ConcurrentHashMap.isEmpty() reads the counter, not the table.
IsEmptyBug == size <= 1
IsEmpty == size <= 0

Enter(c) ==
  /\ pc[c] = "enter" /\ MonitorFree(c)
  /\ \/ IsEmpty /\ Finish(c) /\ UNCHANGED seen
     \/ /\ ~IsEmpty
        /\ Goto(c, "copy") /\ seen' = [seen EXCEPT ![c] = Cached] /\ UNCHANGED ret
  /\ UNCHANGED <<cache, size, answer, callVars, list, got, idx, taken, lost>>

Orderings(S) == {s \in [1..Cardinality(S) -> S] : \A k \in S : \E n \in DOMAIN s : s[n] = k}

\* The key set's iterator is weakly consistent: it returns every key present
\* from beginning to end, and may or may not return one inserted meanwhile.
Copy(c) ==
  /\ pc[c] = "copy"
  /\ \E S \in SUBSET Cached :
       seen[c] \subseteq S /\ \E s \in Orderings(S) : list' = [list EXCEPT ![c] = s]
  /\ Goto(c, "apply")
  /\ UNCHANGED <<cache, size, answer, ret, callVars, seen, got, idx, taken, lost>>

\* batchFunction returns one response per request, in order; if MayFail it
\* may also throw, or return fewer.
Apply(c) ==
  /\ pc[c] = "apply"
  /\ \/ \E n \in IF MayFail THEN 0..Len(list[c]) ELSE {Len(list[c])} :
          got' = [got EXCEPT ![c] = n] /\ Goto(c, "loop")
     \/ MayFail /\ Goto(c, "thrown") /\ UNCHANGED got
  /\ UNCHANGED <<cache, size, answer, ret, callVars, seen, list, idx, taken, lost>>

NextIndexBug(c) == [idx EXCEPT ![c] = @ + 2]
NextIndex(c) == [idx EXCEPT ![c] = @ + 1]

AfterRemoveBug(k) == cache
AfterRemove(k) == [cache EXCEPT ![k] = None]

\* cache.remove(request), once responses.get(i) has succeeded; a request
\* that is no longer mapped is passed over.
Remove(c) ==
  LET k == list[c][idx[c]] IN
  /\ pc[c] = "loop" /\ idx[c] <= Len(list[c]) /\ idx[c] <= got[c]
  /\ cache' = AfterRemove(k)
  /\ \/ /\ cache[k] # None
        /\ size' = size - 1 /\ taken' = [taken EXCEPT ![c] = cache[k]]
        /\ Goto(c, "complete") /\ UNCHANGED idx
     \/ cache[k] = None /\ idx' = NextIndex(c) /\ UNCHANGED <<size, taken, pc>>
  /\ UNCHANGED <<answer, ret, callVars, seen, list, got, lost>>

\* responses.get(i) throws IndexOutOfBoundsException out of sendRequest.
ResponseMissing(c) ==
  /\ pc[c] = "loop" /\ idx[c] <= Len(list[c]) /\ got[c] < idx[c]
  /\ Goto(c, "thrown")
  /\ UNCHANGED <<cache, size, answer, ret, callVars, batchVars, lost>>

ResponseBug(c) == list[c][1]
Response(c) == list[c][idx[c]]

\* complete(response) has no effect on a future that is already complete.
Complete(c) ==
  /\ pc[c] = "complete"
  /\ answer' = [answer EXCEPT ![taken[c]] = IF @ = None THEN Response(c) ELSE @]
  /\ Goto(c, "callback")
  /\ UNCHANGED <<cache, size, ret, callVars, batchVars, lost>>

Resume(c) ==
  /\ pc[c] = "callback" /\ Running(c)
  /\ idx' = NextIndex(c) /\ taken' = [taken EXCEPT ![c] = None]
  /\ Goto(c, "loop")
  /\ UNCHANGED <<cache, size, answer, ret, callVars, seen, list, got, lost>>

Return(c) ==
  /\ pc[c] = "loop" /\ idx[c] > Len(list[c])
  /\ Finish(c)
  /\ UNCHANGED <<cache, size, answer, callVars, batchVars, lost>>

-----------------------------------------------------------------------------
Step(c) ==
  \/ Put(c) \/ Count(c) \/ Enter(c) \/ Copy(c) \/ Apply(c) \/ Remove(c)
  \/ ResponseMissing(c) \/ Complete(c) \/ Resume(c) \/ Return(c)

Next ==
  \E c \in Calls :
    Step(c) \/ \E k \in Keys, p \in Calls \cup {None} : SendRequest(c, k, p)

Spec == Init /\ [][Next]_vars

\* A thread that can run is run, and the backend answers or fails; nobody is
\* obliged to call sendRequest.
FairSpec == Spec /\ \A c \in Calls : WF_vars(Step(c))

-----------------------------------------------------------------------------
(* Properties                                                              *)

TypeOK ==
  /\ cache \in [Keys -> Calls \cup {None}] /\ size \in Int /\ lost \subseteq Calls
  /\ answer \in [Calls -> Keys \cup {None}]
  /\ pc \in [Calls -> Finished \cup Critical \cup {"idle", "put", "count", "enter"}]
  /\ key \in [Calls -> Keys \cup {None}] /\ ret \in [Calls -> Calls \cup {None}]
  /\ parent \in [Calls -> Calls \cup {None}] /\ seen \in [Calls -> SUBSET Keys]
  /\ list \in [Calls -> Seq(Keys)] /\ got \in [Calls -> Nat]
  /\ idx \in [Calls -> Nat \ {0}] /\ taken \in [Calls -> Calls \cup {None}]
  /\ \A c \in Calls : idx[c] <= Len(list[c]) + 1

\* The cache is no memo table: the future a lookup finds is one made for the
\* same request and not answered yet, however calls and batches interleave.
HitsArePending ==
  \A k \in Keys : cache[k] # None => key[cache[k]] = k /\ answer[cache[k]] = None

\* Results are handed to the futures they belong to: a future is completed
\* with the response to its own request, even when a racing put has replaced
\* the future for which the batch was made.
RightAnswer == \A f \in Calls : answer[f] # None => answer[f] = key[f]

\* The calls that have put a future into the map.
Created == {c \in Calls : pc[c] \notin {"idle", "put"} /\ ret[c] \in {None, c}}

\* The four places where a future can be: mapped, removed and about to be
\* completed, completed, or replaced by a put.
Mapped == {f \in Calls : \E k \in Keys : cache[k] = f}
InHand == {f \in Calls : \E c \in Calls : pc[c] = "complete" /\ taken[c] = f}
Answered == {f \in Calls : answer[f] # None}

\* A future that was made is always in exactly one place, and no two batches
\* hold the same one.  So complete() never finds its future complete, and
\* the only way for a future to be forgotten is to be replaced by a put.
OnePlace ==
  /\ Created = Mapped \cup InHand \cup Answered \cup lost
  /\ Mapped \cap (InHand \cup Answered \cup lost) = {}
  /\ InHand \cap (Answered \cup lost) = {} /\ Answered \cap lost = {}
  /\ \A c, d \in Calls :
       pc[c] = "complete" /\ pc[d] = "complete" /\ taken[c] = taken[d] => c = d

\* The requests call c has copied and not dealt with yet.
Rest(c) == {list[c][n] : n \in idx[c]..Len(list[c])}

\* Call c is still going to ask the backend for k, or is doing so.
Carries(c, k) ==
  \/ pc[c] \in {"count", "enter"}
  \/ pc[c] = "copy" /\ k \in seen[c]
  \/ pc[c] \in {"apply", "loop"} /\ k \in Rest(c)
  \/ pc[c] \in {"complete", "callback"} /\ k \in Rest(c) \ {Response(c)}

\* No request is stranded although isEmpty() lags behind the insertions and
\* the copy misses late ones: while a request is mapped some call in progress
\* will deal with it, unless a batch with that request ended in an exception.
NoStranding ==
  \A k \in Cached :
    \E c \in Calls : Carries(c, k) \/ (pc[c] = "thrown" /\ k \in Rest(c))

\* The null test on cache.remove is needed only because callbacks re-enter
\* the aggregator: otherwise nobody else removes what a batch has copied.
RemovalFindsFuture ==
  \A c \in Calls :
    pc[c] \in {"apply", "loop"} =>
      \A k \in Rest(c) : cache[k] # None \/ \E d \in Calls : parent[d] = c

\* Who waits for the map's counter to catch up with the map.
Lagging == {d \in Calls : pc[d] = "count"}

\* sendRequest does not return before the future it made is answered, so a
\* client with one thread never waits for a response.  It may return too
\* early only if a racing put replaced the future, or the counter lags.
ReturnsAnswered ==
  [][\A c \in Calls : (ret[c] = None /\ ret'[c] = c)
        => (answer[c] # None \/ c \in lost \/ Lagging # {})]_vars

\* The places of OnePlace, as a caller sees them.
FutureState(f) ==
  CASE f \in Mapped -> "open"
    [] f \in InHand \cup Answered -> "closed"
    [] f \in lost -> "dropped"
    [] OTHER -> "none"

Broker == INSTANCE FutureBroker WITH
  request <- key, given <- ret, future <- [f \in Calls |-> FutureState(f)]

\* The aggregator does what a broker of futures promises.
BrokersFutures == Broker!Spec

\* Every call of sendRequest ends, also one made by a callback while the
\* monitor is held: the aggregator does not deadlock on its own monitor.
CallsFinish == \A c \in Calls : (pc[c] # "idle") ~> (pc[c] \in Finished)

\* The future is left over from a batch that ended in an exception.
Abandoned(f) ==
  \E k \in Keys, c \in Calls : cache[k] = f /\ pc[c] = "thrown" /\ k \in Rest(c)

\* A future some caller was given is answered in the end, unless a racing put
\* has replaced it or batchFunction failed on its request.
AnsweredUnlessDropped ==
  \A c, f \in Calls :
    (ret[c] = f) ~> (answer[f] # None \/ f \in lost \/ Abandoned(f))

\* "Results are distributed to the corresponding CompletableFuture"
\* (RequestAggregator.java:45): every future some caller was given is answered.
EveryFutureAnswered == \A c, f \in Calls : (ret[c] = f) ~> (answer[f] # None)
=============================================================================
