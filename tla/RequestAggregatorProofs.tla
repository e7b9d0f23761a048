----------------------- MODULE RequestAggregatorProofs -----------------------
(***************************************************************************)
(* What TLAPS proves about RequestAggregator, for every finite set of      *)
(* calls and of requests, and about ExampleUsage, its client: that the     *)
(* program's use of the aggregator is a use of it, so that what is proved  *)
(* of the aggregator holds, and that the lines it prints are right.        *)
(***************************************************************************)
EXTENDS ExampleUsage, FiniteSetTheorems, SequenceTheorems, TLAPS

\* A function on an initial segment of the positive numbers is a sequence.
LEMMA FunctionIsSequence ==
  ASSUME NEW S, NEW n \in Nat, NEW s \in [1..n -> S]
  PROVE  s \in Seq(S)
<1>1. s \in UNION {[1..m -> S] : m \in Nat}
  OBVIOUS
<1>2. QED
  BY <1>1, SeqDef

\* What the program counter of a call says of its other variables.
CallOK ==
  \A c \in Calls :
    /\ pc[c] # "idle" => key[c] \in Keys
    /\ pc[c] = "returned" <=> ret[c] # None
    /\ pc[c] \in {"idle", "put", "count", "enter", "copy", "apply"} => idx[c] = 1
    /\ pc[c] \in {"complete", "callback"} => idx[c] <= Len(list[c]) /\ taken[c] \in Calls

Shape == TypeOK /\ CallOK

LEMMA ShapeStep == Shape /\ [Next]_vars => Shape'
<1> USE CallsAssumption, KeysAssumption, MayFailAssumption
    DEF Shape, TypeOK, CallOK, Finished, Critical, Goto, callVars, batchVars
<1> SUFFICES ASSUME Shape, [Next]_vars PROVE Shape'
  OBVIOUS
<1>1. ASSUME NEW c \in Calls, NEW k \in Keys, NEW p \in Calls \cup {None}, SendRequest(c, k, p)
      PROVE  Shape'
  <2>1. CASE cache[k] # None
    <3>1. ret' = [ret EXCEPT ![c] = cache[k]] /\ pc' = [pc EXCEPT ![c] = "returned"]
      BY <1>1, <2>1 DEF SendRequest
    <3>2. TypeOK'
      BY <1>1, <3>1 DEF SendRequest
    <3>3. CallOK'
      BY <1>1, <2>1, <3>1 DEF SendRequest
    <3>4. QED
      BY <3>2, <3>3
  <2>2. CASE cache[k] = None
    <3>1. ret' = ret /\ pc' = [pc EXCEPT ![c] = "put"]
      BY <1>1, <2>2 DEF SendRequest
    <3>2. TypeOK'
      BY <1>1, <3>1 DEF SendRequest
    <3>3. CallOK'
      BY <1>1, <3>1 DEF SendRequest
    <3>4. QED
      BY <3>2, <3>3
  <2>3. QED
    BY <2>1, <2>2
<1>2. ASSUME NEW c \in Calls, Put(c) PROVE Shape'
  BY <1>2 DEF Put, AfterPut
<1>3. ASSUME NEW c \in Calls, Count(c) PROVE Shape'
  BY <1>3 DEF Count
<1>4. ASSUME NEW c \in Calls, Enter(c) PROVE Shape'
  <2>1. CASE IsEmpty
    <3>1. ret' = [ret EXCEPT ![c] = c] /\ pc' = [pc EXCEPT ![c] = "returned"] /\ seen' = seen
      BY <1>4, <2>1 DEF Enter, Finish
    <3>2. TypeOK'
      BY <1>4, <3>1 DEF Enter
    <3>3. CallOK'
      BY <1>4, <3>1 DEF Enter
    <3>4. QED
      BY <3>2, <3>3
  <2>2. CASE ~IsEmpty
    <3>1. ret' = ret /\ pc' = [pc EXCEPT ![c] = "copy"] /\ seen' = [seen EXCEPT ![c] = Cached]
      BY <1>4, <2>2 DEF Enter
    <3>2. Cached \in SUBSET Keys
      BY DEF Cached
    <3>3. TypeOK'
      BY <1>4, <3>1, <3>2 DEF Enter
    <3>4. CallOK'
      BY <1>4, <3>1 DEF Enter
    <3>5. QED
      BY <3>3, <3>4
  <2>3. QED
    BY <2>1, <2>2
<1>5. ASSUME NEW c \in Calls, Copy(c) PROVE Shape'
  <2>1. PICK S \in SUBSET Cached : \E s \in Orderings(S) : list' = [list EXCEPT ![c] = s]
    BY <1>5 DEF Copy
  <2>2. PICK s \in Orderings(S) : list' = [list EXCEPT ![c] = s]
    BY <2>1
  <2>3. S \in SUBSET Keys /\ IsFiniteSet(S)
    BY <2>1, FS_Subset DEF Cached
  <2>4. s \in Seq(Keys) /\ Len(s) \in Nat
    <3>1. Cardinality(S) \in Nat
      BY <2>3, FS_CardinalityType
    <3>2. s \in [1..Cardinality(S) -> Keys]
      BY <2>2, <2>3 DEF Orderings
    <3>3. s \in Seq(Keys)
      BY <3>1, <3>2, FunctionIsSequence
    <3>4. QED
      BY <3>3, LenProperties
  <2>5. TypeOK'
    BY <1>5, <2>2, <2>4 DEF Copy
  <2>6. CallOK'
    BY <1>5, <2>2, <2>4 DEF Copy
  <2>7. QED
    BY <2>5, <2>6
<1>6. ASSUME NEW c \in Calls, Apply(c) PROVE Shape'
  <2>1. got' \in [Calls -> Nat]
    <3>1. CASE \E n \in 0..Len(list[c]) : got' = [got EXCEPT ![c] = n]
      BY <3>1
    <3>2. CASE got' = got
      BY <3>2
    <3>3. list[c] \in Seq(Keys)
      OBVIOUS
    <3>4. Len(list[c]) \in 0..Len(list[c])
      BY <3>3, LenProperties
    <3>5. QED
      BY <1>6, <3>1, <3>2, <3>4 DEF Apply
  <2>2. pc' = [pc EXCEPT ![c] = "loop"] \/ pc' = [pc EXCEPT ![c] = "thrown"]
    BY <1>6 DEF Apply
  <2>3. TypeOK'
    <3>1. pc' \in [Calls -> Finished \cup Critical \cup {"idle", "put", "count", "enter"}]
      BY <2>2
    <3>2. UNCHANGED <<cache, size, answer, key, ret, parent, seen, list, idx, taken, lost>>
      BY <1>6 DEF Apply
    <3>3. QED
      BY <2>1, <3>1, <3>2
  <2>4. CallOK'
    <3>1. UNCHANGED <<key, ret, list, idx, taken>> /\ pc[c] = "apply"
      BY <1>6 DEF Apply
    <3>2. QED
      BY <2>2, <3>1
  <2>5. QED
    BY <2>3, <2>4
<1>7. ASSUME NEW c \in Calls, Remove(c) PROVE Shape'
  <2> DEFINE k == list[c][idx[c]]
  <2>1. k \in Keys /\ cache[k] \in Calls \cup {None} /\ idx[c] <= Len(list[c])
    BY <1>7 DEF Remove
  <2>2. cache' = [cache EXCEPT ![k] = None]
    BY <1>7 DEF Remove, AfterRemove
  <2>3. CASE cache[k] # None
    <3>1. /\ size' = size - 1 /\ taken' = [taken EXCEPT ![c] = cache[k]]
          /\ pc' = [pc EXCEPT ![c] = "complete"] /\ idx' = idx
      BY <1>7, <2>3 DEF Remove
    <3>2. TypeOK'
      BY <1>7, <2>1, <2>2, <3>1 DEF Remove
    <3>3. CallOK'
      BY <1>7, <2>1, <2>2, <2>3, <3>1 DEF Remove
    <3>4. QED
      BY <3>2, <3>3
  <2>4. CASE cache[k] = None
    <3>1. size' = size /\ taken' = taken /\ pc' = pc /\ idx' = [idx EXCEPT ![c] = @ + 1]
      BY <1>7, <2>4 DEF Remove, NextIndex
    <3>2. TypeOK'
      BY <1>7, <2>1, <2>2, <3>1 DEF Remove
    <3>3. CallOK'
      BY <1>7, <2>1, <2>2, <3>1 DEF Remove
    <3>4. QED
      BY <3>2, <3>3
  <2>5. QED
    BY <2>3, <2>4
<1>8. ASSUME NEW c \in Calls, ResponseMissing(c) PROVE Shape'
  BY <1>8 DEF ResponseMissing
<1>9. ASSUME NEW c \in Calls, Complete(c) PROVE Shape'
  BY <1>9 DEF Complete, Response
<1>10. ASSUME NEW c \in Calls, Resume(c) PROVE Shape'
  <2>1. /\ pc[c] = "callback" /\ pc' = [pc EXCEPT ![c] = "loop"]
        /\ idx' = [idx EXCEPT ![c] = idx[c] + 1] /\ taken' = [taken EXCEPT ![c] = None]
        /\ UNCHANGED <<cache, size, answer, ret, key, parent, seen, list, got, lost>>
    BY <1>10 DEF Resume, NextIndex
  <2>2. idx[c] \in Nat \ {0} /\ list[c] \in Seq(Keys) /\ Len(list[c]) \in Nat
    BY LenProperties
  <2>3. idx[c] + 1 <= Len(list[c]) + 1
    BY <2>1
  <2>4. TypeOK'
    BY <2>1, <2>2, <2>3
  <2>5. CallOK'
    BY <2>1, <2>2, <2>3
  <2>6. QED
    BY <2>4, <2>5
<1>11. ASSUME NEW c \in Calls, Return(c) PROVE Shape'
  BY <1>11 DEF Return, Finish
<1>12. CASE UNCHANGED vars
  BY <1>12 DEF vars
<1>13. QED
  BY <1>1, <1>2, <1>3, <1>4, <1>5, <1>6, <1>7, <1>8, <1>9, <1>10, <1>11, <1>12
     DEF Next, Step

\* Every reachable state is well typed, and the loop index of a batch never
\* runs more than one past its request list.
THEOREM Typing == Spec => []TypeOK
<1>1. Init => Shape
  BY CallsAssumption, KeysAssumption DEF Init, Shape, TypeOK, CallOK, Finished, Critical
<1>2. Shape => TypeOK
  BY DEF Shape
<1>3. QED
  BY <1>1, <1>2, ShapeStep, PTL DEF Spec
-----------------------------------------------------------------------------
(* Where a future is.                                                      *)

\* What a batch has removed from the map was made for the request it is at.
HandsOver == \A c \in Calls : pc[c] = "complete" => key[taken[c]] = list[c][idx[c]]

Places == HitsArePending /\ RightAnswer /\ OnePlace /\ HandsOver

\* A step that neither makes a future nor moves one to another place.
LEMMA QuietStep ==
  ASSUME Shape, Places,
         UNCHANGED <<cache, answer, lost, key, taken>>,
         Created' = Created,
         NEW c \in Calls,
         \A d \in Calls : d # c => pc'[d] = pc[d] /\ list'[d] = list[d] /\ idx'[d] = idx[d],
         pc[c] # "complete", pc'[c] # "complete"
  PROVE  Places'
<1>1. \A d \in Calls : pc'[d] = "complete" <=> pc[d] = "complete"
  OBVIOUS
<1>2. Mapped' = Mapped /\ InHand' = InHand /\ Answered' = Answered
  BY <1>1 DEF Mapped, InHand, Answered
<1>3. HitsArePending' /\ RightAnswer'
  BY DEF Places, HitsArePending, RightAnswer
<1>4. OnePlace'
  BY <1>1, <1>2 DEF Places, OnePlace
<1>5. HandsOver'
  BY <1>1 DEF Places, HandsOver
<1>6. QED
  BY <1>3, <1>4, <1>5 DEF Places

\* put maps the new future, and the one it replaces is lost.
LEMMA PutMoves ==
  ASSUME Shape, Places, NEW c \in Calls, Put(c)
  PROVE  LET old == {cache[key[c]]} \ {None} IN
         /\ old \subseteq Mapped /\ c \notin Mapped \cup InHand \cup Answered \cup lost
         /\ Mapped' = (Mapped \ old) \cup {c} /\ lost' = lost \cup old
         /\ InHand' = InHand /\ Answered' = Answered
<1> USE CallsAssumption, KeysAssumption
<1> DEFINE k == key[c]
           old == {cache[k]} \ {None}
<1>0. \A f \in Calls : f \in Mapped \cup InHand \cup Answered \cup lost => f \in Created
  BY DEF Places, OnePlace
<1>1. /\ pc[c] = "put" /\ cache' = [cache EXCEPT ![k] = c] /\ lost' = lost \cup old
      /\ UNCHANGED <<answer, key, ret, taken, list, idx>>
  BY DEF Put, AfterPut, callVars, batchVars
<1>2. pc'[c] \in {"count", "enter"} /\ \A d \in Calls \ {c} : pc'[d] = pc[d]
  BY DEF Put, Goto, Shape, TypeOK
<1>3. k \in Keys /\ ret[c] = None
  BY <1>1 DEF Shape, CallOK, TypeOK
<1>4. c \notin Created /\ c \notin Mapped /\ c \notin InHand /\ c \notin Answered /\ c \notin lost
  BY <1>0, <1>1 DEF Created
<1>5. \A d \in Calls : pc'[d] = "complete" <=> pc[d] = "complete"
  BY <1>1, <1>2
<1>6. old \subseteq Mapped
  BY <1>3 DEF Mapped, Shape, TypeOK
<1>7. Mapped' = (Mapped \ old) \cup {c}
  <2>1. ASSUME NEW f \in Calls, f \in Mapped' PROVE f \in (Mapped \ old) \cup {c}
    <3>1. PICK j \in Keys : cache'[j] = f
      BY <2>1 DEF Mapped
    <3>2. CASE j = k
      BY <1>1, <1>3, <3>1, <3>2 DEF Shape, TypeOK
    <3>3. CASE j # k
      <4>1. cache[j] = f /\ f # None
        BY <1>1, <3>1, <3>3 DEF Shape, TypeOK
      <4>2. key[f] = j
        BY <4>1 DEF Places, HitsArePending
      <4>3. cache[k] # None => key[cache[k]] = k
        BY <1>3 DEF Places, HitsArePending
      <4>4. QED
        BY <3>3, <4>1, <4>2, <4>3 DEF Mapped
    <3>4. QED
      BY <3>2, <3>3
  <2>2. ASSUME NEW f \in Calls, f \in (Mapped \ old) \cup {c} PROVE f \in Mapped'
    <3>1. CASE f = c
      BY <1>1, <1>3, <3>1 DEF Mapped, Shape, TypeOK
    <3>2. CASE f \in Mapped \ old
      <4>1. PICK j \in Keys : cache[j] = f
        BY <3>2 DEF Mapped
      <4>2. j # k
        BY <3>2, <4>1
      <4>3. cache'[j] = f
        BY <1>1, <4>1, <4>2 DEF Shape, TypeOK
      <4>4. QED
        BY <4>3 DEF Mapped
    <3>3. QED
      BY <2>2, <3>1, <3>2
  <2>3. Mapped' \subseteq Calls /\ (Mapped \ old) \cup {c} \subseteq Calls
    BY DEF Mapped
  <2>4. QED
    BY <2>1, <2>2, <2>3
<1>8. InHand' = InHand /\ Answered' = Answered
  BY <1>1, <1>5 DEF InHand, Answered
<1>9. QED
  BY <1>1, <1>4, <1>6, <1>7, <1>8

\* cache.remove takes a future from the map into the hands of the batch.
LEMMA RemoveMoves ==
  ASSUME Shape, Places, NEW c \in Calls, Remove(c), cache[list[c][idx[c]]] # None
  PROVE  LET f == cache[list[c][idx[c]]] IN
         /\ f \in Mapped /\ f \notin InHand \cup Answered \cup lost
         /\ Mapped' = Mapped \ {f} /\ InHand' = InHand \cup {f}
         /\ Answered' = Answered /\ lost' = lost
<1> USE CallsAssumption, KeysAssumption
<1> DEFINE k == list[c][idx[c]]
           f == cache[k]
<1>1. /\ pc[c] = "loop" /\ k \in Keys /\ cache' = [cache EXCEPT ![k] = None]
      /\ UNCHANGED <<answer, key, ret, list, lost>>
      /\ taken' = [taken EXCEPT ![c] = f] /\ pc' = [pc EXCEPT ![c] = "complete"]
  BY DEF Remove, AfterRemove, Goto, callVars, Shape, TypeOK
<1>2. f \in Calls /\ key[f] = k /\ answer[f] = None /\ f \in Mapped
  <2>1. f \in Calls
    BY <1>1 DEF Shape, TypeOK
  <2>2. HitsArePending
    BY DEF Places
  <2>3. QED
    BY <1>1, <2>1, <2>2 DEF HitsArePending, Mapped
<1>3. f \notin InHand /\ f \notin Answered /\ f \notin lost
  BY <1>2 DEF Places, OnePlace
<1>4. Mapped' = Mapped \ {f}
  <2>1. ASSUME NEW g \in Calls, g \in Mapped' PROVE g \in Mapped \ {f}
    <3>1. PICK j \in Keys : cache'[j] = g
      BY <2>1 DEF Mapped
    <3>2. j # k /\ cache[j] = g
      BY <1>1, <3>1 DEF Shape, TypeOK
    <3>3. key[g] = j
      BY <3>2 DEF Places, HitsArePending
    <3>4. QED
      BY <1>2, <3>2, <3>3 DEF Mapped
  <2>2. ASSUME NEW g \in Calls, g \in Mapped \ {f} PROVE g \in Mapped'
    <3>1. PICK j \in Keys : cache[j] = g
      BY <2>2 DEF Mapped
    <3>2. j # k
      BY <2>2, <3>1
    <3>3. cache'[j] = g
      BY <1>1, <3>1, <3>2 DEF Shape, TypeOK
    <3>4. QED
      BY <3>3 DEF Mapped
  <2>3. QED
    BY <2>1, <2>2 DEF Mapped
<1>5. /\ pc'[c] = "complete" /\ taken'[c] = f
      /\ \A d \in Calls \ {c} : pc'[d] = pc[d] /\ taken'[d] = taken[d]
  BY <1>1 DEF Shape, TypeOK
<1>6. InHand' = InHand \cup {f}
  BY <1>1, <1>2, <1>5 DEF InHand
<1>7. Answered' = Answered /\ lost' = lost
  BY <1>1 DEF Answered
<1>8. QED
  BY <1>2, <1>3, <1>4, <1>6, <1>7

\* complete() takes a future from the hands of the batch and answers it.
LEMMA CompleteMoves ==
  ASSUME Shape, Places, NEW c \in Calls, Complete(c)
  PROVE  LET f == taken[c] IN
         /\ f \in Calls /\ f \in InHand /\ f \notin Mapped \cup Answered \cup lost
         /\ answer' = [answer EXCEPT ![f] = key[f]] /\ key[f] = list[c][idx[c]]
         /\ Mapped' = Mapped /\ InHand' = InHand \ {f}
         /\ Answered' = Answered \cup {f} /\ lost' = lost
<1> USE CallsAssumption, KeysAssumption
<1> DEFINE f == taken[c]
<1>1. /\ pc[c] = "complete" /\ pc' = [pc EXCEPT ![c] = "callback"]
      /\ UNCHANGED <<cache, key, ret, taken, list, idx, lost>>
  BY DEF Complete, Goto, callVars, batchVars
<1>2. f \in Calls /\ list[c][idx[c]] \in Keys /\ f \in InHand
  BY <1>1 DEF Shape, CallOK, TypeOK, InHand
<1>3. f \notin Mapped /\ f \notin Answered /\ f \notin lost /\ key[f] = list[c][idx[c]]
  BY <1>1, <1>2 DEF Places, OnePlace, HandsOver
<1>4. answer' = [answer EXCEPT ![f] = list[c][idx[c]]]
  <2>1. answer[f] = None
    BY <1>2, <1>3 DEF Answered
  <2>2. QED
    BY <2>1 DEF Complete, Response
<1>5. pc'[c] = "callback" /\ \A d \in Calls \ {c} : pc'[d] = pc[d]
  BY <1>1 DEF Shape, TypeOK
<1>6. Mapped' = Mapped
  BY <1>1 DEF Mapped
<1>7. InHand' = InHand \ {f}
  BY <1>1, <1>2, <1>5 DEF InHand, Places, OnePlace
<1>8. Answered' = Answered \cup {f}
  <2>1. answer'[f] # None /\ \A d \in Calls \ {f} : answer'[d] = answer[d]
    BY <1>2, <1>4 DEF Shape, TypeOK
  <2>2. QED
    BY <1>2, <2>1 DEF Answered
<1>9. QED
  BY <1>1, <1>2, <1>3, <1>4, <1>6, <1>7, <1>8

LEMMA PlacesStep == Shape /\ Shape' /\ Places /\ [Next]_vars => Places'
<1> SUFFICES ASSUME Shape, Shape', Places, [Next]_vars PROVE Places'
  OBVIOUS
<1> USE CallsAssumption, KeysAssumption
<1>0. \A f \in Calls : f \in Mapped \cup InHand \cup Answered \cup lost => f \in Created
  BY DEF Places, OnePlace
<1>1. ASSUME NEW c \in Calls, NEW k \in Keys, NEW p \in Calls \cup {None}, SendRequest(c, k, p)
      PROVE  Places'
  <2>1. /\ pc[c] = "idle" /\ key' = [key EXCEPT ![c] = k]
        /\ UNCHANGED <<cache, answer, lost, taken, list, idx>>
    BY <1>1 DEF SendRequest, batchVars
  <2>2. c \notin Created /\ c \notin Mapped /\ c \notin InHand /\ c \notin Answered /\ c \notin lost
    BY <1>0, <2>1 DEF Created
  <2>3. /\ pc'[c] \in {"put", "returned"}
        /\ \A d \in Calls \ {c} : pc'[d] = pc[d] /\ ret'[d] = ret[d] /\ key'[d] = key[d]
    <3>1. DOMAIN pc = Calls /\ DOMAIN ret = Calls /\ DOMAIN key = Calls
      BY DEF Shape, TypeOK
    <3>2. /\ \E l \in {"put", "returned"} : pc' = [pc EXCEPT ![c] = l]
          /\ ret' = [ret EXCEPT ![c] = cache[k]] \/ ret' = ret
      BY <1>1 DEF SendRequest, Goto
    <3>3. QED
      BY <2>1, <3>1, <3>2
  <2>4. pc'[c] = "returned" => ret'[c] \notin {None, c}
    <3>1. CASE cache[k] # None
      <4>1. ret'[c] = cache[k] /\ cache[k] \in Mapped
        BY <1>1, <3>1 DEF SendRequest, Mapped, Shape, TypeOK
      <4>2. QED
        BY <2>2, <3>1, <4>1
    <3>2. CASE cache[k] = None
      BY <1>1, <3>2 DEF SendRequest, Goto, Shape, TypeOK
    <3>3. QED
      BY <3>1, <3>2
  <2>5. Created' = Created
    BY <2>1, <2>3, <2>4 DEF Created
  <2>6. \A d \in Calls : pc'[d] = "complete" <=> pc[d] = "complete"
    BY <2>1, <2>3
  <2>7. Mapped' = Mapped /\ InHand' = InHand /\ Answered' = Answered
    BY <2>1, <2>6 DEF Mapped, InHand, Answered
  <2>8. HitsArePending'
    BY <2>1, <2>2, <2>3 DEF Places, HitsArePending, Mapped, Shape, TypeOK
  <2>9. RightAnswer'
    BY <2>1, <2>2, <2>3 DEF Places, RightAnswer, Answered
  <2>10. OnePlace'
    BY <2>1, <2>5, <2>6, <2>7 DEF Places, OnePlace
  <2>11. HandsOver'
    BY <2>1, <2>2, <2>3, <2>6 DEF Places, HandsOver, InHand, Shape, TypeOK, CallOK
  <2>12. QED
    BY <2>8, <2>9, <2>10, <2>11 DEF Places
<1>2. ASSUME NEW c \in Calls, Put(c) PROVE Places'
  <2> DEFINE k == key[c]
             old == {cache[k]} \ {None}
  <2>1. /\ pc[c] = "put" /\ cache' = [cache EXCEPT ![k] = c] /\ lost' = lost \cup old
        /\ UNCHANGED <<answer, key, ret, taken, list, idx>>
    BY <1>2 DEF Put, AfterPut, callVars, batchVars
  <2>2. pc'[c] \in {"count", "enter"} /\ \A d \in Calls \ {c} : pc'[d] = pc[d]
    BY <1>2 DEF Put, Goto, Shape, TypeOK
  <2>3. k \in Keys /\ ret[c] = None
    BY <2>1 DEF Shape, CallOK, TypeOK
  <2>4. c \notin Created /\ c \notin Mapped /\ c \notin InHand /\ c \notin Answered /\ c \notin lost
    BY <1>0, <2>1 DEF Created
  <2>5. \A d \in Calls : pc'[d] = "complete" <=> pc[d] = "complete"
    BY <2>1, <2>2
  <2>6. Created' = Created \cup {c}
    BY <2>1, <2>2, <2>3 DEF Created
  <2>7. old \subseteq Mapped
    BY <1>2, PutMoves
  <2>8. Mapped' = (Mapped \ old) \cup {c}
    BY <1>2, PutMoves
  <2>9. InHand' = InHand /\ Answered' = Answered
    BY <1>2, PutMoves
  <2>10. HitsArePending'
    <3>1. answer[c] = None
      BY <2>4 DEF Answered
    <3>2. QED
      BY <2>1, <2>3, <3>1 DEF Places, HitsArePending, Shape, TypeOK
  <2>11. RightAnswer'
    BY <2>1 DEF Places, RightAnswer
  <2>12. OnePlace'
    <3>1. OnePlace
      BY DEF Places
    <3>2. Created' = Mapped' \cup InHand' \cup Answered' \cup lost'
      BY <2>1, <2>6, <2>7, <2>8, <2>9, <3>1 DEF OnePlace
    <3>3. /\ Mapped' \cap (InHand' \cup Answered' \cup lost') = {}
          /\ InHand' \cap (Answered' \cup lost') = {} /\ Answered' \cap lost' = {}
      BY <2>1, <2>4, <2>7, <2>8, <2>9, <3>1 DEF OnePlace
    <3>4. QED
      BY <2>1, <2>5, <3>1, <3>2, <3>3 DEF OnePlace
  <2>13. HandsOver'
    BY <2>1, <2>5 DEF Places, HandsOver
  <2>14. QED
    BY <2>10, <2>11, <2>12, <2>13 DEF Places
<1>3. ASSUME NEW c \in Calls, Remove(c) PROVE Places'
  <2> DEFINE k == list[c][idx[c]]
             f == cache[k]
  <2>1. /\ pc[c] = "loop" /\ k \in Keys /\ cache' = [cache EXCEPT ![k] = None]
        /\ UNCHANGED <<answer, key, ret, list, lost>>
    BY <1>3 DEF Remove, AfterRemove, callVars, Shape, TypeOK
  <2>2. CASE f = None
    <3>1. cache' = cache
      BY <2>1, <2>2 DEF Shape, TypeOK
    <3>2. UNCHANGED <<taken, pc>> /\ \A d \in Calls : d # c => idx'[d] = idx[d]
      BY <1>3, <2>2 DEF Remove, NextIndex, Shape, TypeOK
    <3>3. Created' = Created
      BY <2>1, <3>2 DEF Created
    <3>4. QED
      BY <2>1, <3>1, <3>2, <3>3, QuietStep
  <2>3. CASE f # None
    <3>1. /\ taken' = [taken EXCEPT ![c] = f] /\ idx' = idx
          /\ pc' = [pc EXCEPT ![c] = "complete"]
      BY <1>3, <2>3 DEF Remove, Goto
    <3>2. f \in Calls /\ key[f] = k /\ answer[f] = None /\ f \in Mapped
      <4>1. f \in Calls
        BY <2>1, <2>3 DEF Shape, TypeOK
      <4>2. HitsArePending
        BY DEF Places
      <4>3. QED
        BY <2>1, <2>3, <4>1, <4>2 DEF HitsArePending, Mapped
    <3>3. f \notin InHand /\ f \notin Answered /\ f \notin lost
      BY <3>2 DEF Places, OnePlace
    <3>4. Created' = Created
      BY <2>1, <3>1 DEF Created, Shape, TypeOK
    <3>5. Mapped' = Mapped \ {f}
      BY <1>3, <2>3, RemoveMoves
    <3>6. /\ pc'[c] = "complete" /\ taken'[c] = f
          /\ \A d \in Calls \ {c} : pc'[d] = pc[d] /\ taken'[d] = taken[d]
      BY <3>1 DEF Shape, TypeOK
    <3>7. InHand' = InHand \cup {f}
      BY <1>3, <2>3, RemoveMoves
    <3>8. Answered' = Answered /\ lost' = lost
      BY <2>1 DEF Answered
    <3>9. HitsArePending'
      BY <2>1 DEF Places, HitsArePending, Shape, TypeOK
    <3>10. RightAnswer'
      BY <2>1 DEF Places, RightAnswer
    <3>11. OnePlace'
      <4>1. OnePlace
        BY DEF Places
      <4>2. Created' = Mapped' \cup InHand' \cup Answered' \cup lost'
        BY <3>2, <3>4, <3>5, <3>7, <3>8, <4>1 DEF OnePlace
      <4>3. /\ Mapped' \cap (InHand' \cup Answered' \cup lost') = {}
            /\ InHand' \cap (Answered' \cup lost') = {} /\ Answered' \cap lost' = {}
        BY <3>3, <3>5, <3>7, <3>8, <4>1 DEF OnePlace
      <4>4. \A a, b \in Calls :
              pc'[a] = "complete" /\ pc'[b] = "complete" /\ taken'[a] = taken'[b] => a = b
        BY <2>1, <3>2, <3>3, <3>6, <4>1 DEF OnePlace, InHand
      <4>5. QED
        BY <4>2, <4>3, <4>4 DEF OnePlace
    <3>12. HandsOver'
      BY <2>1, <3>1, <3>2, <3>6 DEF Places, HandsOver
    <3>13. QED
      BY <3>9, <3>10, <3>11, <3>12 DEF Places
  <2>4. QED
    BY <2>2, <2>3
<1>4. ASSUME NEW c \in Calls, Complete(c) PROVE Places'
  <2> DEFINE f == taken[c]
  <2>1. /\ pc[c] = "complete" /\ pc' = [pc EXCEPT ![c] = "callback"]
        /\ UNCHANGED <<cache, key, ret, taken, list, idx, lost>>
    BY <1>4 DEF Complete, Goto, callVars, batchVars
  <2>2. f \in Calls /\ list[c][idx[c]] \in Keys /\ f \in InHand
    BY <2>1 DEF Shape, CallOK, TypeOK, InHand
  <2>3. f \notin Mapped /\ f \notin Answered /\ f \notin lost /\ key[f] = list[c][idx[c]]
    BY <1>4, CompleteMoves
  <2>4. answer' = [answer EXCEPT ![f] = list[c][idx[c]]]
    BY <1>4, CompleteMoves
  <2>5. pc'[c] = "callback" /\ \A d \in Calls \ {c} : pc'[d] = pc[d]
    BY <2>1 DEF Shape, TypeOK
  <2>6. Created' = Created /\ Mapped' = Mapped
    BY <2>1, <2>5 DEF Created, Mapped
  <2>7. InHand' = InHand \ {f}
    BY <1>4, CompleteMoves
  <2>8. Answered' = Answered \cup {f}
    BY <1>4, CompleteMoves
  <2>9. HitsArePending'
    BY <2>1, <2>3, <2>4 DEF Places, HitsArePending, Mapped, Shape, TypeOK
  <2>10. RightAnswer'
    BY <2>1, <2>2, <2>3, <2>4 DEF Places, RightAnswer, Shape, TypeOK
  <2>11. OnePlace'
    <3>1. OnePlace
      BY DEF Places
    <3>2. Created' = Mapped' \cup InHand' \cup Answered' \cup lost'
      BY <2>1, <2>2, <2>6, <2>7, <2>8, <3>1 DEF OnePlace
    <3>3. /\ Mapped' \cap (InHand' \cup Answered' \cup lost') = {}
          /\ InHand' \cap (Answered' \cup lost') = {} /\ Answered' \cap lost' = {}
      BY <2>1, <2>3, <2>6, <2>7, <2>8, <3>1 DEF OnePlace
    <3>4. QED
      BY <2>1, <2>5, <3>1, <3>2, <3>3 DEF OnePlace
  <2>12. HandsOver'
    BY <2>1, <2>5 DEF Places, HandsOver
  <2>13. QED
    BY <2>9, <2>10, <2>11, <2>12 DEF Places
<1>5. ASSUME NEW c \in Calls, Resume(c) PROVE Places'
  <2>1. /\ pc[c] = "callback" /\ pc' = [pc EXCEPT ![c] = "loop"]
        /\ taken' = [taken EXCEPT ![c] = None]
        /\ UNCHANGED <<cache, answer, key, ret, list, lost>>
    BY <1>5 DEF Resume, Goto, callVars
  <2>2. /\ pc'[c] = "loop"
        /\ \A d \in Calls \ {c} : pc'[d] = pc[d] /\ taken'[d] = taken[d] /\ idx'[d] = idx[d]
    BY <1>5, <2>1 DEF Resume, NextIndex, Shape, TypeOK
  <2>3. Created' = Created /\ Mapped' = Mapped /\ Answered' = Answered
    BY <2>1, <2>2 DEF Created, Mapped, Answered
  <2>4. \A d \in Calls : pc'[d] = "complete" <=> pc[d] = "complete" /\ d # c
    BY <2>1, <2>2
  <2>5. InHand' = InHand
    BY <2>1, <2>2, <2>4 DEF InHand
  <2>6. HitsArePending' /\ RightAnswer'
    BY <2>1 DEF Places, HitsArePending, RightAnswer
  <2>7. OnePlace'
    BY <2>1, <2>2, <2>3, <2>4, <2>5 DEF Places, OnePlace
  <2>8. HandsOver'
    BY <2>1, <2>2, <2>4 DEF Places, HandsOver
  <2>9. QED
    BY <2>6, <2>7, <2>8 DEF Places
<1>6. ASSUME NEW c \in Calls,
             Count(c) \/ Enter(c) \/ Copy(c) \/ Apply(c) \/ ResponseMissing(c) \/ Return(c)
      PROVE  Places'
  <2>1. UNCHANGED <<cache, answer, lost, key, taken, idx>>
    BY <1>6 DEF Count, Enter, Copy, Apply, ResponseMissing, Return, callVars, batchVars
  <2>2. \A d \in Calls : d # c => list'[d] = list[d]
    BY <1>6 DEF Count, Enter, Copy, Apply, ResponseMissing, Return, batchVars, Shape, TypeOK
  <2>3. pc[c] \in {"count", "enter", "copy", "apply", "loop"}
    BY <1>6 DEF Count, Enter, Copy, Apply, ResponseMissing, Return
  <2>4. /\ pc'[c] \in {"enter", "copy", "apply", "loop", "thrown", "returned"}
        /\ \A d \in Calls : d # c => pc'[d] = pc[d]
    <3>1. \E l \in {"enter", "copy", "apply", "loop", "thrown", "returned"} :
            pc' = [pc EXCEPT ![c] = l]
      BY <1>6 DEF Count, Enter, Copy, Apply, ResponseMissing, Return, Finish, Goto
    <3>2. DOMAIN pc = Calls
      BY DEF Shape, TypeOK
    <3>3. QED
      BY <3>1, <3>2
  <2>5. ret'[c] \in {None, c} /\ \A d \in Calls : d # c => ret'[d] = ret[d]
    <3>1. ret[c] = None
      BY <2>3 DEF Shape, CallOK, TypeOK
    <3>2. ret' = ret \/ ret' = [ret EXCEPT ![c] = c]
      BY <1>6 DEF Count, Enter, Copy, Apply, ResponseMissing, Return, Finish
    <3>3. QED
      BY <3>1, <3>2 DEF Shape, TypeOK
  <2>6. Created' = Created
    <3>1. ret[c] = None
      BY <2>3 DEF Shape, CallOK, TypeOK
    <3>2. QED
      BY <2>3, <2>4, <2>5, <3>1 DEF Created
  <2>7. QED
    BY <2>1, <2>2, <2>3, <2>4, <2>6, QuietStep
<1>7. CASE UNCHANGED vars
  <2>1. Created' = Created /\ Mapped' = Mapped /\ InHand' = InHand /\ Answered' = Answered
    BY <1>7 DEF vars, Created, Mapped, InHand, Answered
  <2>2. QED
    BY <1>7, <2>1 DEF vars, Places, HitsArePending, RightAnswer, OnePlace, HandsOver
<1>8. QED
  BY <1>1, <1>2, <1>3, <1>4, <1>5, <1>6, <1>7 DEF Next, Step

LEMMA PlacesHold == Spec => []Places
<1>1. Init => Shape
  BY CallsAssumption, KeysAssumption DEF Init, Shape, TypeOK, CallOK, Finished, Critical
<1>2. Init => Places
  <2> SUFFICES ASSUME Init PROVE Places
    OBVIOUS
  <2>1. Created = {} /\ Mapped = {} /\ InHand = {} /\ Answered = {} /\ lost = {}
    BY CallsAssumption DEF Init, Created, Mapped, InHand, Answered
  <2>2. OnePlace
    BY <2>1 DEF OnePlace, Init
  <2>3. HitsArePending /\ RightAnswer /\ HandsOver
    BY DEF Init, HitsArePending, RightAnswer, HandsOver
  <2>4. QED
    BY <2>2, <2>3 DEF Places
<1>3. QED
  BY <1>1, <1>2, ShapeStep, PlacesStep, PTL DEF Spec

\* However calls, batches, failures and callbacks interleave, a lookup finds
\* only a future made for the same request and not answered yet.
THEOREM LookupFindsPending == Spec => []HitsArePending
<1>1. Places => HitsArePending
  BY DEF Places
<1>2. QED
  BY <1>1, PlacesHold, PTL

\* A future is never completed with the response to another request.
THEOREM AnswersMatch == Spec => []RightAnswer
<1>1. Places => RightAnswer
  BY DEF Places
<1>2. QED
  BY <1>1, PlacesHold, PTL

\* A future that was made is in exactly one place, in the hands of at most
\* one batch: complete() never meets a completed future, and a future is
\* forgotten only by a put that replaces it.
THEOREM FuturesAreConserved == Spec => []OnePlace
<1>1. Places => OnePlace
  BY DEF Places
<1>2. QED
  BY <1>1, PlacesHold, PTL
-----------------------------------------------------------------------------
(* The element count, and what it means that it lags behind.               *)

Counting == {c \in Calls : pc[c] = "count"}

\* The map's counter lacks the insertions that have not been counted yet.
Counter == size = Cardinality(Cached) - Cardinality(Counting)

Progress == Counter /\ NoStranding

\* When the counter says that the map is empty, either it is or some call is
\* on its way from its put to the batch.
LEMMA EmptyCounter ==
  ASSUME Shape, Counter, IsEmpty, Counting = {}
  PROVE  Cached = {}
<1>1. IsFiniteSet(Cached)
  BY KeysAssumption, FS_Subset DEF Cached
<1>2. Cardinality(Cached) \in Nat
  BY <1>1, FS_CardinalityType
<1>3. Cardinality(Counting) = 0
  BY FS_EmptySet
<1>4. Cardinality(Cached) = 0
  BY <1>2, <1>3 DEF Counter, IsEmpty
<1>5. QED
  BY <1>1, <1>4, FS_EmptySet

LEMMA CounterStep == Shape /\ Counter /\ [Next]_vars => Counter'
<1> SUFFICES ASSUME Shape, Counter, [Next]_vars PROVE Counter'
  OBVIOUS
<1> USE CallsAssumption, KeysAssumption
<1>1. /\ IsFiniteSet(Cached) /\ Cardinality(Cached) \in Nat
      /\ IsFiniteSet(Counting) /\ Cardinality(Counting) \in Nat
  BY FS_Subset, FS_CardinalityType DEF Cached, Counting
<1>2. ASSUME NEW c \in Calls, Put(c) PROVE Counter'
  <2> DEFINE k == key[c]
  <2>1. /\ pc[c] = "put" /\ k \in Keys /\ cache' = [cache EXCEPT ![k] = c] /\ size' = size
    BY <1>2 DEF Put, AfterPut, Shape, TypeOK, CallOK
  <2>2. Cached' = Cached \cup {k}
    BY <2>1 DEF Cached, Shape, TypeOK
  <2>3. CASE cache[k] = None
    <3>1. pc' = [pc EXCEPT ![c] = "count"]
      BY <1>2, <2>3 DEF Put, Goto
    <3>2. Counting' = Counting \cup {c} /\ c \notin Counting
      BY <2>1, <3>1 DEF Counting, Shape, TypeOK
    <3>3. k \notin Cached
      BY <2>3 DEF Cached
    <3>4. Cardinality(Cached') = Cardinality(Cached) + 1
      BY <1>1, <2>2, <3>3, FS_AddElement
    <3>5. Cardinality(Counting') = Cardinality(Counting) + 1
      BY <1>1, <3>2, FS_AddElement
    <3>6. QED
      BY <1>1, <2>1, <3>4, <3>5 DEF Counter
  <2>4. CASE cache[k] # None
    <3>1. pc' = [pc EXCEPT ![c] = "enter"]
      BY <1>2, <2>4 DEF Put, Goto
    <3>2. Counting' = Counting
      BY <2>1, <3>1 DEF Counting, Shape, TypeOK
    <3>3. Cached' = Cached
      BY <2>1, <2>2, <2>4 DEF Cached
    <3>4. QED
      BY <2>1, <3>2, <3>3 DEF Counter
  <2>5. QED
    BY <2>3, <2>4
<1>3. ASSUME NEW c \in Calls, Count(c) PROVE Counter'
  <2>1. /\ pc[c] = "count" /\ pc' = [pc EXCEPT ![c] = "enter"]
        /\ size' = size + 1 /\ cache' = cache
    BY <1>3 DEF Count, Goto
  <2>2. Counting' = Counting \ {c} /\ c \in Counting /\ Cached' = Cached
    BY <2>1 DEF Counting, Cached, Shape, TypeOK
  <2>3. Cardinality(Counting') = Cardinality(Counting) - 1
    BY <1>1, <2>2, FS_RemoveElement
  <2>4. QED
    BY <1>1, <2>1, <2>2, <2>3 DEF Counter, Shape, TypeOK
<1>4. ASSUME NEW c \in Calls, Remove(c) PROVE Counter'
  <2> DEFINE k == list[c][idx[c]]
  <2>1. /\ pc[c] = "loop" /\ k \in Keys /\ cache' = [cache EXCEPT ![k] = None]
    BY <1>4 DEF Remove, AfterRemove, Shape, TypeOK
  <2>2. pc' = [pc EXCEPT ![c] = "complete"] \/ pc' = pc
    BY <1>4 DEF Remove, Goto
  <2>3. Counting' = Counting
    BY <2>1, <2>2 DEF Counting, Shape, TypeOK
  <2>4. Cached' = Cached \ {k}
    BY <2>1 DEF Cached, Shape, TypeOK
  <2>5. CASE cache[k] # None
    <3>1. size' = size - 1 /\ k \in Cached
      BY <1>4, <2>1, <2>5 DEF Remove, Cached
    <3>2. Cardinality(Cached') = Cardinality(Cached) - 1
      BY <1>1, <2>4, <3>1, FS_RemoveElement
    <3>3. QED
      BY <1>1, <2>3, <3>1, <3>2 DEF Counter, Shape, TypeOK
  <2>6. CASE cache[k] = None
    <3>1. size' = size /\ Cached' = Cached
      BY <1>4, <2>4, <2>6 DEF Remove, Cached
    <3>2. QED
      BY <2>3, <3>1 DEF Counter
  <2>7. QED
    BY <2>5, <2>6
<1>5. ASSUME NEW c \in Calls,
             \/ \E k \in Keys, p \in Calls \cup {None} : SendRequest(c, k, p)
             \/ Enter(c) \/ Copy(c) \/ Apply(c) \/ ResponseMissing(c) \/ Complete(c)
             \/ Resume(c) \/ Return(c)
      PROVE  Counter'
  <2>1. size' = size /\ cache' = cache
    BY <1>5 DEF SendRequest, Enter, Copy, Apply, ResponseMissing, Complete, Resume, Return
  <2>2. /\ pc[c] # "count" /\ pc'[c] # "count"
        /\ \A d \in Calls \ {c} : pc'[d] = pc[d]
    BY <1>5 DEF SendRequest, Enter, Copy, Apply, ResponseMissing, Complete, Resume, Return,
                Goto, Finish, Shape, TypeOK
  <2>3. Counting' = Counting /\ Cached' = Cached
    BY <2>1, <2>2 DEF Counting, Cached
  <2>4. QED
    BY <2>1, <2>3 DEF Counter
<1>6. CASE UNCHANGED vars
  BY <1>6 DEF vars, Counter, Cached, Counting
<1>7. QED
  BY <1>2, <1>3, <1>4, <1>5, <1>6 DEF Next, Step

\* A call that answers for request k: it carries it, or threw with it.
Answers(c, k) == Carries(c, k) \/ (pc[c] = "thrown" /\ k \in Rest(c))

\* No step but its own changes what a call answers for.
LEMMA OthersAnswer ==
  ASSUME NEW c \in Calls, NEW k \in Keys,
         pc'[c] = pc[c], seen'[c] = seen[c], list'[c] = list[c], idx'[c] = idx[c]
  PROVE  Answers(c, k)' = Answers(c, k)
BY DEF Answers, Carries, Rest, Response

LEMMA NoStrandingStep == Shape /\ Shape' /\ Progress /\ [Next]_vars => NoStranding'
<1> SUFFICES ASSUME Shape, Shape', Progress, [Next]_vars, NEW k \in Keys, cache'[k] # None
             PROVE  \E c \in Calls : Answers(c, k)'
  BY DEF NoStranding, Cached, Answers
<1> USE CallsAssumption, KeysAssumption
<1>0. cache[k] # None => \E c \in Calls : Answers(c, k)
  BY DEF Progress, NoStranding, Cached, Answers
<1>1. ASSUME NEW c \in Calls,
             cache[k] # None,
             \A d \in Calls \ {c} :
               pc'[d] = pc[d] /\ seen'[d] = seen[d] /\ list'[d] = list[d] /\ idx'[d] = idx[d],
             Answers(c, k) => Answers(c, k)'
      PROVE  \E d \in Calls : Answers(d, k)'
  <2>1. PICK d \in Calls : Answers(d, k)
    BY <1>0, <1>1
  <2>2. CASE d = c
    BY <1>1, <2>1, <2>2
  <2>3. CASE d # c
    <3>1. Answers(d, k)' = Answers(d, k)
      BY <1>1, <2>3, OthersAnswer
    <3>2. QED
      BY <2>1, <3>1
  <2>4. QED
    BY <2>2, <2>3
<1>2. ASSUME NEW c \in Calls, Put(c) \/ Count(c) PROVE \E d \in Calls : Answers(d, k)'
  <2>1. pc'[c] \in {"count", "enter"}
    BY <1>2 DEF Put, Count, Goto, Shape, TypeOK
  <2>2. QED
    BY <2>1 DEF Answers, Carries
<1>3. ASSUME NEW c \in Calls, NEW r \in Keys, NEW p \in Calls \cup {None}, SendRequest(c, r, p)
      PROVE  \E d \in Calls : Answers(d, k)'
  <2>1. /\ pc[c] = "idle" /\ cache' = cache /\ UNCHANGED <<seen, list, idx>>
        /\ \A d \in Calls \ {c} : pc'[d] = pc[d]
    BY <1>3 DEF SendRequest, Goto, batchVars, Shape, TypeOK
  <2>2. ~Answers(c, k)
    BY <2>1 DEF Answers, Carries
  <2>3. QED
    BY <1>1, <2>1, <2>2
<1>4. ASSUME NEW c \in Calls, Enter(c) PROVE \E d \in Calls : Answers(d, k)'
  <2>1. /\ pc[c] = "enter" /\ cache' = cache
        /\ \A d \in Calls \ {c} : pc'[d] = pc[d]
    BY <1>4 DEF Enter, Finish, Goto, Shape, TypeOK
  <2>2. CASE IsEmpty
    <3>1. k \in Cached
      BY <2>1 DEF Cached
    <3>2. Counting # {}
      BY <2>2, <3>1, EmptyCounter DEF Progress
    <3>3. PICK d \in Calls : pc[d] = "count"
      BY <3>2 DEF Counting
    <3>4. pc'[d] = "count"
      BY <2>1, <3>3
    <3>5. QED
      BY <3>4 DEF Answers, Carries
  <2>3. CASE ~IsEmpty
    <3>1. pc'[c] = "copy" /\ seen'[c] = Cached
      BY <1>4, <2>3 DEF Enter, Goto, Shape, TypeOK
    <3>2. k \in seen'[c]
      BY <2>1, <3>1 DEF Cached
    <3>3. QED
      BY <3>1, <3>2 DEF Answers, Carries
  <2>4. QED
    BY <2>2, <2>3
<1>5. ASSUME NEW c \in Calls, Copy(c) PROVE \E d \in Calls : Answers(d, k)'
  <2>1. /\ pc[c] = "copy" /\ pc'[c] = "apply" /\ cache' = cache /\ UNCHANGED <<seen, idx>>
        /\ \A d \in Calls \ {c} : pc'[d] = pc[d] /\ list'[d] = list[d]
    BY <1>5 DEF Copy, Goto, Shape, TypeOK
  <2>2. ASSUME k \in seen[c] PROVE k \in Rest(c)'
    <3>1. PICK S \in SUBSET Cached :
            seen[c] \subseteq S /\ \E s \in Orderings(S) : list' = [list EXCEPT ![c] = s]
      BY <1>5 DEF Copy
    <3>2. PICK s \in Orderings(S) : list' = [list EXCEPT ![c] = s]
      BY <3>1
    <3>3. PICK n \in DOMAIN s : s[n] = k
      BY <2>2, <3>1, <3>2 DEF Orderings
    <3>4. list'[c] = s /\ idx'[c] = 1
      BY <2>1, <3>2 DEF Shape, TypeOK, CallOK
    <3>5. DOMAIN s = 1..Len(s)
      BY <3>4, LenProperties DEF Shape, TypeOK
    <3>6. QED
      BY <3>3, <3>4, <3>5 DEF Rest
  <2>3. Answers(c, k) => Answers(c, k)'
    BY <2>1, <2>2 DEF Answers, Carries
  <2>4. QED
    BY <1>1, <2>1, <2>3
<1>6. ASSUME NEW c \in Calls, Apply(c) \/ ResponseMissing(c)
      PROVE  \E d \in Calls : Answers(d, k)'
  <2>1. /\ pc[c] \in {"apply", "loop"} /\ pc'[c] \in {"loop", "thrown"}
        /\ cache' = cache /\ UNCHANGED <<seen, list, idx>>
        /\ \A d \in Calls \ {c} : pc'[d] = pc[d]
    BY <1>6 DEF Apply, ResponseMissing, Goto, batchVars, Shape, TypeOK
  <2>2. Rest(c)' = Rest(c)
    BY <2>1 DEF Rest
  <2>3. Answers(c, k) => Answers(c, k)'
    BY <2>1, <2>2 DEF Answers, Carries
  <2>4. QED
    BY <1>1, <2>1, <2>3
<1>7. ASSUME NEW c \in Calls, Remove(c) PROVE \E d \in Calls : Answers(d, k)'
  <2> DEFINE r == list[c][idx[c]]
  <2>1. /\ pc[c] = "loop" /\ r \in Keys /\ idx[c] <= Len(list[c])
        /\ cache' = [cache EXCEPT ![r] = None] /\ UNCHANGED <<seen, list>>
    BY <1>7 DEF Remove, AfterRemove, Shape, TypeOK
  <2>2. k # r /\ cache[k] # None
    BY <2>1 DEF Shape, TypeOK
  <2>3. CASE cache[r] # None
    <3>1. /\ pc'[c] = "complete" /\ idx' = idx
          /\ \A d \in Calls \ {c} : pc'[d] = pc[d]
      <4>1. DOMAIN pc = Calls
        BY DEF Shape, TypeOK
      <4>2. pc' = [pc EXCEPT ![c] = "complete"] /\ idx' = idx
        BY <1>7, <2>3 DEF Remove, Goto
      <4>3. QED
        BY <4>1, <4>2
    <3>2. Rest(c)' = Rest(c) /\ Response(c)' = r
      BY <2>1, <3>1 DEF Rest, Response
    <3>3. Answers(c, k) => Answers(c, k)'
      BY <2>1, <2>2, <3>1, <3>2 DEF Answers, Carries
    <3>4. QED
      BY <1>1, <2>1, <2>2, <3>1, <3>3
  <2>4. CASE cache[r] = None
    <3>1. /\ pc' = pc /\ idx'[c] = idx[c] + 1
          /\ \A d \in Calls \ {c} : idx'[d] = idx[d]
      BY <1>7, <2>4 DEF Remove, NextIndex, Shape, TypeOK
    <3>2. Rest(c) \subseteq Rest(c)' \cup {r}
      <4>1. ASSUME NEW n \in idx[c]..Len(list[c]), n # idx[c]
            PROVE  n \in (idx[c] + 1)..Len(list[c])
        <5>1. idx[c] \in Nat /\ list[c] \in Seq(Keys)
          BY DEF Shape, TypeOK
        <5>2. Len(list[c]) \in Nat
          BY <5>1, LenProperties
        <5>3. QED
          BY <4>1, <5>1, <5>2
      <4>2. list'[c] = list[c]
        BY <2>1
      <4>3. QED
        BY <3>1, <4>1, <4>2 DEF Rest
    <3>3. Answers(c, k) => Answers(c, k)'
      BY <2>1, <2>2, <3>1, <3>2 DEF Answers, Carries
    <3>4. QED
      BY <1>1, <2>1, <2>2, <3>1, <3>3
  <2>5. QED
    BY <2>3, <2>4
<1>8. ASSUME NEW c \in Calls, Complete(c) PROVE \E d \in Calls : Answers(d, k)'
  <2>1. /\ pc[c] = "complete" /\ pc'[c] = "callback" /\ cache' = cache
        /\ UNCHANGED <<seen, list, idx>> /\ \A d \in Calls \ {c} : pc'[d] = pc[d]
    BY <1>8 DEF Complete, Goto, batchVars, Shape, TypeOK
  <2>2. Rest(c)' = Rest(c) /\ Response(c)' = Response(c)
    BY <2>1 DEF Rest, Response
  <2>3. Answers(c, k) => Answers(c, k)'
    BY <2>1, <2>2 DEF Answers, Carries
  <2>4. QED
    BY <1>1, <2>1, <2>3
<1>9. ASSUME NEW c \in Calls, Resume(c) PROVE \E d \in Calls : Answers(d, k)'
  <2>1. /\ pc[c] = "callback" /\ pc'[c] = "loop" /\ cache' = cache /\ UNCHANGED <<seen, list>>
        /\ idx'[c] = idx[c] + 1
        /\ \A d \in Calls \ {c} : pc'[d] = pc[d] /\ idx'[d] = idx[d]
    BY <1>9 DEF Resume, NextIndex, Goto, Shape, TypeOK
  <2>2. Rest(c) \subseteq Rest(c)' \cup {Response(c)}
    <3>1. idx[c] \in Nat \ {0} /\ list[c] \in Seq(Keys)
      BY DEF Shape, TypeOK
    <3>2. Len(list[c]) \in Nat
      BY <3>1, LenProperties
    <3>3. Rest(c)' = {list[c][n] : n \in (idx[c] + 1)..Len(list[c])}
      BY <2>1 DEF Rest
    <3>4. ASSUME NEW n \in idx[c]..Len(list[c])
          PROVE  list[c][n] = Response(c) \/ n \in (idx[c] + 1)..Len(list[c])
      BY <3>1, <3>2 DEF Response
    <3>5. QED
      BY <3>3, <3>4 DEF Rest
  <2>3. Answers(c, k) => Answers(c, k)'
    BY <2>1, <2>2 DEF Answers, Carries
  <2>4. QED
    BY <1>1, <2>1, <2>3
<1>10. ASSUME NEW c \in Calls, Return(c) PROVE \E d \in Calls : Answers(d, k)'
  <2>1. /\ pc[c] = "loop" /\ idx[c] > Len(list[c]) /\ cache' = cache
        /\ UNCHANGED <<seen, list, idx>> /\ \A d \in Calls \ {c} : pc'[d] = pc[d]
    BY <1>10 DEF Return, Finish, Goto, batchVars, Shape, TypeOK
  <2>2. Rest(c) = {}
    <3>1. Len(list[c]) \in Nat
      BY LenProperties DEF Shape, TypeOK
    <3>2. QED
      BY <2>1, <3>1 DEF Rest, Shape, TypeOK
  <2>3. ~Answers(c, k)
    BY <2>1, <2>2 DEF Answers, Carries
  <2>4. QED
    BY <1>1, <2>1, <2>3
<1>11. CASE UNCHANGED vars
  <2>1. cache[k] # None /\ UNCHANGED <<pc, seen, list, idx>>
    BY <1>11 DEF vars
  <2>2. PICK d \in Calls : Answers(d, k)
    BY <1>0, <2>1
  <2>3. Answers(d, k)'
    BY <2>1, <2>2, OthersAnswer
  <2>4. QED
    BY <2>3
<1>12. QED
  BY <1>2, <1>3, <1>4, <1>5, <1>6, <1>7, <1>8, <1>9, <1>10, <1>11 DEF Next, Step

\* A request that is mapped is still going to be dealt with by some call, or
\* was in a batch that ended in an exception: the counter's lag, late
\* insertions and re-entrant batches never strand one.
THEOREM NothingStranded == Spec => []NoStranding
<1>1. Init => Shape
  BY CallsAssumption, KeysAssumption DEF Init, Shape, TypeOK, CallOK, Finished, Critical
<1>2. Init => Progress
  <2> SUFFICES ASSUME Init PROVE Progress
    OBVIOUS
  <2>1. Cached = {} /\ Counting = {} /\ size = 0
    BY DEF Init, Cached, Counting
  <2>2. QED
    BY <2>1, FS_EmptySet DEF Progress, Counter, NoStranding
<1>3. Shape /\ Shape' /\ Progress /\ [Next]_vars => Progress'
  BY CounterStep, NoStrandingStep DEF Progress
<1>4. Progress => NoStranding
  BY DEF Progress
<1>5. QED
  BY <1>1, <1>2, <1>3, <1>4, ShapeStep, PTL DEF Spec

LEMMA CounterHolds == Spec => []Counter
<1>1. Init => Shape
  BY CallsAssumption, KeysAssumption DEF Init, Shape, TypeOK, CallOK, Finished, Critical
<1>2. Init => Counter
  <2> SUFFICES ASSUME Init PROVE Counter
    OBVIOUS
  <2>1. Cached = {} /\ Counting = {} /\ size = 0
    BY DEF Init, Cached, Counting
  <2>2. QED
    BY <2>1, FS_EmptySet DEF Counter
<1>3. QED
  BY <1>1, <1>2, ShapeStep, CounterStep, PTL DEF Spec
-----------------------------------------------------------------------------
(* The monitor: callbacks nest, and one call runs inside it at a time.     *)

\* A call that has not begun has no caller yet; a call that a callback made
\* and that has not ended has its caller wait in that callback.
Nested ==
  /\ \A c \in Calls : pc[c] = "idle" => parent[c] = None /\ key[c] = None
  /\ \A c \in Calls : parent[c] # None /\ pc[c] \notin Finished => pc[parent[c]] = "callback"

\* The call whose turn it is in the thread that holds the monitor: inside the
\* batch, in a callback that waits for no call, or made by such a callback.
Runs(c) ==
  \/ pc[c] \in {"copy", "apply", "loop", "complete"}
  \/ pc[c] = "callback" /\ Running(c)
  \/ parent[c] # None /\ pc[c] \in {"put", "count", "enter"}

OneRuns == \A c, d \in Calls : Runs(c) /\ Runs(d) => c = d

Monitor == Nested /\ OneRuns

\* A call that goes on without a call of its own in progress.
LEMMA MonitorKept ==
  ASSUME Shape, Monitor, NEW c \in Calls, UNCHANGED <<parent, key>>,
         \A d \in Calls \ {c} : pc'[d] = pc[d],
         pc[c] \notin Finished, pc[c] # "idle", pc'[c] \notin Finished, pc'[c] # "idle",
         pc[c] = "callback" => Running(c), Runs(c)' => Runs(c)
  PROVE  Monitor'
<1>1. \A d \in Calls : pc'[d] \in Finished <=> pc[d] \in Finished
  OBVIOUS
<1>2. Nested'
  <2>1. ASSUME NEW d \in Calls, pc'[d] = "idle" PROVE parent'[d] = None /\ key'[d] = None
    BY <2>1 DEF Monitor, Nested
  <2>2. ASSUME NEW d \in Calls, parent'[d] # None, pc'[d] \notin Finished
        PROVE  pc'[parent'[d]] = "callback"
    <3>1. parent[d] \in Calls /\ pc[parent[d]] = "callback" /\ pc[d] \notin Finished
      BY <1>1, <2>2 DEF Monitor, Nested, Shape, TypeOK
    <3>2. parent[d] # c
      BY <3>1 DEF Running
    <3>3. QED
      BY <3>1, <3>2
  <2>3. QED
    BY <2>1, <2>2 DEF Nested
<1>3. \A d \in Calls : Running(d)' <=> Running(d)
  BY <1>1 DEF Running
<1>4. \A d \in Calls : Runs(d)' => Runs(d)
  BY <1>3 DEF Runs
<1>5. QED
  BY <1>2, <1>4 DEF Monitor, OneRuns

\* A call that ends: its caller, if a callback made it, goes on.
LEMMA MonitorEnds ==
  ASSUME Shape, Monitor, NEW c \in Calls, UNCHANGED <<parent, key>>,
         \A d \in Calls \ {c} : pc'[d] = pc[d],
         pc[c] \in {"put", "count", "enter", "copy", "apply", "loop", "complete"},
         pc'[c] \in Finished
  PROVE  Monitor'
<1> USE DEF Finished
<1>1. Nested'
  <2>1. ASSUME NEW d \in Calls, pc'[d] = "idle" PROVE parent'[d] = None /\ key'[d] = None
    BY <2>1 DEF Monitor, Nested
  <2>2. ASSUME NEW d \in Calls, parent'[d] # None, pc'[d] \notin Finished
        PROVE  pc'[parent'[d]] = "callback"
    <3>1. parent[d] \in Calls /\ pc[parent[d]] = "callback"
      BY <2>2 DEF Monitor, Nested, Shape, TypeOK
    <3>2. QED
      BY <3>1
  <2>3. QED
    BY <2>1, <2>2 DEF Nested
<1>2. \A d \in Calls : parent[c] # d => (Running(d)' <=> Running(d))
  BY DEF Running
<1>3. \A d \in Calls : Runs(d)' => d # c /\ (Runs(d) \/ d = parent[c])
  BY <1>2 DEF Runs
<1>4. CASE parent[c] = None
  <2>1. \A d \in Calls : Runs(d)' => Runs(d)
    BY <1>3, <1>4, CallsAssumption
  <2>2. QED
    BY <1>1, <2>1 DEF Monitor, OneRuns
<1>5. CASE parent[c] # None
  <2>1. Runs(c)
    BY <1>5 DEF Runs
  <2>2. \A d \in Calls : Runs(d)' => d = parent[c]
    BY <1>3, <2>1 DEF Monitor, OneRuns
  <2>3. QED
    BY <1>1, <2>2 DEF Monitor, OneRuns
<1>6. QED
  BY <1>4, <1>5

\* A call enters the monitor from outside while nobody is inside.
LEMMA MonitorEntered ==
  ASSUME Shape, Monitor, NEW c \in Calls, UNCHANGED <<parent, key>>,
         \A d \in Calls \ {c} : pc'[d] = pc[d], pc[c] = "enter", pc'[c] = "copy",
         parent[c] = None, \A d \in Calls : pc[d] \notin Critical
  PROVE  Monitor'
<1>1. \A d \in Calls : parent[d] # None => pc[d] \in Finished
  BY DEF Monitor, Nested, Critical, Shape, TypeOK
<1>2. \A d \in Calls : ~Runs(d)
  BY <1>1 DEF Runs, Critical, Finished
<1>3. Nested'
  <2>1. ASSUME NEW d \in Calls, pc'[d] = "idle" PROVE parent'[d] = None /\ key'[d] = None
    BY <2>1 DEF Monitor, Nested
  <2>2. \A d \in Calls : parent'[d] # None => pc'[d] \in Finished
    BY <1>1
  <2>3. QED
    BY <2>1, <2>2 DEF Nested
<1>4. \A d \in Calls : Runs(d)' => d = c
  <2>1. ASSUME NEW d \in Calls, d # c PROVE ~Runs(d)'
    <3>1. pc'[d] \notin Critical /\ (parent'[d] # None => pc'[d] \in Finished)
      BY <1>1, <2>1
    <3>2. QED
      BY <3>1 DEF Runs, Critical, Finished
  <2>2. QED
    BY <2>1
<1>5. QED
  BY <1>3, <1>4 DEF Monitor, OneRuns

\* Whatever calls and callbacks do, their turns in the monitor nest.
LEMMA MonitorStep == Shape /\ Shape' /\ Monitor /\ [Next]_vars => Monitor'
<1> SUFFICES ASSUME Shape, Shape', Monitor, [Next]_vars PROVE Monitor'
  OBVIOUS
<1> USE CallsAssumption, KeysAssumption
<1>1. ASSUME NEW c \in Calls, NEW k \in Keys, NEW p \in Calls \cup {None}, SendRequest(c, k, p)
      PROVE  Monitor'
  <2>1. /\ pc[c] = "idle" /\ parent[c] = None /\ (p # None => RunsCallback(p))
        /\ key' = [key EXCEPT ![c] = k] /\ parent' = [parent EXCEPT ![c] = p]
    BY <1>1 DEF SendRequest, Monitor, Nested
  <2>2. pc'[c] \in {"put", "returned"} /\ \A d \in Calls \ {c} : pc'[d] = pc[d]
    BY <1>1 DEF SendRequest, Goto, Shape, TypeOK
  <2>3. parent'[c] = p /\ \A d \in Calls \ {c} : parent'[d] = parent[d] /\ key'[d] = key[d]
    BY <2>1 DEF Shape, TypeOK
  <2>4. p # None => pc[p] = "callback" /\ Runs(p) /\ p \in Calls
    BY <2>1 DEF RunsCallback, Runs
  <2>5. Nested'
    <3>1. ASSUME NEW d \in Calls, pc'[d] = "idle" PROVE parent'[d] = None /\ key'[d] = None
      BY <2>2, <2>3, <3>1 DEF Monitor, Nested
    <3>2. ASSUME NEW d \in Calls, parent'[d] # None, pc'[d] \notin Finished
          PROVE  pc'[parent'[d]] = "callback"
      <4>1. CASE d = c
        BY <2>1, <2>2, <2>3, <2>4, <3>2, <4>1
      <4>2. CASE d # c
        <5>1. parent[d] \in Calls /\ pc[parent[d]] = "callback"
          BY <2>2, <2>3, <3>2, <4>2 DEF Monitor, Nested, Shape, TypeOK
        <5>2. QED
          BY <2>1, <2>2, <2>3, <4>2, <5>1
      <4>3. QED
        BY <4>1, <4>2
    <3>3. QED
      BY <3>1, <3>2 DEF Nested
  <2>6. \A d \in Calls \ {p} : Running(d)' <=> Running(d)
    BY <2>1, <2>2, <2>3 DEF Running
  <2>7. \A d \in Calls \ {c, p} : Runs(d)' => Runs(d)
    BY <2>2, <2>3, <2>6 DEF Runs
  <2>8. CASE p = None
    <3>1. ~Runs(c)'
      BY <2>2, <2>3, <2>8 DEF Runs
    <3>2. QED
      BY <2>5, <2>7, <2>8, <3>1 DEF Monitor, OneRuns
  <2>9. CASE p # None
    <3>1. \A d \in Calls : Runs(d)' => d \in {c, p}
      BY <2>4, <2>7, <2>9 DEF Monitor, OneRuns
    <3>2. CASE pc'[c] = "put"
      <4>1. p # c /\ ~Running(p)'
        BY <2>1, <2>3, <2>4, <2>9, <3>2 DEF Running, Finished
      <4>2. ~Runs(p)'
        BY <2>2, <2>4, <2>9, <4>1 DEF Runs
      <4>3. QED
        BY <2>5, <3>1, <4>2 DEF Monitor, OneRuns
    <3>3. CASE pc'[c] = "returned"
      <4>1. ~Runs(c)'
        BY <3>3 DEF Runs
      <4>2. QED
        BY <2>5, <3>1, <4>1 DEF Monitor, OneRuns
    <3>4. QED
      BY <2>2, <3>2, <3>3
  <2>10. QED
    BY <2>8, <2>9
<1>2. ASSUME NEW c \in Calls, Put(c) \/ Count(c) PROVE Monitor'
  <2>1. /\ UNCHANGED <<parent, key>> /\ pc[c] \in {"put", "count"}
        /\ pc'[c] \in {"count", "enter"} /\ \A d \in Calls \ {c} : pc'[d] = pc[d]
    BY <1>2 DEF Put, Count, Goto, callVars, Shape, TypeOK
  <2>2. Runs(c)' => Runs(c)
    BY <2>1 DEF Runs
  <2>3. QED
    BY <2>1, <2>2, MonitorKept DEF Finished
<1>3. ASSUME NEW c \in Calls, Enter(c) PROVE Monitor'
  <2>1. /\ UNCHANGED <<parent, key>> /\ pc[c] = "enter" /\ MonitorFree(c)
        /\ pc'[c] \in {"copy", "returned"} /\ \A d \in Calls \ {c} : pc'[d] = pc[d]
    BY <1>3 DEF Enter, Finish, Goto, callVars, Shape, TypeOK
  <2>2. CASE pc'[c] = "returned"
    BY <2>1, <2>2, MonitorEnds DEF Finished
  <2>3. CASE pc'[c] = "copy" /\ parent[c] # None
    <3>1. Runs(c)
      BY <2>1, <2>3 DEF Runs
    <3>2. QED
      BY <2>1, <2>3, <3>1, MonitorKept DEF Finished
  <2>4. CASE pc'[c] = "copy" /\ parent[c] = None
    <3>1. \A d \in Calls : pc[d] \notin Critical
      BY <2>1, <2>4 DEF MonitorFree
    <3>2. QED
      BY <2>1, <2>4, <3>1, MonitorEntered
  <2>5. QED
    BY <2>1, <2>2, <2>3, <2>4
<1>4. ASSUME NEW c \in Calls, Copy(c) \/ Apply(c) \/ ResponseMissing(c) \/ Return(c) PROVE Monitor'
  <2>1. /\ UNCHANGED <<parent, key>> /\ pc[c] \in {"copy", "apply", "loop"}
        /\ pc'[c] \in {"apply", "loop"} \cup Finished /\ \A d \in Calls \ {c} : pc'[d] = pc[d]
    BY <1>4 DEF Copy, Apply, ResponseMissing, Return, Finish, Finished, Goto, callVars, Shape, TypeOK
  <2>2. Runs(c)
    BY <2>1 DEF Runs
  <2>3. CASE pc'[c] \in Finished
    BY <2>1, <2>3, MonitorEnds
  <2>4. CASE pc'[c] \in {"apply", "loop"}
    BY <2>1, <2>2, <2>4, MonitorKept DEF Finished
  <2>5. QED
    BY <2>1, <2>3, <2>4
<1>5. ASSUME NEW c \in Calls, Remove(c) \/ Complete(c) \/ Resume(c) PROVE Monitor'
  <2>1. /\ UNCHANGED <<parent, key>> /\ pc[c] \in {"loop", "complete", "callback"}
        /\ (pc[c] = "callback" => Running(c))
        /\ pc'[c] \in {"loop", "complete", "callback"} /\ \A d \in Calls \ {c} : pc'[d] = pc[d]
    <3>1. \E l \in {"loop", "complete", "callback"} :
            pc[c] \in {"loop", "complete", "callback"} /\ (pc' = [pc EXCEPT ![c] = l] \/ (pc' = pc /\ pc[c] = l))
      BY <1>5 DEF Remove, Complete, Resume, Goto
    <3>2. UNCHANGED <<parent, key>> /\ (pc[c] = "callback" => Running(c))
      BY <1>5 DEF Remove, Complete, Resume, callVars
    <3>3. DOMAIN pc = Calls
      BY DEF Shape, TypeOK
    <3>4. QED
      BY <3>1, <3>2, <3>3
  <2>2. Runs(c)
    BY <2>1 DEF Runs
  <2>3. QED
    BY <2>1, <2>2, MonitorKept DEF Finished
<1>6. CASE UNCHANGED vars
  BY <1>6 DEF vars, Monitor, Nested, OneRuns, Runs, Running
<1>7. QED
  BY <1>1, <1>2, <1>3, <1>4, <1>5, <1>6 DEF Next, Step

LEMMA MonitorHolds == Spec => [](Shape /\ Monitor)
<1>1. Init => Shape /\ Monitor
  BY CallsAssumption, KeysAssumption
     DEF Init, Shape, TypeOK, CallOK, Finished, Critical, Monitor, Nested, OneRuns, Runs
<1>2. QED
  BY <1>1, ShapeStep, MonitorStep, PTL DEF Spec

-----------------------------------------------------------------------------
(* What a batch has before it.                                             *)

\* The requests a batch has not come to yet: the one it is completing is
\* removed from the map already.
Ahead(c) ==
  {list[c][n] : n \in (IF pc[c] \in {"complete", "callback"} THEN idx[c] + 1 ELSE idx[c])..Len(list[c])}

Batching == {"apply", "loop", "complete", "callback"}

\* Of every call: its list has no request twice, since keySet() is a set; as
\* long as its own future is mapped, its batch has it to come to; and what its
\* batch has to come to is mapped, unless its callbacks have made calls.
BatchOK(c) ==
  /\ \A m, n \in 1..Len(list[c]) : list[c][m] = list[c][n] => m = n
  /\ pc[c] # "idle" /\ cache[key[c]] = c =>
       /\ pc[c] = "copy" => key[c] \in seen[c]
       /\ pc[c] \in Batching => key[c] \in Ahead(c)
  /\ pc[c] \in Batching =>
       \A k \in Ahead(c) : cache[k] # None \/ \E d \in Calls : parent[d] = c

Batches == \A c \in Calls : BatchOK(c)

\* No step but its own changes what a batch has before it.
LEMMA AheadKept ==
  ASSUME NEW c \in Calls, pc'[c] = pc[c], list'[c] = list[c], idx'[c] = idx[c]
  PROVE  Ahead(c)' = Ahead(c)
BY DEF Ahead

\* An enumeration of a set of keys is a list without repetition.
LEMMA EnumerationIsList ==
  ASSUME NEW S \in SUBSET Keys, NEW s \in Orderings(S)
  PROVE  /\ s \in Seq(Keys) /\ Len(s) \in Nat /\ DOMAIN s = 1..Len(s)
         /\ {s[n] : n \in 1..Len(s)} = S
         /\ \A m, n \in 1..Len(s) : s[m] = s[n] => m = n
<1>1. IsFiniteSet(S) /\ Cardinality(S) \in Nat
  BY KeysAssumption, FS_Subset, FS_CardinalityType
<1>2. s \in [1..Cardinality(S) -> S] /\ s \in [1..Cardinality(S) -> Keys]
  BY DEF Orderings
<1>3. s \in Seq(Keys)
  BY <1>1, <1>2, FunctionIsSequence
<1>4. Len(s) \in Nat /\ DOMAIN s = 1..Len(s)
  BY <1>3, LenProperties
<1>5. 1..Len(s) = 1..Cardinality(S)
  BY <1>2, <1>4
<1>6. {s[n] : n \in 1..Len(s)} = S
  BY <1>2, <1>5 DEF Orderings
<1>7. s \in Surjection(1..Cardinality(S), S)
  BY <1>2 DEF Surjection, Orderings
<1>8. IsFiniteSet(1..Cardinality(S)) /\ Cardinality(1..Cardinality(S)) = Cardinality(S)
  BY <1>1, FS_Interval
<1>9. s \in Injection(1..Cardinality(S), S)
  BY <1>7, <1>8, FS_SurjSameCardinalityImpliesInj
<1>10. \A m, n \in 1..Len(s) : s[m] = s[n] => m = n
  BY <1>2, <1>5, <1>9 DEF Injection, IsInjective
<1>11. QED
  BY <1>3, <1>4, <1>6, <1>10

LEMMA ParentsStay ==
  Shape /\ Monitor /\ [Next]_vars =>
    \A c \in Calls : (\E d \in Calls : parent[d] = c) => (\E d \in Calls : parent'[d] = c)
<1> SUFFICES ASSUME Shape, Monitor, [Next]_vars, NEW c \in Calls, NEW d \in Calls, parent[d] = c
             PROVE  parent'[d] = c
  OBVIOUS
<1>1. ASSUME NEW e \in Calls, NEW k \in Keys, NEW p \in Calls \cup {None}, SendRequest(e, k, p)
      PROVE  parent'[d] = c
  <2>1. parent' = [parent EXCEPT ![e] = p] /\ parent[e] = None
    BY <1>1 DEF SendRequest, Monitor, Nested
  <2>2. d # e
    BY <2>1, CallsAssumption
  <2>3. QED
    BY <2>1, <2>2 DEF Shape, TypeOK
<1>2. ASSUME NEW e \in Calls, Step(e) PROVE parent' = parent
  BY <1>2 DEF Step, Put, Count, Enter, Copy, Apply, Remove, ResponseMissing, Complete, Resume,
              Return, callVars
<1>3. CASE UNCHANGED vars
  BY <1>3 DEF vars
<1>4. QED
  BY <1>1, <1>2, <1>3 DEF Next

\* A step leaves the batch of another call as it is, if it takes nothing from
\* the map that this batch has to come to.
LEMMA OtherBatch ==
  ASSUME Shape, Monitor, Batches, [Next]_vars, NEW d \in Calls,
         pc'[d] = pc[d], key'[d] = key[d], seen'[d] = seen[d], list'[d] = list[d], idx'[d] = idx[d],
         \A k \in Keys : cache'[k] = d => cache[k] = d,
         pc[d] \in Batching =>
           (\E e \in Calls : parent[e] = d) \/ \A k \in Keys : cache[k] # None => cache'[k] # None
  PROVE  BatchOK(d)'
<1>1. BatchOK(d) /\ Ahead(d)' = Ahead(d)
  BY AheadKept DEF Batches
<1>2. (\E e \in Calls : parent[e] = d) => (\E e \in Calls : parent'[e] = d)
  BY ParentsStay
<1>3. pc[d] # "idle" => key[d] \in Keys
  BY DEF Shape, CallOK
<1>4. Ahead(d) \subseteq Keys
  <2>1. list[d] \in Seq(Keys) /\ idx[d] \in Nat \ {0} /\ Len(list[d]) \in Nat
    BY LenProperties DEF Shape, TypeOK
  <2>2. \A n \in 1..Len(list[d]) : list[d][n] \in Keys
    BY <2>1, ElementOfSeq
  <2>3. QED
    BY <2>1, <2>2 DEF Ahead
<1>5. \A m, n \in 1..Len(list'[d]) : list'[d][m] = list'[d][n] => m = n
  BY <1>1 DEF BatchOK
<1>6. pc'[d] # "idle" /\ cache'[key'[d]] = d =>
        /\ pc'[d] = "copy" => key'[d] \in seen'[d]
        /\ pc'[d] \in Batching => key'[d] \in Ahead(d)'
  BY <1>1, <1>3 DEF BatchOK
<1>7. pc'[d] \in Batching =>
        \A k \in Ahead(d)' : cache'[k] # None \/ \E e \in Calls : parent'[e] = d
  BY <1>1, <1>2, <1>4 DEF BatchOK
<1>8. QED
  BY <1>5, <1>6, <1>7 DEF BatchOK

LEMMA BatchesStep == Shape /\ Shape' /\ Monitor /\ Batches /\ [Next]_vars => Batches'
<1> SUFFICES ASSUME Shape, Shape', Monitor, Batches, [Next]_vars PROVE Batches'
  OBVIOUS
<1> USE CallsAssumption, KeysAssumption
<1>0. /\ \A d \in Calls : list[d] \in Seq(Keys) /\ idx[d] \in Nat \ {0} /\ Len(list[d]) \in Nat
      /\ \A d \in Calls : BatchOK(d)
  BY LenProperties DEF Shape, TypeOK, Batches
<1>1. ASSUME NEW c \in Calls, UNCHANGED <<list, idx>>, cache' = cache,
             \A d \in Calls \ {c} : pc'[d] = pc[d] /\ key'[d] = key[d] /\ seen'[d] = seen[d],
             BatchOK(c)'
      PROVE  Batches'
  <2>1. ASSUME NEW d \in Calls \ {c} PROVE BatchOK(d)'
    BY <1>1, OtherBatch
  <2>2. QED
    BY <1>1, <2>1 DEF Batches
<1>2. ASSUME NEW c \in Calls, NEW k \in Keys, NEW p \in Calls \cup {None}, SendRequest(c, k, p)
      PROVE  Batches'
  <2>1. /\ UNCHANGED <<list, idx, seen>> /\ cache' = cache /\ pc'[c] \in {"put", "returned"}
        /\ \A d \in Calls \ {c} : pc'[d] = pc[d] /\ key'[d] = key[d]
    BY <1>2 DEF SendRequest, Goto, batchVars, Shape, TypeOK
  <2>2. BatchOK(c)'
    BY <1>0, <2>1 DEF BatchOK, Batching
  <2>3. QED
    BY <1>1, <2>1, <2>2
<1>3. ASSUME NEW c \in Calls, Put(c) PROVE Batches'
  <2>1. /\ UNCHANGED <<key, list, idx, seen>> /\ cache' = [cache EXCEPT ![key[c]] = c]
        /\ pc'[c] \in {"count", "enter"} /\ \A d \in Calls \ {c} : pc'[d] = pc[d]
    BY <1>3 DEF Put, AfterPut, Goto, callVars, batchVars, Shape, TypeOK
  <2>2. BatchOK(c)'
    BY <1>0, <2>1 DEF BatchOK, Batching
  <2>3. ASSUME NEW d \in Calls \ {c} PROVE BatchOK(d)'
    <3>1. \A j \in Keys : (cache'[j] = d => cache[j] = d) /\ (cache[j] # None => cache'[j] # None)
      BY <2>1 DEF Shape, TypeOK
    <3>2. QED
      BY <2>1, <3>1, OtherBatch
  <2>4. QED
    BY <2>2, <2>3 DEF Batches
<1>4. ASSUME NEW c \in Calls, Count(c) \/ ResponseMissing(c) \/ Return(c) PROVE Batches'
  <2>1. /\ UNCHANGED <<key, list, idx, seen>> /\ cache' = cache
        /\ pc'[c] \in {"enter", "thrown", "returned"} /\ \A d \in Calls \ {c} : pc'[d] = pc[d]
    BY <1>4 DEF Count, ResponseMissing, Return, Finish, Goto, callVars, batchVars, Shape, TypeOK
  <2>2. BatchOK(c)'
    BY <1>0, <2>1 DEF BatchOK, Batching
  <2>3. QED
    BY <1>1, <2>1, <2>2
<1>5. ASSUME NEW c \in Calls, Enter(c) PROVE Batches'
  <2>1. /\ UNCHANGED <<key, list, idx>> /\ cache' = cache /\ pc[c] = "enter"
        /\ pc'[c] \in {"copy", "returned"} /\ (pc'[c] = "copy" => seen'[c] = Cached)
        /\ \A d \in Calls \ {c} : pc'[d] = pc[d] /\ seen'[d] = seen[d]
    BY <1>5 DEF Enter, Finish, Goto, callVars, Shape, TypeOK
  <2>2. cache[key[c]] = c => key[c] \in Cached
    BY <2>1 DEF Cached, Shape, CallOK
  <2>3. BatchOK(c)'
    BY <1>0, <2>1, <2>2 DEF BatchOK, Batching
  <2>4. QED
    BY <1>1, <2>1, <2>3
<1>6. ASSUME NEW c \in Calls, Copy(c) PROVE Batches'
  <2>1. /\ UNCHANGED <<key, idx, seen>> /\ cache' = cache /\ pc[c] = "copy" /\ pc'[c] = "apply"
        /\ \A d \in Calls \ {c} : pc'[d] = pc[d] /\ list'[d] = list[d]
    BY <1>6 DEF Copy, Goto, callVars, Shape, TypeOK
  <2>2. PICK S \in SUBSET Cached :
          seen[c] \subseteq S /\ \E s \in Orderings(S) : list' = [list EXCEPT ![c] = s]
    BY <1>6 DEF Copy
  <2>3. PICK s \in Orderings(S) : list' = [list EXCEPT ![c] = s]
    BY <2>2
  <2>4. S \in SUBSET Keys /\ list'[c] = s /\ idx'[c] = 1
    BY <2>1, <2>3 DEF Cached, Shape, TypeOK, CallOK
  <2>5. {s[n] : n \in 1..Len(s)} = S /\ \A m, n \in 1..Len(s) : s[m] = s[n] => m = n
    BY <2>4, EnumerationIsList
  <2>6. Ahead(c)' = S
    BY <2>1, <2>4, <2>5 DEF Ahead
  <2>7. BatchOK(c)'
    <3>1. cache[key[c]] = c => key[c] \in S
      BY <1>0, <2>1, <2>2 DEF BatchOK
    <3>2. \A k \in S : cache'[k] # None
      BY <2>1, <2>2 DEF Cached
    <3>3. QED
      BY <2>1, <2>4, <2>5, <2>6, <3>1, <3>2 DEF BatchOK
  <2>8. ASSUME NEW d \in Calls \ {c} PROVE BatchOK(d)'
    BY <2>1, OtherBatch
  <2>9. QED
    BY <2>7, <2>8 DEF Batches
<1>7. ASSUME NEW c \in Calls, Apply(c) \/ Complete(c) PROVE Batches'
  <2>1. /\ UNCHANGED <<key, parent, list, idx, seen>> /\ cache' = cache
        /\ \/ pc[c] = "apply" /\ pc'[c] \in {"loop", "thrown"}
           \/ pc[c] = "complete" /\ pc'[c] = "callback"
        /\ \A d \in Calls \ {c} : pc'[d] = pc[d]
    BY <1>7 DEF Apply, Complete, Goto, callVars, batchVars, Shape, TypeOK
  <2>2. pc'[c] # "thrown" => Ahead(c)' = Ahead(c)
    BY <2>1 DEF Ahead
  <2>3. BatchOK(c)'
    BY <1>0, <2>1, <2>2 DEF BatchOK, Batching
  <2>4. QED
    BY <1>1, <2>1, <2>3
<1>8. ASSUME NEW c \in Calls, Resume(c) PROVE Batches'
  <2>1. /\ UNCHANGED <<key, parent, list, seen>> /\ cache' = cache
        /\ pc[c] = "callback" /\ pc'[c] = "loop" /\ idx'[c] = idx[c] + 1
        /\ \A d \in Calls \ {c} : pc'[d] = pc[d] /\ idx'[d] = idx[d]
    BY <1>8 DEF Resume, NextIndex, Goto, callVars, Shape, TypeOK
  <2>2. Ahead(c)' = Ahead(c)
    BY <2>1 DEF Ahead
  <2>3. BatchOK(c)'
    BY <1>0, <2>1, <2>2 DEF BatchOK, Batching
  <2>4. ASSUME NEW d \in Calls \ {c} PROVE BatchOK(d)'
    BY <2>1, OtherBatch
  <2>5. QED
    BY <2>3, <2>4 DEF Batches
<1>9. ASSUME NEW c \in Calls, Remove(c) PROVE Batches'
  <2> DEFINE r == list[c][idx[c]]
  <2>1. /\ UNCHANGED <<key, parent, list, seen>> /\ cache' = [cache EXCEPT ![r] = None]
        /\ pc[c] = "loop" /\ idx[c] \in 1..Len(list[c])
    BY <1>0, <1>9 DEF Remove, AfterRemove, callVars
  <2>2. r \in Keys
    BY <1>0, <2>1, ElementOfSeq
  <2>3. /\ \A j \in Keys \ {r} : cache'[j] = cache[j]
        /\ cache'[r] = None
    BY <2>1, <2>2 DEF Shape, TypeOK
  <2>4. /\ Ahead(c)' = {list[c][n] : n \in (idx[c] + 1)..Len(list[c])}
        /\ pc'[c] \in {"loop", "complete"}
        /\ \A d \in Calls \ {c} : pc'[d] = pc[d] /\ idx'[d] = idx[d]
    <3>1. CASE cache[r] # None
      <4>1. idx' = idx /\ pc'[c] = "complete" /\ \A d \in Calls \ {c} : pc'[d] = pc[d]
        BY <1>9, <3>1 DEF Remove, Goto, Shape, TypeOK
      <4>2. QED
        BY <2>1, <4>1 DEF Ahead
    <3>2. CASE cache[r] = None
      <4>1. pc' = pc /\ idx'[c] = idx[c] + 1 /\ \A d \in Calls \ {c} : idx'[d] = idx[d]
        BY <1>9, <3>2 DEF Remove, NextIndex, Shape, TypeOK
      <4>2. QED
        BY <2>1, <4>1 DEF Ahead
    <3>3. QED
      BY <3>1, <3>2
  <2>5. Ahead(c)' = Ahead(c) \ {r} /\ Ahead(c) \subseteq Keys
    <3>1. \A n \in (idx[c] + 1)..Len(list[c]) : n \in 1..Len(list[c]) /\ n # idx[c]
      BY <1>0
    <3>2. \A n \in (idx[c] + 1)..Len(list[c]) : list[c][n] # r
      BY <1>0, <2>1, <3>1 DEF BatchOK
    <3>3. \A n \in idx[c]..Len(list[c]) : n = idx[c] \/ n \in (idx[c] + 1)..Len(list[c])
      BY <1>0
    <3>4. \A n \in idx[c]..Len(list[c]) : list[c][n] \in Keys
      BY <1>0, ElementOfSeq
    <3>5. \A n \in (idx[c] + 1)..Len(list[c]) : n \in idx[c]..Len(list[c])
      BY <1>0
    <3>6. Ahead(c) = {list[c][n] : n \in idx[c]..Len(list[c])}
      BY <2>1 DEF Ahead
    <3>7. QED
      BY <2>4, <3>2, <3>3, <3>4, <3>5, <3>6
  <2>6. BatchOK(c)'
    <3>1. key[c] \in Keys
      BY <2>1 DEF Shape, CallOK
    <3>2. cache'[key[c]] = c => key[c] # r /\ cache[key[c]] = c
      BY <2>3, <3>1
    <3>3. cache'[key[c]] = c => key[c] \in Ahead(c)'
      BY <1>0, <2>1, <2>5, <3>2 DEF BatchOK, Batching
    <3>4. \A k \in Ahead(c)' : cache'[k] # None \/ \E d \in Calls : parent'[d] = c
      BY <1>0, <2>1, <2>3, <2>5 DEF BatchOK, Batching
    <3>5. \A m, n \in 1..Len(list'[c]) : list'[c][m] = list'[c][n] => m = n
      BY <1>0, <2>1 DEF BatchOK
    <3>6. QED
      BY <2>1, <2>4, <3>3, <3>4, <3>5 DEF BatchOK
  <2>7. ASSUME NEW d \in Calls \ {c} PROVE BatchOK(d)'
    <3>1. \A j \in Keys : cache'[j] = d => cache[j] = d
      BY <2>3
    <3>2. ASSUME pc[d] \in Batching PROVE \E e \in Calls : parent[e] = d
      <4>1. Runs(c)
        BY <2>1 DEF Runs
      <4>2. ~Runs(d)
        BY <2>7, <4>1 DEF Monitor, OneRuns
      <4>3. ~Running(d)
        BY <3>2, <4>2 DEF Runs, Batching
      <4>4. QED
        BY <4>3 DEF Running
    <3>3. QED
      BY <2>1, <2>4, <3>1, <3>2, OtherBatch
  <2>8. QED
    BY <2>6, <2>7 DEF Batches
<1>10. CASE UNCHANGED vars
  <2>1. ASSUME NEW d \in Calls PROVE BatchOK(d)'
    BY <1>10, OtherBatch DEF vars, callVars, batchVars
  <2>2. QED
    BY <2>1 DEF Batches
<1>11. QED
  BY <1>2, <1>3, <1>4, <1>5, <1>6, <1>7, <1>8, <1>9, <1>10 DEF Next, Step

LEMMA BatchesHold == Spec => [](Shape /\ Monitor /\ Batches)
<1>1. Init => Batches
  <2> SUFFICES ASSUME Init, NEW c \in Calls PROVE BatchOK(c)
    BY DEF Batches
  <2>1. Len(list[c]) = 0 /\ pc[c] = "idle"
    BY DEF Init
  <2>2. QED
    BY <2>1 DEF BatchOK, Batching
<1>2. QED
  BY <1>1, MonitorHolds, BatchesStep, PTL DEF Spec

\* What a batch comes to is still mapped, unless a callback of the batch made
\* a call: nobody else can take it, whoever else adds or replaces.
THEOREM OnlyCallbacksTake == Spec => []RemovalFindsFuture
<1>1. Shape /\ Batches => RemovalFindsFuture
  <2> SUFFICES ASSUME Shape, Batches, NEW c \in Calls, pc[c] \in {"apply", "loop"}, NEW k \in Rest(c)
               PROVE  cache[k] # None \/ \E d \in Calls : parent[d] = c
    BY DEF RemovalFindsFuture
  <2>1. k \in Ahead(c)
    BY DEF Ahead, Rest
  <2>2. QED
    BY <2>1 DEF Batches, BatchOK, Batching
<1>2. QED
  BY <1>1, BatchesHold, PTL
-----------------------------------------------------------------------------
(* When sendRequest may return.                                            *)

\* While a call has its turn in the monitor, no other holds a future that it
\* has removed and not completed yet.
LEMMA NobodyHolds ==
  ASSUME Monitor, NEW c \in Calls, Runs(c), pc[c] # "complete"
  PROVE  InHand = {}
<1>1. ASSUME NEW d \in Calls, pc[d] = "complete" PROVE FALSE
  <2>1. Runs(d)
    BY <1>1 DEF Runs
  <2>2. QED
    BY <1>1, <2>1 DEF Monitor, OneRuns
<1>2. QED
  BY <1>1 DEF InHand

\* A call that has made a future and is given it: the future is not mapped
\* any more, unless the counter lags, and no batch holds it.
LEMMA ReturnStep ==
  ASSUME Shape, Places, Monitor, Batches, Counter, [Next]_vars,
         NEW c \in Calls, ret[c] = None, ret'[c] = c
  PROVE  answer[c] # None \/ c \in lost \/ Lagging # {}
<1> USE CallsAssumption, KeysAssumption
<1>1. c \in Created => c \in Mapped \cup InHand \cup Answered \cup lost
  BY DEF Places, OnePlace
<1>2. c \in Mapped => c \in Created
  BY DEF Places, OnePlace
<1>3. ASSUME pc[c] \in {"enter", "loop"}, c \notin Mapped, InHand = {}
      PROVE  answer[c] # None \/ c \in lost
  <2>1. c \in Created
    BY <1>3 DEF Created
  <2>2. QED
    BY <1>1, <1>3, <2>1 DEF Answered
<1>4. ASSUME NEW d \in Calls, NEW k \in Keys, NEW p \in Calls \cup {None}, SendRequest(d, k, p)
      PROVE  FALSE
  <2>1. pc[d] = "idle" /\ (ret' = ret \/ (cache[k] # None /\ ret' = [ret EXCEPT ![d] = cache[k]]))
    BY <1>4 DEF SendRequest
  <2>2. d = c /\ cache[k] = c
    BY <2>1 DEF Shape, TypeOK
  <2>3. QED
    BY <1>2, <2>1, <2>2 DEF Mapped, Created
<1>5. ASSUME NEW d \in Calls, Enter(d) PROVE answer[c] # None \/ c \in lost \/ Lagging # {}
  <2>1. pc[d] = "enter" /\ MonitorFree(d) /\ (ret' = ret \/ (IsEmpty /\ ret' = [ret EXCEPT ![d] = d]))
    BY <1>5 DEF Enter, Finish
  <2>2. d = c /\ IsEmpty
    BY <2>1 DEF Shape, TypeOK
  <2>3. InHand = {}
    <3>1. CASE parent[c] = None
      BY <2>1, <2>2, <3>1 DEF MonitorFree, Critical, InHand
    <3>2. CASE parent[c] # None
      <4>1. Runs(c) /\ pc[c] # "complete"
        BY <2>1, <2>2, <3>2 DEF Runs
      <4>2. QED
        BY <4>1, NobodyHolds
    <3>3. QED
      BY <3>1, <3>2
  <2>4. CASE Lagging = {}
    <3>1. Cached = {}
      BY <2>2, <2>4, EmptyCounter DEF Counting, Lagging
    <3>2. c \notin Mapped
      BY <3>1 DEF Mapped, Cached
    <3>3. QED
      BY <1>3, <2>1, <2>2, <2>3, <3>2
  <2>5. QED
    BY <2>4
<1>6. ASSUME NEW d \in Calls, Return(d) PROVE answer[c] # None \/ c \in lost
  <2>1. pc[d] = "loop" /\ idx[d] > Len(list[d]) /\ ret' = [ret EXCEPT ![d] = d]
    BY <1>6 DEF Return, Finish
  <2>2. d = c
    BY <2>1 DEF Shape, TypeOK
  <2>3. InHand = {}
    BY <2>1, <2>2, NobodyHolds DEF Runs
  <2>4. Ahead(c) = {}
    <3>1. Len(list[c]) \in Nat /\ idx[c] \in Nat
      BY LenProperties DEF Shape, TypeOK
    <3>2. idx[c]..Len(list[c]) = {}
      BY <2>1, <2>2, <3>1
    <3>3. QED
      BY <2>1, <2>2, <3>2 DEF Ahead
  <2>5. cache[key[c]] # c
    BY <2>1, <2>2, <2>4 DEF Batches, BatchOK, Batching
  <2>6. c \notin Mapped
    BY <2>5 DEF Mapped, Places, HitsArePending
  <2>7. QED
    BY <1>3, <2>1, <2>2, <2>3, <2>6
<1>7. ASSUME NEW d \in Calls,
             Put(d) \/ Count(d) \/ Copy(d) \/ Apply(d) \/ Remove(d) \/ ResponseMissing(d)
               \/ Complete(d) \/ Resume(d)
      PROVE  FALSE
  <2>1. ret' = ret
    BY <1>7 DEF Put, Count, Copy, Apply, Remove, ResponseMissing, Complete, Resume
  <2>2. QED
    BY <2>1
<1>8. CASE UNCHANGED vars
  BY <1>8 DEF vars
<1>9. QED
  BY <1>4, <1>5, <1>6, <1>7, <1>8 DEF Next, Step

\* sendRequest hands its own future to its caller only when the future is
\* answered, unless a racing put has replaced it or the map's counter lags
\* behind an insertion.
THEOREM ReturnsAreAnswered == Spec => ReturnsAnswered
<1>1. Shape /\ Places /\ Monitor /\ Batches /\ Counter /\ [Next]_vars =>
        [\A c \in Calls : (ret[c] = None /\ ret'[c] = c)
           => (answer[c] # None \/ c \in lost \/ Lagging # {})]_vars
  BY ReturnStep
<1>2. QED
  BY <1>1, PlacesHold, CounterHolds, BatchesHold, PTL DEF Spec, ReturnsAnswered
-----------------------------------------------------------------------------
(* The aggregator is a broker of futures.                                  *)

\* The future as the broker keeps it.
Futures == [f \in Calls |-> FutureState(f)]

\* The state of a future is the place where it is.
LEMMA StateIsPlace ==
  ASSUME Places, NEW f \in Calls
  PROVE  /\ FutureState(f) = "open" <=> f \in Mapped
         /\ FutureState(f) = "closed" <=> f \in InHand \cup Answered
         /\ FutureState(f) = "dropped" <=> f \in lost
         /\ FutureState(f) = "none" <=> f \notin Created
<1>1. /\ Created = Mapped \cup InHand \cup Answered \cup lost
      /\ Mapped \cap (InHand \cup Answered \cup lost) = {}
      /\ InHand \cap (Answered \cup lost) = {} /\ Answered \cap lost = {}
  BY DEF Places, OnePlace
<1>2. CASE f \in Mapped
  <2>1. FutureState(f) = "open"
    BY <1>1, <1>2 DEF FutureState
  <2>2. QED
    BY <1>1, <1>2, <2>1
<1>3. CASE f \in InHand \cup Answered
  <2>1. FutureState(f) = "closed"
    BY <1>1, <1>3 DEF FutureState
  <2>2. QED
    BY <1>1, <1>3, <2>1
<1>4. CASE f \in lost
  <2>1. FutureState(f) = "dropped"
    BY <1>1, <1>4 DEF FutureState
  <2>2. QED
    BY <1>1, <1>4, <2>1
<1>5. CASE f \notin Mapped \cup InHand \cup Answered \cup lost
  <2>1. FutureState(f) = "none"
    BY <1>5 DEF FutureState
  <2>2. QED
    BY <1>1, <1>5, <2>1
<1>6. QED
  BY <1>2, <1>3, <1>4, <1>5

\* The only open future for a request is the one it is mapped to.
LEMMA OpenIsMapped ==
  ASSUME Shape, Places, NEW k \in Keys
  PROVE  Broker!OpenFor(k) = {cache[k]} \ {None}
<1> USE CallsAssumption, KeysAssumption
<1>1. Broker!OpenFor(k) = {f \in Calls : f \in Mapped /\ key[f] = k}
  BY StateIsPlace DEF Broker!OpenFor
<1>2. ASSUME NEW f \in Calls, f \in Mapped, key[f] = k PROVE cache[k] = f
  BY <1>2 DEF Mapped, Places, HitsArePending
<1>3. cache[k] # None => cache[k] \in Calls /\ cache[k] \in Mapped /\ key[cache[k]] = k
  <2>1. cache[k] \in Calls \cup {None}
    BY DEF Shape, TypeOK
  <2>2. QED
    BY <2>1 DEF Mapped, Places, HitsArePending
<1>4. QED
  BY <1>1, <1>2, <1>3

\* A step that takes no future anywhere.
LEMMA NoMoves ==
  ASSUME UNCHANGED <<cache, answer, lost>>,
         \A d \in Calls : pc'[d] = "complete" <=> pc[d] = "complete",
         \A d \in Calls : pc[d] = "complete" => taken'[d] = taken[d]
  PROVE  Futures' = Futures
<1>1. Mapped' = Mapped /\ InHand' = InHand /\ Answered' = Answered
  BY DEF Mapped, InHand, Answered
<1>2. QED
  BY <1>1 DEF Futures, FutureState

\* The end of a call that made a future gives it to its caller.
LEMMA ReturnGives ==
  ASSUME Shape, Places, NEW c \in Calls, pc[c] \in {"enter", "loop"},
         UNCHANGED <<cache, answer, lost, key, taken>>, Finish(c)
  PROVE  Broker!Give(c)
<1>1. ret[c] = None /\ c \in Created
  BY DEF Shape, TypeOK, CallOK, Created
<1>2. \A d \in Calls : pc'[d] = "complete" <=> pc[d] = "complete"
  BY DEF Finish, Goto, Shape, TypeOK
<1>3. Futures' = Futures
  BY <1>2, NoMoves
<1>4. FutureState(c) # "none" /\ Futures[c] # "none"
  BY <1>1, StateIsPlace DEF Futures
<1>5. QED
  BY <1>1, <1>3, <1>4 DEF Broker!Give, Finish, Futures

\* Every step of the aggregator is a step of the broker, or none.
LEMMA BrokerStep ==
  Shape /\ Shape' /\ Places /\ Places' /\ Monitor /\ [Next]_vars => [Broker!Next]_(Broker!vars)
<1> SUFFICES ASSUME Shape, Shape', Places, Places', Monitor, [Next]_vars
             PROVE  Broker!Next \/ UNCHANGED Broker!vars
  OBVIOUS
<1> USE CallsAssumption, KeysAssumption
<1>0. ASSUME Futures' = Futures, UNCHANGED <<key, ret, answer>> PROVE UNCHANGED Broker!vars
  BY <1>0 DEF Broker!vars, Futures
<1>1. ASSUME NEW c \in Calls, NEW k \in Keys, NEW p \in Calls \cup {None}, SendRequest(c, k, p)
      PROVE  Broker!Ask(c, k)
  <2>1. /\ pc[c] = "idle" /\ key[c] = None /\ key' = [key EXCEPT ![c] = k]
        /\ UNCHANGED <<cache, answer, lost, taken>>
    BY <1>1 DEF SendRequest, batchVars, Monitor, Nested
  <2>2. \A d \in Calls : pc'[d] = "complete" <=> pc[d] = "complete"
    <3>1. \E l \in {"put", "returned"} : pc' = [pc EXCEPT ![c] = l]
      BY <1>1 DEF SendRequest, Goto
    <3>2. QED
      BY <2>1, <3>1 DEF Shape, TypeOK
  <2>3. Futures' = Futures
    BY <2>1, <2>2, NoMoves
  <2>4. \/ Broker!OpenFor(k) = {} /\ ret' = ret
        \/ \E f \in Broker!OpenFor(k) : ret' = [ret EXCEPT ![c] = f]
    <3>1. Broker!OpenFor(k) = {cache[k]} \ {None}
      BY OpenIsMapped
    <3>2. CASE cache[k] = None
      <4>1. ret' = ret
        BY <1>1, <3>2 DEF SendRequest
      <4>2. QED
        BY <3>1, <3>2, <4>1
    <3>3. CASE cache[k] # None
      <4>1. ret' = [ret EXCEPT ![c] = cache[k]] /\ cache[k] \in Broker!OpenFor(k)
        BY <1>1, <3>1, <3>3 DEF SendRequest
      <4>2. QED
        BY <4>1
    <3>4. QED
      BY <3>2, <3>3
  <2>5. QED
    BY <2>1, <2>3, <2>4 DEF Broker!Ask, Futures
<1>2. ASSUME NEW c \in Calls, Put(c) PROVE Broker!Open(c)
  <2> DEFINE old == {cache[key[c]]} \ {None}
  <2>1. pc[c] = "put" /\ key[c] \in Keys /\ key[c] # None /\ ret[c] = None
        /\ UNCHANGED <<key, ret, answer>>
    BY <1>2 DEF Put, callVars, Shape, TypeOK, CallOK
  <2>2. /\ c \notin Mapped \cup InHand \cup Answered \cup lost
        /\ Mapped' = (Mapped \ old) \cup {c} /\ lost' = lost \cup old
        /\ InHand' = InHand /\ Answered' = Answered /\ old \subseteq Mapped
    BY <1>2, PutMoves
  <2>3. Broker!OpenFor(key[c]) = old
    BY <2>1, OpenIsMapped
  <2>4. FutureState(c) = "none"
    BY <2>1, StateIsPlace DEF Created
  <2>5. ASSUME NEW f \in Calls
        PROVE  FutureState(f)' = (CASE f = c -> "open" [] f \in old -> "dropped"
                                    [] OTHER -> FutureState(f))
    <3>1. CASE f = c
      <4>1. FutureState(f)' = "open"
        BY <2>2, <3>1 DEF FutureState
      <4>2. f \notin old
        BY <2>2, <3>1
      <4>3. QED
        BY <3>1, <4>1, <4>2
    <3>2. CASE f # c /\ f \in old
      <4>1. f \in Mapped /\ f \notin InHand \cup Answered \cup lost
        BY <2>2, <3>2 DEF Places, OnePlace
      <4>2. f \notin Mapped' /\ f \notin InHand' \cup Answered' /\ f \in lost'
        BY <2>2, <3>2, <4>1
      <4>3. FutureState(f)' = "dropped"
        BY <4>2 DEF FutureState
      <4>4. QED
        BY <3>2, <4>3
    <3>3. CASE f # c /\ f \notin old
      <4>1. /\ f \in Mapped' <=> f \in Mapped
            /\ f \in InHand' \cup Answered' <=> f \in InHand \cup Answered
            /\ f \in lost' <=> f \in lost
        BY <2>2, <3>3
      <4>2. FutureState(f)' = FutureState(f)
        BY <4>1 DEF FutureState
      <4>3. QED
        BY <3>3, <4>2
    <3>4. QED
      BY <3>1, <3>2, <3>3
  <2>6. QED
    BY <2>1, <2>3, <2>4, <2>5 DEF Broker!Open
<1>3. ASSUME NEW c \in Calls, Remove(c) PROVE Broker!Next \/ UNCHANGED Broker!vars
  <2>0. PICK f : f = cache[list[c][idx[c]]]
    OBVIOUS
  <2>1. pc[c] = "loop" /\ UNCHANGED <<answer, key, ret, lost>>
        /\ cache' = [cache EXCEPT ![list[c][idx[c]]] = None]
    BY <1>3 DEF Remove, AfterRemove, callVars
  <2>2. CASE f = None
    <3>1. cache' = cache /\ UNCHANGED <<taken, pc>>
      <4>1. cache[list[c][idx[c]]] = None
        BY <2>0, <2>2
      <4>2. QED
        BY <1>3, <2>1, <4>1 DEF Remove, Shape, TypeOK
    <3>2. Futures' = Futures
      BY <2>1, <3>1, NoMoves
    <3>3. QED
      BY <1>0, <2>1, <3>2
  <2>3. CASE f # None
    <3>1. /\ f \in Mapped /\ f \notin InHand \cup Answered \cup lost
          /\ Mapped' = Mapped \ {f} /\ InHand' = InHand \cup {f}
          /\ Answered' = Answered /\ lost' = lost
      BY <1>3, <2>0, <2>3, RemoveMoves
    <3>2. f \in Calls /\ FutureState(f) = "open" /\ FutureState(f)' = "closed"
      <4>1. f \in Calls
        BY <3>1 DEF Mapped
      <4>2. FutureState(f) = "open"
        BY <3>1 DEF FutureState
      <4>3. f \notin Mapped' /\ f \in InHand' \cup Answered' /\ f \notin lost'
        BY <3>1
      <4>4. FutureState(f)' = "closed"
        BY <4>3 DEF FutureState
      <4>5. QED
        BY <4>1, <4>2, <4>4
    <3>3. ASSUME NEW g \in Calls, g # f PROVE FutureState(g)' = FutureState(g)
      <4>1. /\ g \in Mapped' <=> g \in Mapped
            /\ g \in InHand' \cup Answered' <=> g \in InHand \cup Answered
            /\ g \in lost' <=> g \in lost
        BY <3>1, <3>3
      <4>2. QED
        BY <4>1 DEF FutureState
    <3>4. Futures[f] = "open" /\ Futures' = [Futures EXCEPT ![f] = "closed"]
      <4>1. Futures[f] = "open" /\ Futures' = [g \in Calls |-> FutureState(g)']
        BY <3>2 DEF Futures
      <4>2. \A g \in Calls : FutureState(g)' = IF g = f THEN "closed" ELSE FutureState(g)
        BY <3>2, <3>3
      <4>3. QED
        BY <4>1, <4>2 DEF Futures
    <3>5. Broker!CloseFuture(f)
      BY <2>1, <3>4 DEF Broker!CloseFuture, Futures
    <3>6. QED
      BY <3>2, <3>5 DEF Broker!Next
  <2>4. QED
    BY <2>2, <2>3
<1>4. ASSUME NEW c \in Calls, Complete(c) PROVE Broker!Next
  <2> DEFINE f == taken[c]
  <2>1. /\ f \in Calls /\ f \in InHand /\ f \notin Mapped \cup Answered \cup lost
        /\ answer' = [answer EXCEPT ![f] = key[f]]
        /\ Mapped' = Mapped /\ InHand' = InHand \ {f}
        /\ Answered' = Answered \cup {f} /\ lost' = lost
    BY <1>4, CompleteMoves
  <2>2. UNCHANGED <<key, ret>>
    BY <1>4 DEF Complete, callVars
  <2>3. FutureState(f) = "closed" /\ answer[f] = None
    BY <2>1 DEF FutureState, Answered
  <2>4. Futures' = Futures
    <3>1. InHand' \cup Answered' = InHand \cup Answered
      BY <2>1
    <3>2. ASSUME NEW g \in Calls PROVE FutureState(g)' = FutureState(g)
      <4>1. g \in InHand' \cup Answered' <=> g \in InHand \cup Answered
        BY <3>1
      <4>2. QED
        BY <2>1, <4>1 DEF FutureState
    <3>3. QED
      BY <3>2 DEF Futures
  <2>5. Broker!Answer(f)
    BY <2>1, <2>2, <2>3, <2>4 DEF Broker!Answer, Futures
  <2>6. QED
    BY <2>1, <2>5 DEF Broker!Next
<1>5. ASSUME NEW c \in Calls, Enter(c) PROVE Broker!Next \/ UNCHANGED Broker!vars
  <2>1. pc[c] = "enter" /\ UNCHANGED <<cache, answer, lost, key, taken>>
    BY <1>5 DEF Enter, callVars
  <2>2. CASE Finish(c)
    BY <2>1, <2>2, ReturnGives DEF Broker!Next
  <2>3. CASE Goto(c, "copy") /\ ret' = ret
    <3>1. \A d \in Calls : pc'[d] = "complete" <=> pc[d] = "complete"
      BY <2>1, <2>3 DEF Goto, Shape, TypeOK
    <3>2. QED
      BY <1>0, <2>1, <2>3, <3>1, NoMoves
  <2>4. QED
    BY <1>5, <2>2, <2>3 DEF Enter
<1>6. ASSUME NEW c \in Calls, Return(c) PROVE Broker!Next
  <2>1. /\ pc[c] = "loop" /\ Finish(c)
        /\ UNCHANGED <<cache, answer, lost, key, taken>>
    BY <1>6 DEF Return, callVars, batchVars
  <2>2. QED
    BY <2>1, ReturnGives DEF Broker!Next
<1>7. ASSUME NEW c \in Calls, Count(c) \/ Copy(c) \/ Apply(c) \/ ResponseMissing(c) \/ Resume(c)
      PROVE  UNCHANGED Broker!vars
  <2>1. UNCHANGED <<cache, answer, lost, key, ret>>
    BY <1>7 DEF Count, Copy, Apply, ResponseMissing, Resume, callVars
  <2>2. \A d \in Calls : pc'[d] = "complete" <=> pc[d] = "complete"
    <3>1. /\ pc[c] # "complete"
          /\ \E l \in {"enter", "apply", "loop", "thrown"} : pc' = [pc EXCEPT ![c] = l]
      BY <1>7 DEF Count, Copy, Apply, ResponseMissing, Resume, Goto
    <3>2. QED
      BY <3>1 DEF Shape, TypeOK
  <2>3. \A d \in Calls : pc[d] = "complete" => taken'[d] = taken[d]
    <3>1. pc[c] # "complete" /\ (taken' = taken \/ taken' = [taken EXCEPT ![c] = None])
      BY <1>7 DEF Count, Copy, Apply, ResponseMissing, Resume, batchVars
    <3>2. QED
      BY <3>1 DEF Shape, TypeOK
  <2>4. QED
    BY <1>0, <2>1, <2>2, <2>3, NoMoves
<1>8. CASE UNCHANGED vars
  BY <1>0, <1>8, NoMoves DEF vars, callVars, batchVars
<1>9. QED
  <2>1. CASE \E c \in Calls, k \in Keys, p \in Calls \cup {None} : SendRequest(c, k, p)
    BY <1>1, <2>1 DEF Broker!Next
  <2>2. CASE \E c \in Calls : Step(c)
    BY <1>2, <1>3, <1>4, <1>5, <1>6, <1>7, <2>2 DEF Step, Broker!Next
  <2>3. QED
    BY <1>8, <2>1, <2>2 DEF Next

\* The aggregator implements a broker of futures: behind the map, the
\* monitor, the counter and the batches, a caller sees a future opened, joined
\* while it is open, closed, answered once with the response to its own
\* request, or dropped in favour of a newer one.
THEOREM ImplementsBroker == Spec => BrokersFutures
<1>1. Init => Broker!Init
  <2> SUFFICES ASSUME Init PROVE Broker!Init
    OBVIOUS
  <2>1. Mapped = {} /\ InHand = {} /\ Answered = {} /\ lost = {}
    BY CallsAssumption DEF Init, Mapped, InHand, Answered
  <2>2. \A f \in Calls : FutureState(f) = "none"
    BY <2>1 DEF FutureState
  <2>3. QED
    BY <2>2 DEF Init, Broker!Init
<1>2. Shape /\ Shape' /\ Places /\ Places' /\ Monitor /\ [Next]_vars => [Broker!Next]_(Broker!vars)
  BY BrokerStep
<1>3. QED
  BY <1>1, <1>2, PlacesHold, MonitorHolds, PTL DEF Spec, BrokersFutures, Broker!Spec
-----------------------------------------------------------------------------
(* The client.                                                             *)

LEMMA Mains ==
  /\ \A n \in 1..2 : Own[n] \in {Call1, Call2} /\ Own[n] \in Calls /\ Request[n] \in Keys
  /\ Own[1] = Call1 /\ Own[2] = Call2 /\ Call1 # Call2
  /\ Request[1] = Request1 /\ Request[2] = Request2
BY MainAssumption DEF Own, Request

\* Whatever the client does is a step of the aggregator, or none.
LEMMA ClientStepIsStep == [ClientNext]_allVars => [Next]_vars
<1>1. ASSUME NEW n \in 1..2, MainCalls(n) PROVE Next
  BY <1>1, Mains DEF MainCalls, Next
<1>2. ASSUME NEW n \in 1..2, ThenAccept(n) PROVE vars' = vars
  BY <1>2 DEF ThenAccept
<1>3. ASSUME NEW c \in Calls, CallStep(c) PROVE Next
  BY <1>3 DEF CallStep, OtherStep, CompleteAndPrint, Step, Next
<1>4. ASSUME NEW c \in Calls, NEW k \in Keys, NEW p \in Calls \cup {None}, OthersCall(c, k, p)
      PROVE  Next
  BY <1>4 DEF OthersCall, Next
<1>5. QED
  BY <1>1, <1>2, <1>3, <1>4 DEF ClientNext, MainStep, allVars

\* The program is a client like any other: what is proved of every use of the
\* aggregator is true of this one.
THEOREM ClientUsesAggregator == ClientSpec => Spec
<1>1. ClientInit => Init
  BY DEF ClientInit
<1>2. QED
  BY <1>1, ClientStepIsStep, PTL DEF ClientSpec, Spec

-----------------------------------------------------------------------------
(* Facts about the aggregator that a client relies on.                     *)

\* The future a call returns was made for the same request.
SameRequest ==
  \A c \in Calls :
    ret[c] # None => pc[ret[c]] \notin {"idle", "put"} /\ key[ret[c]] = key[c]

\* What a step of a call leaves alone.
LEMMA StepGrows ==
  ASSUME Shape, Places, NEW c \in Calls, Step(c)
  PROVE  /\ key' = key /\ pc[c] \notin {"idle", "returned"}
         /\ pc'[c] \notin {"idle", "put"} /\ \A d \in Calls : d # c => pc'[d] = pc[d]
         /\ \/ ret' = ret /\ pc'[c] # "returned"
            \/ /\ pc'[c] = "returned" /\ ret' = [ret EXCEPT ![c] = c]
               /\ pc[c] \in {"enter", "loop"}
         /\ \A f \in Calls : answer[f] # None => answer'[f] = answer[f]
         /\ pc[c] = "put" \/ lost' = lost
<1> USE DEF callVars, batchVars, Goto, Finish, Shape, TypeOK
<1>1. CASE Put(c)
  BY <1>1 DEF Put
<1>2. CASE Count(c) \/ Copy(c)
  BY <1>2 DEF Count, Copy
<1>3. CASE Enter(c)
  BY <1>3 DEF Enter
<1>4. CASE Apply(c)
  <2>1. pc' = [pc EXCEPT ![c] = "loop"] \/ pc' = [pc EXCEPT ![c] = "thrown"]
    BY <1>4 DEF Apply
  <2>2. QED
    BY <1>4, <2>1 DEF Apply
<1>5. CASE Remove(c)
  BY <1>5 DEF Remove
<1>6. CASE ResponseMissing(c) \/ Resume(c) \/ Return(c)
  BY <1>6 DEF ResponseMissing, Resume, Return
<1>7. CASE Complete(c)
  BY <1>7 DEF Complete
<1>8. QED
  BY <1>1, <1>2, <1>3, <1>4, <1>5, <1>6, <1>7 DEF Step

LEMMA SendGrows ==
  ASSUME Shape, Places, NEW c \in Calls, NEW k \in Keys, NEW p, SendRequest(c, k, p)
  PROVE  /\ pc[c] = "idle" /\ key' = [key EXCEPT ![c] = k]
         /\ UNCHANGED <<answer, lost>> /\ \A d \in Calls : d # c => pc'[d] = pc[d]
         /\ \/ cache[k] = None /\ pc'[c] = "put" /\ ret' = ret
            \/ /\ cache[k] \in Calls /\ key[cache[k]] = k /\ pc[cache[k]] \notin {"idle", "put"}
               /\ pc'[c] = "returned" /\ ret' = [ret EXCEPT ![c] = cache[k]]
<1> USE DEF Goto, Shape, TypeOK
<1>1. pc[c] = "idle" /\ key' = [key EXCEPT ![c] = k] /\ UNCHANGED <<answer, lost>>
  BY DEF SendRequest
<1>2. CASE cache[k] = None
  BY <1>1, <1>2 DEF SendRequest
<1>3. CASE cache[k] # None
  <2>1. cache[k] \in Calls /\ key[cache[k]] = k
    BY <1>3 DEF Places, HitsArePending
  <2>2. cache[k] \in Created
    BY <2>1 DEF Places, OnePlace, Mapped
  <2>3. QED
    BY <1>1, <1>3, <2>1, <2>2 DEF SendRequest, Created
<1>4. QED
  BY <1>2, <1>3

LEMMA SameRequestStep ==
  ASSUME Shape, Places, SameRequest, [Next]_vars
  PROVE  SameRequest'
<1> USE CallsAssumption
<1>1. ASSUME NEW c \in Calls, NEW k \in Keys, NEW p \in Calls \cup {None}, SendRequest(c, k, p)
      PROVE  SameRequest'
  <2>1. /\ pc[c] = "idle" /\ key' = [key EXCEPT ![c] = k]
        /\ \A d \in Calls : d # c => pc'[d] = pc[d]
        /\ \/ ret' = ret
           \/ /\ cache[k] \in Calls /\ key[cache[k]] = k /\ pc[cache[k]] \notin {"idle", "put"}
              /\ ret' = [ret EXCEPT ![c] = cache[k]]
    BY <1>1, SendGrows
  <2>2. TypeOK /\ ret[c] = None
    BY <2>1 DEF Shape, CallOK
  <2>3. \A d \in Calls : d # c => key'[d] = key[d]
    BY <2>1, <2>2 DEF TypeOK
  <2>4. key'[c] = k
    BY <2>1, <2>2 DEF TypeOK
  <2>5. SUFFICES ASSUME NEW d \in Calls, ret'[d] # None
                 PROVE  pc'[ret'[d]] \notin {"idle", "put"} /\ key'[ret'[d]] = key'[d]
    BY DEF SameRequest
  <2>6. CASE d = c
    <3>1. ret'[d] = cache[k] /\ cache[k] # c
      BY <2>1, <2>2, <2>5, <2>6 DEF TypeOK
    <3>2. QED
      BY <2>1, <2>2, <2>3, <2>4, <2>5, <2>6, <3>1
  <2>7. CASE d # c
    <3>1. ret'[d] = ret[d] /\ ret[d] \in Calls
      BY <2>1, <2>2, <2>5, <2>7 DEF TypeOK
    <3>2. pc[ret[d]] \notin {"idle", "put"} /\ key[ret[d]] = key[d] /\ ret[d] # c
      BY <2>1, <2>5, <3>1 DEF SameRequest
    <3>3. QED
      BY <2>1, <2>3, <2>7, <3>1, <3>2
  <2>8. QED
    BY <2>6, <2>7
<1>2. ASSUME NEW c \in Calls, Step(c) PROVE SameRequest'
  <2>1. /\ key' = key /\ pc'[c] \notin {"idle", "put"}
        /\ \A d \in Calls : d # c => pc'[d] = pc[d]
        /\ ret' = ret \/ ret' = [ret EXCEPT ![c] = c]
    BY <1>2, StepGrows
  <2>2. ASSUME NEW d \in Calls, ret'[d] # None
        PROVE  pc'[ret'[d]] \notin {"idle", "put"} /\ key'[ret'[d]] = key'[d]
    <3>1. ret'[d] = ret[d] \/ (d = c /\ ret'[d] = c)
      BY <2>1 DEF Shape, TypeOK
    <3>2. CASE ret'[d] = ret[d]
      <4>1. ret[d] \in Calls /\ pc[ret[d]] \notin {"idle", "put"} /\ key[ret[d]] = key[d]
        BY <2>2, <3>2 DEF SameRequest, Shape, TypeOK
      <4>2. QED
        BY <2>1, <3>2, <4>1
    <3>3. CASE d = c /\ ret'[d] = c
      BY <2>1, <3>3
    <3>4. QED
      BY <3>1, <3>2, <3>3
  <2>3. QED
    BY <2>2 DEF SameRequest
<1>3. CASE UNCHANGED vars
  BY <1>3 DEF vars, callVars, SameRequest
<1>4. QED
  BY <1>1, <1>2, <1>3 DEF Next

\* When every future that was made is answered, nothing is mapped.
LEMMA NothingMapped ==
  ASSUME Shape, Places,
         \A d \in Calls : pc[d] \in {"idle", "put", "returned"},
         \A d \in Calls : pc[d] = "returned" => answer[d] # None,
         NEW k \in Keys
  PROVE  cache[k] = None
<1> SUFFICES ASSUME cache[k] # None PROVE FALSE
  OBVIOUS
<1>1. cache[k] \in Calls /\ cache[k] \in Mapped
  BY DEF Shape, TypeOK, Mapped
<1>2. cache[k] \in Created /\ cache[k] \notin Answered
  BY <1>1 DEF Places, OnePlace
<1>3. QED
  BY <1>1, <1>2 DEF Created, Answered

-----------------------------------------------------------------------------
(* The client's own state.                                                 *)

Line == (1..2) \X Keys

ClientTypeOK ==
  /\ users \in {"main", "others", "both"} /\ main \in 1..5
  /\ accepted \subseteq 1..2 /\ out \in Seq(Line)
  /\ users = "others" => main = 5

\* Main's calls, if there is a main, are made in order and are nobody else's.
CallsMade ==
  users # "others" =>
    \A n \in 1..2 :
      /\ main > n <=> pc[Own[n]] # "idle"
      /\ main > n => key[Own[n]] = Request[n]

\* A callback that waits has been registered and not run; a line is of a
\* callback that was registered and does not wait any more.
Printing ==
  /\ \A n \in accepted : users # "others" /\ n + 2 < main /\ pc[Own[n]] = "returned"
  /\ \A i \in DOMAIN out :
       out[i][1] + 2 < main /\ out[i][1] \notin accepted /\ out[i][2] = Request[out[i][1]]
  /\ \A i, j \in DOMAIN out : out[i][1] = out[j][1] => i = j

\* Alone with the aggregator main has one call in progress at a time, which
\* finds nothing mapped and returns its own future, answered.
SoloCalls ==
  users = "main" =>
    /\ lost = {}
    /\ \A c \in Calls : pc[c] # "idle" => c \in {Call1, Call2}
    /\ pc[Call2] # "idle" => pc[Call1] = "returned"
    /\ \A c \in Calls : pc[c] = "returned" => ret[c] = c /\ answer[c] # None

SoloPrinting ==
  users = "main" =>
    /\ accepted = {} /\ Len(out) = (IF main <= 3 THEN 0 ELSE main - 3)
    /\ \A i \in DOMAIN out : out[i][1] = i

AggregatorInv == Shape /\ Places /\ Monitor /\ Batches /\ Counter
ClientInv == ClientTypeOK /\ CallsMade /\ Printing /\ SoloCalls /\ SoloPrinting

LEMMA AggregatorHolds == ClientSpec => [](AggregatorInv /\ SameRequest)
<1>1. Init => SameRequest
  BY DEF Init, SameRequest
<1>2. Spec => []SameRequest
  BY <1>1, SameRequestStep, PlacesHold, BatchesHold, PTL DEF Spec
<1>3. QED
  BY <1>2, ClientUsesAggregator, PlacesHold, BatchesHold, CounterHolds, PTL DEF AggregatorInv

\* A call that main makes alone finds its request neither mapped nor, at the
\* put, mapped since.
LEMMA SoloSend ==
  ASSUME AggregatorInv, ClientTypeOK, CallsMade, SoloCalls, users = "main",
         NEW n \in 1..2, MainCalls(n)
  PROVE  SoloCalls'
<1>1. SendRequest(Own[n], Request[n], None) /\ main = n /\ users' = users
  BY DEF MainCalls
<1>2. Own[n] \in Calls /\ Own[n] \in {Call1, Call2} /\ Request[n] \in Keys
  BY Mains
<1>3. /\ pc[Own[n]] = "idle" /\ UNCHANGED <<answer, lost>>
      /\ \A d \in Calls : d # Own[n] => pc'[d] = pc[d]
      /\ \/ cache[Request[n]] = None /\ pc'[Own[n]] = "put" /\ ret' = ret
         \/ cache[Request[n]] \in Calls
  BY <1>1, <1>2, SendGrows DEF AggregatorInv
<1>4. n = 2 => pc[Call1] = "returned"
  BY Mains DEF MainCalls, CallsReturned
<1>5. n = 1 => pc[Call1] = "idle" /\ pc[Call2] = "idle"
  BY <1>1, Mains DEF CallsMade
<1>6. n = 2 => pc[Call2] = "idle"
  BY <1>1, Mains DEF CallsMade
<1>7. \A d \in Calls : pc[d] \in {"idle", "put", "returned"}
  BY <1>4, <1>5, <1>6 DEF SoloCalls
<1>8. cache[Request[n]] = None
  BY <1>2, <1>7, NothingMapped DEF AggregatorInv, SoloCalls
<1>9. pc'[Own[n]] = "put" /\ ret' = ret
  BY <1>3, <1>8, CallsAssumption
<1>10. pc'[Call2] # "idle" => pc'[Call1] = "returned"
  BY <1>1, <1>3, <1>4, <1>5, <1>9, Mains
<1>11. QED
  BY <1>1, <1>2, <1>3, <1>9, <1>10 DEF SoloCalls

LEMMA SoloStep ==
  ASSUME AggregatorInv, SoloCalls, users = "main", users' = users,
         NEW c \in Calls, Step(c)
  PROVE  SoloCalls'
<1>1. /\ pc[c] \notin {"idle", "returned"} /\ pc'[c] \notin {"idle", "put"}
      /\ \A d \in Calls : d # c => pc'[d] = pc[d]
      /\ \/ ret' = ret /\ pc'[c] # "returned"
         \/ /\ pc'[c] = "returned" /\ ret' = [ret EXCEPT ![c] = c]
            /\ pc[c] \in {"enter", "loop"}
      /\ \A f \in Calls : answer[f] # None => answer'[f] = answer[f]
      /\ pc[c] = "put" \/ lost' = lost
  BY StepGrows DEF AggregatorInv
<1>2. c \in {Call1, Call2} /\ Call1 \in Calls /\ Call2 \in Calls /\ Call1 # Call2
  BY <1>1, MainAssumption DEF SoloCalls
<1>3. \A d \in Calls : d # c => pc[d] \in {"idle", "returned"}
  BY <1>1, <1>2 DEF SoloCalls
<1>4. lost' = {}
  <2>1. CASE pc[c] = "put"
    <3>1. \A d \in Calls : pc[d] \in {"idle", "put", "returned"}
      BY <1>3, <2>1
    <3>2. \A k \in Keys : cache[k] = None
      BY <3>1, NothingMapped DEF AggregatorInv, SoloCalls
    <3>3. key[c] \in Keys
      BY <2>1 DEF AggregatorInv, Shape, CallOK
    <3>4. lost' = lost \cup ({cache[key[c]]} \ {None})
      BY <2>1 DEF Step, Put, Count, Enter, Copy, Apply, Remove, ResponseMissing, Complete,
             Resume, Return
    <3>5. QED
      BY <3>2, <3>3, <3>4 DEF SoloCalls
  <2>2. CASE pc[c] # "put"
    BY <1>1, <2>2 DEF SoloCalls
  <2>3. QED
    BY <2>1, <2>2
<1>5. pc'[c] = "returned" => ret'[c] = c /\ answer'[c] # None
  <2>1. SUFFICES ASSUME pc'[c] = "returned" PROVE ret'[c] = c /\ answer'[c] # None
    OBVIOUS
  <2>2. ret[c] = None /\ ret'[c] = c
    BY <1>1, <2>1 DEF AggregatorInv, Shape, TypeOK, CallOK
  <2>3. [Next]_vars
    BY DEF Next
  <2>4. answer[c] # None \/ c \in lost \/ Lagging # {}
    BY <2>2, <2>3, ReturnStep DEF AggregatorInv
  <2>5. Lagging = {}
    BY <1>1, <1>3, <2>1 DEF Lagging
  <2>6. QED
    BY <1>1, <2>2, <2>4, <2>5 DEF SoloCalls
<1>6. \A d \in Calls : d # c => ret'[d] = ret[d]
  BY <1>1 DEF AggregatorInv, Shape, TypeOK
<1>7. pc'[Call2] # "idle" => pc'[Call1] = "returned"
  BY <1>1, <1>2 DEF SoloCalls
<1>8. \A d \in Calls : pc'[d] # "idle" => d \in {Call1, Call2}
  BY <1>1, <1>2 DEF SoloCalls
<1>9. \A d \in Calls : pc'[d] = "returned" => ret'[d] = d /\ answer'[d] # None
  BY <1>1, <1>5, <1>6 DEF SoloCalls
<1>10. QED
  BY <1>4, <1>7, <1>8, <1>9 DEF SoloCalls

\* A line more: that of a callback that was not run before.
LEMMA LinePrinted ==
  ASSUME ClientTypeOK, Printing, NEW n \in 1..2, NEW v \in Keys,
         out' = Append(out, <<n, v>>), v = Request[n],
         n \notin accepted', accepted' \subseteq accepted, main' >= main, n + 2 < main', main' \in 1..5,
         \A i \in DOMAIN out : out[i][1] # n
  PROVE  /\ out' \in Seq(Line) /\ Len(out') = Len(out) + 1
         /\ out'[Len(out) + 1][1] = n /\ \A i \in DOMAIN out : out'[i] = out[i]
         /\ \A i \in DOMAIN out' : i \in DOMAIN out \/ i = Len(out) + 1
         /\ \A i \in DOMAIN out' :
              out'[i][1] + 2 < main' /\ out'[i][1] \notin accepted' /\ out'[i][2] = Request[out'[i][1]]
         /\ \A i, j \in DOMAIN out' : out'[i][1] = out'[j][1] => i = j
<1>1. out \in Seq(Line) /\ <<n, v>> \in Line /\ Len(out) \in Nat /\ DOMAIN out = 1..Len(out)
  BY LenProperties DEF ClientTypeOK, Line
<1>2. out' \in Seq(Line) /\ Len(out') = Len(out) + 1
  BY <1>1, AppendProperties
<1>3. out'[Len(out) + 1] = <<n, v>> /\ \A i \in 1..Len(out) : out'[i] = out[i]
  BY <1>1, AppendProperties
<1>4. \A i \in DOMAIN out' : i \in DOMAIN out \/ i = Len(out) + 1
  BY <1>1, <1>2, LenProperties
<1>5. \A i \in DOMAIN out : out[i] \in Line
  BY <1>1, ElementOfSeq
<1>6. \A i \in DOMAIN out :
        out[i][1] + 2 < main' /\ out[i][1] \notin accepted' /\ out[i][2] = Request[out[i][1]]
  BY <1>5 DEF Printing, ClientTypeOK, Line
<1>7. \A i \in DOMAIN out' :
        out'[i][1] + 2 < main' /\ out'[i][1] \notin accepted' /\ out'[i][2] = Request[out'[i][1]]
  BY <1>1, <1>3, <1>4, <1>6
<1>8. \A i, j \in DOMAIN out' : out'[i][1] = out'[j][1] => i = j
  BY <1>1, <1>3, <1>4 DEF Printing
<1>9. QED
  BY <1>1, <1>2, <1>3, <1>4, <1>7, <1>8

\* A call that is not main's, or a step inside the aggregator, leaves what main
\* has been told as it is.
LEMMA MainUndisturbed ==
  ASSUME ClientTypeOK, CallsMade, UNCHANGED <<users, main>>,
         \A d \in {Call1, Call2} : users # "others" =>
           key'[d] = key[d] /\ (pc'[d] = "idle" <=> pc[d] = "idle")
  PROVE  CallsMade'
BY Mains DEF CallsMade

LEMMA ClientStep ==
  AggregatorInv /\ AggregatorInv' /\ SameRequest /\ ClientInv /\ [ClientNext]_allVars => ClientInv'
<1> SUFFICES ASSUME AggregatorInv, AggregatorInv', SameRequest, ClientInv, [ClientNext]_allVars
             PROVE  ClientInv'
  OBVIOUS
<1> USE CallsAssumption, KeysAssumption
<1>1. /\ Shape /\ TypeOK /\ Places /\ CallOK
      /\ ClientTypeOK /\ CallsMade /\ Printing /\ SoloCalls /\ SoloPrinting
  BY DEF AggregatorInv, ClientInv, Shape
<1>2. ASSUME NEW n \in 1..2, MainCalls(n) PROVE ClientInv'
  <2>1. /\ SendRequest(Own[n], Request[n], None) /\ main = n /\ main' = n + 1
        /\ UNCHANGED <<users, accepted, out>> /\ Own[n] \in Calls /\ Request[n] \in Keys
    BY <1>2, Mains DEF MainCalls
  <2>2. /\ pc[Own[n]] = "idle" /\ key' = [key EXCEPT ![Own[n]] = Request[n]]
        /\ pc'[Own[n]] # "idle" /\ \A d \in Calls : d # Own[n] => pc'[d] = pc[d]
    BY <1>1, <2>1, SendGrows
  <2>3. ClientTypeOK'
    BY <1>1, <2>1 DEF ClientTypeOK
  <2>4. CallsMade'
    <3>1. \A m \in 1..2 : m # n => Own[m] # Own[n] /\ Own[m] \in Calls
      BY Mains
    <3>2. \A m \in 1..2 : m # n => key'[Own[m]] = key[Own[m]] /\ pc'[Own[m]] = pc[Own[m]]
      BY <1>1, <2>2, <3>1 DEF TypeOK
    <3>3. key'[Own[n]] = Request[n]
      BY <1>1, <2>1, <2>2 DEF TypeOK
    <3>4. \A m \in 1..2 : main' > m <=> (main > m \/ m = n)
      BY <2>1
    <3>5. QED
      BY <1>1, <2>1, <2>2, <3>2, <3>3, <3>4 DEF CallsMade
  <2>5. Printing'
    <3>1. \A m \in accepted : pc'[Own[m]] = "returned"
      <4>1. ASSUME NEW m \in accepted PROVE pc'[Own[m]] = "returned"
        <5>1. m \in 1..2 /\ Own[m] \in Calls /\ pc[Own[m]] = "returned"
          BY <1>1, Mains DEF ClientTypeOK, Printing
        <5>2. QED
          BY <2>2, <5>1
      <4>2. QED
        BY <4>1
    <3>2. \A i \in DOMAIN out : out[i][1] \in Int
      BY <1>1, ElementOfSeq, LenProperties DEF ClientTypeOK, Line
    <3>3. accepted \subseteq Int
      BY <1>1 DEF ClientTypeOK
    <3>4. QED
      BY <1>1, <2>1, <3>1, <3>2, <3>3 DEF Printing
  <2>6. SoloCalls'
    <3>1. users = "main" => SoloCalls'
      BY <1>1, <1>2, SoloSend DEF AggregatorInv
    <3>2. QED
      BY <2>1, <3>1 DEF SoloCalls
  <2>7. SoloPrinting'
    BY <1>1, <2>1 DEF SoloPrinting
  <2>8. QED
    BY <2>3, <2>4, <2>5, <2>6, <2>7 DEF ClientInv
<1>3. ASSUME NEW n \in 1..2, ThenAccept(n) PROVE ClientInv'
  <2> DEFINE f == ret[Own[n]]
  <2>1. /\ main = n + 2 /\ main' = n + 3 /\ users' = users /\ vars' = vars
        /\ pc[Own[1]] = "returned" /\ pc[Own[2]] = "returned"
        /\ \/ answer[f] # None /\ out' = Append(out, <<n, answer[f]>>) /\ accepted' = accepted
           \/ answer[f] = None /\ accepted' = accepted \cup {n} /\ out' = out
    BY <1>3 DEF ThenAccept, CallsReturned
  <2>2. UNCHANGED <<pc, ret, key, answer, lost>>
    BY <2>1 DEF vars, callVars
  <2>3. Own[n] \in Calls /\ pc[Own[n]] = "returned" /\ f \in Calls
    <3>1. n = 1 \/ n = 2
      OBVIOUS
    <3>2. Own[n] \in Calls /\ pc[Own[n]] = "returned"
      BY <2>1, <3>1, Mains
    <3>3. QED
      BY <1>1, <3>2 DEF TypeOK, CallOK
  <2>4. users # "others" /\ n \notin accepted /\ \A i \in DOMAIN out : out[i][1] # n
    <3>1. main # 5
      BY <2>1
    <3>2. \A m \in 1..2 : m + 2 < main => m # n
      BY <2>1
    <3>3. \A i \in DOMAIN out : out[i][1] \in 1..2
      BY <1>1, ElementOfSeq, LenProperties DEF ClientTypeOK, Line
    <3>4. QED
      BY <1>1, <3>1, <3>2, <3>3 DEF ClientTypeOK, Printing
  <2>5. answer[f] # None => answer[f] = Request[n] /\ Request[n] \in Keys
    <3>1. answer[f] # None => answer[f] = key[f]
      BY <1>1, <2>3 DEF Places, RightAnswer
    <3>2. key[f] = key[Own[n]]
      BY <2>3 DEF SameRequest
    <3>3. key[Own[n]] = Request[n]
      BY <1>1, <2>1, <2>4 DEF CallsMade
    <3>4. QED
      BY <3>1, <3>2, <3>3, Mains
  <2>6. CallsMade' /\ SoloCalls'
    <3>1. \A m \in 1..2 : main' > m /\ main > m
      BY <2>1
    <3>2. QED
      BY <1>1, <2>1, <2>2, <3>1 DEF CallsMade, SoloCalls
  <2>7. users = "main" => f = Own[n] /\ answer[f] # None
    BY <1>1, <2>3 DEF SoloCalls
  <2>8. CASE answer[f] # None /\ out' = Append(out, <<n, answer[f]>>) /\ accepted' = accepted
    <3>1. PICK v \in Keys : v = answer[f] /\ v = Request[n]
      BY <2>5, <2>8
    <3>2. main' >= main /\ n + 2 < main' /\ main' \in 1..5
      BY <2>1
    <3>3. /\ out' \in Seq(Line) /\ Len(out') = Len(out) + 1
          /\ out'[Len(out) + 1][1] = n /\ \A i \in DOMAIN out : out'[i] = out[i]
          /\ \A i \in DOMAIN out' : i \in DOMAIN out \/ i = Len(out) + 1
          /\ \A i \in DOMAIN out' :
               out'[i][1] + 2 < main' /\ out'[i][1] \notin accepted' /\ out'[i][2] = Request[out'[i][1]]
          /\ \A i, j \in DOMAIN out' : out'[i][1] = out'[j][1] => i = j
      BY <1>1, <2>4, <2>8, <3>1, <3>2, LinePrinted
    <3>4. ClientTypeOK'
      BY <1>1, <2>1, <2>4, <2>8, <3>2, <3>3 DEF ClientTypeOK
    <3>5. Printing'
      <4>1. accepted \subseteq Int
        BY <1>1 DEF ClientTypeOK
      <4>2. QED
        BY <1>1, <2>1, <2>2, <2>8, <3>3, <4>1 DEF Printing
    <3>6. SoloPrinting'
      <4>1. SUFFICES ASSUME users = "main" PROVE SoloPrinting'
        BY <2>1 DEF SoloPrinting
      <4>2. Len(out) = n - 1
        BY <1>1, <2>1, <4>1 DEF SoloPrinting
      <4>3. \A i \in DOMAIN out' : out'[i][1] = i
        BY <1>1, <3>3, <4>1, <4>2 DEF SoloPrinting
      <4>4. Len(out') = main' - 3 /\ ~(main' <= 3)
        BY <2>1, <3>3, <4>2
      <4>5. QED
        BY <1>1, <2>8, <4>1, <4>3, <4>4 DEF SoloPrinting
    <3>7. QED
      BY <2>6, <3>4, <3>5, <3>6 DEF ClientInv
  <2>9. CASE answer[f] = None /\ accepted' = accepted \cup {n} /\ out' = out
    <3>1. ClientTypeOK'
      <4>1. main' \in 1..5
        BY <2>1
      <4>2. accepted' \subseteq 1..2
        BY <1>1, <2>9 DEF ClientTypeOK
      <4>3. users' # "others"
        BY <2>1, <2>4
      <4>4. QED
        BY <1>1, <2>1, <2>9, <4>1, <4>2, <4>3 DEF ClientTypeOK
    <3>2. Printing'
      <4>1. \A i \in DOMAIN out : out[i][1] \in Int
        BY <1>1, ElementOfSeq, LenProperties DEF ClientTypeOK, Line
      <4>2. accepted \subseteq Int
        BY <1>1 DEF ClientTypeOK
      <4>3. n + 2 < main' /\ \A m \in Int : m + 2 < main => m + 2 < main'
        BY <2>1
      <4>4. \A m \in accepted' : users' # "others" /\ m + 2 < main' /\ pc'[Own[m]] = "returned"
        BY <1>1, <2>1, <2>2, <2>3, <2>4, <2>9, <4>2, <4>3 DEF Printing
      <4>5. \A i \in DOMAIN out : out[i][1] + 2 < main' /\ out[i][1] \notin accepted'
        BY <1>1, <2>4, <2>9, <4>1, <4>3 DEF Printing
      <4>6. QED
        BY <1>1, <2>9, <4>4, <4>5 DEF Printing
    <3>3. SoloPrinting'
      BY <2>1, <2>7, <2>9 DEF SoloPrinting
    <3>4. QED
      BY <2>6, <3>1, <3>2, <3>3 DEF ClientInv
  <2>10. QED
    BY <2>1, <2>8, <2>9
\* What a step inside the aggregator leaves alone.
<1>4. ASSUME NEW c \in Calls, Step(c), UNCHANGED <<users, main>>
      PROVE  CallsMade' /\ SoloCalls' /\ \A d \in Calls : pc[d] = "returned" => pc'[d] = "returned"
  <2>1. /\ key' = key /\ pc[c] \notin {"idle", "returned"}
        /\ pc'[c] \notin {"idle", "put"} /\ \A d \in Calls : d # c => pc'[d] = pc[d]
    BY <1>1, <1>4, StepGrows
  <2>2. CallsMade'
    <3>1. \A d \in {Call1, Call2} :
            key'[d] = key[d] /\ (pc'[d] = "idle" <=> pc[d] = "idle")
      BY <2>1, MainAssumption
    <3>2. QED
      BY <1>1, <1>4, <3>1, MainUndisturbed
  <2>3. SoloCalls'
    <3>1. users = "main" => SoloCalls'
      BY <1>1, <1>4, SoloStep
    <3>2. QED
      BY <1>4, <3>1 DEF SoloCalls
  <2>4. QED
    BY <2>1, <2>2, <2>3
<1>5. ASSUME CallsMade', SoloCalls', UNCHANGED clientVars,
             \A d \in Calls : pc[d] = "returned" => pc'[d] = "returned"
      PROVE  ClientInv'
  <2>1. UNCHANGED <<users, main, accepted, out>>
    BY <1>5 DEF clientVars
  <2>2. \A m \in accepted : pc'[Own[m]] = "returned"
    <3>1. ASSUME NEW m \in accepted PROVE pc'[Own[m]] = "returned"
      <4>1. m \in 1..2 /\ Own[m] \in Calls /\ pc[Own[m]] = "returned"
        BY <1>1, Mains DEF ClientTypeOK, Printing
      <4>2. QED
        BY <1>5, <4>1
    <3>2. QED
      BY <3>1
  <2>3. ClientTypeOK' /\ Printing' /\ SoloPrinting'
    BY <1>1, <2>1, <2>2 DEF ClientTypeOK, Printing, SoloPrinting
  <2>4. QED
    BY <1>5, <2>3 DEF ClientInv
<1>6. ASSUME NEW c \in Calls, OtherStep(c) PROVE ClientInv'
  <2>1. Step(c) /\ UNCHANGED clientVars
    BY <1>6 DEF OtherStep, Step
  <2>2. QED
    BY <1>4, <1>5, <2>1 DEF clientVars
<1>7. ASSUME NEW c \in Calls, CompleteAndPrint(c) PROVE ClientInv'
  <2> DEFINE f == taken[c]
  <2>1. Complete(c) /\ Step(c) /\ UNCHANGED <<users, main>>
    BY <1>7 DEF CompleteAndPrint, Step
  <2>2. f \in Calls /\ answer' = [answer EXCEPT ![f] = key[f]] /\ key[f] \in Keys
    <3>1. f \in Calls /\ answer' = [answer EXCEPT ![f] = key[f]] /\ key[f] = list[c][idx[c]]
      BY <1>1, <2>1, CompleteMoves
    <3>2. f \in Created
      BY <1>1, <2>1, <3>1 DEF Places, OnePlace, InHand, Complete
    <3>3. QED
      BY <1>1, <3>1, <3>2 DEF Created, CallOK
  <2>3. CallsMade' /\ SoloCalls' /\ \A d \in Calls : pc[d] = "returned" => pc'[d] = "returned"
    BY <1>4, <2>1
  <2>4. CASE UNCHANGED <<accepted, out>>
    BY <1>5, <2>1, <2>3, <2>4 DEF clientVars
  <2>5. CASE \E n \in Waiting(f) :
                out' = Append(out, <<n, answer'[f]>>) /\ accepted' = accepted \ {n}
    <3>1. PICK n \in Waiting(f) :
            out' = Append(out, <<n, answer'[f]>>) /\ accepted' = accepted \ {n}
      BY <2>5
    <3>2. n \in accepted /\ ret[Own[n]] = f /\ n \in 1..2 /\ Own[n] \in Calls
      BY <1>1, <3>1, Mains DEF Waiting, ClientTypeOK
    <3>3. users # "others" /\ n + 2 < main /\ pc[Own[n]] = "returned"
      BY <1>1, <3>2 DEF Printing
    <3>4. answer'[f] = Request[n] /\ answer'[f] \in Keys
      <4>1. answer'[f] = key[f]
        BY <1>1, <2>2 DEF TypeOK
      <4>2. key[f] = key[Own[n]]
        BY <2>2, <3>2 DEF SameRequest
      <4>3. key[Own[n]] = Request[n]
        BY <1>1, <3>2, <3>3 DEF CallsMade, ClientTypeOK
      <4>4. QED
        BY <2>2, <4>1, <4>2, <4>3
    <3>5. PICK v \in Keys : v = answer'[f] /\ v = Request[n]
      BY <3>4
    <3>6. /\ main' = main /\ main \in 1..5 /\ main' >= main
          /\ n \notin accepted' /\ accepted' \subseteq accepted
          /\ \A i \in DOMAIN out : out[i][1] # n
      BY <1>1, <2>1, <3>1, <3>2 DEF ClientTypeOK, Printing
    <3>7. /\ out' \in Seq(Line)
          /\ \A i \in DOMAIN out' :
               out'[i][1] + 2 < main' /\ out'[i][1] \notin accepted' /\ out'[i][2] = Request[out'[i][1]]
          /\ \A i, j \in DOMAIN out' : out'[i][1] = out'[j][1] => i = j
      BY <1>1, <3>1, <3>2, <3>3, <3>5, <3>6, LinePrinted
    <3>8. ClientTypeOK'
      BY <1>1, <2>1, <3>6, <3>7 DEF ClientTypeOK
    <3>9. \A m \in accepted' : pc'[Own[m]] = "returned"
      <4>1. ASSUME NEW m \in accepted' PROVE pc'[Own[m]] = "returned"
        <5>1. m \in 1..2 /\ Own[m] \in Calls /\ pc[Own[m]] = "returned"
          BY <1>1, <3>6, <4>1, Mains DEF ClientTypeOK, Printing
        <5>2. QED
          BY <2>3, <5>1
      <4>2. QED
        BY <4>1
    <3>10. Printing'
      BY <1>1, <2>1, <3>6, <3>7, <3>9 DEF Printing
    <3>11. users # "main"
      BY <1>1, <3>2 DEF SoloPrinting
    <3>12. SoloPrinting'
      BY <2>1, <3>11 DEF SoloPrinting
    <3>13. QED
      BY <2>3, <3>8, <3>10, <3>12 DEF ClientInv
  <2>6. QED
    BY <1>7, <2>4, <2>5 DEF CompleteAndPrint
<1>8. ASSUME NEW c \in Calls, NEW k \in Keys, NEW p \in Calls \cup {None}, OthersCall(c, k, p)
      PROVE  ClientInv'
  <2>1. users # "main" /\ c \in OthersCalls /\ SendRequest(c, k, p) /\ UNCHANGED <<users, main>>
        /\ UNCHANGED clientVars
    BY <1>8 DEF OthersCall, clientVars
  <2>2. /\ pc[c] = "idle" /\ key' = [key EXCEPT ![c] = k]
        /\ \A d \in Calls : d # c => pc'[d] = pc[d]
    BY <1>1, <2>1, SendGrows
  <2>3. CallsMade'
    <3>1. users # "others" => \A d \in {Call1, Call2} : d \in Calls /\ d # c
      BY <2>1, MainAssumption DEF OthersCalls
    <3>2. users # "others" => \A d \in {Call1, Call2} :
            key'[d] = key[d] /\ (pc'[d] = "idle" <=> pc[d] = "idle")
      BY <1>1, <2>2, <3>1 DEF TypeOK
    <3>3. QED
      BY <1>1, <2>1, <3>2, MainUndisturbed
  <2>4. SoloCalls'
    BY <2>1 DEF SoloCalls
  <2>5. \A d \in Calls : pc[d] = "returned" => pc'[d] = "returned"
    BY <2>2
  <2>6. QED
    BY <1>5, <2>1, <2>3, <2>4, <2>5
<1>9. CASE UNCHANGED allVars
  <2>1. UNCHANGED clientVars /\ UNCHANGED <<users, main, accepted, out>>
        /\ UNCHANGED <<pc, ret, key, answer, lost>>
    BY <1>9 DEF allVars, clientVars, vars, callVars
  <2>2. CallsMade' /\ SoloCalls'
    BY <1>1, <2>1 DEF CallsMade, SoloCalls
  <2>3. QED
    BY <1>5, <2>1, <2>2
<1>10. QED
  BY <1>2, <1>3, <1>6, <1>7, <1>8, <1>9 DEF ClientNext, MainStep, CallStep

\* Each response is printed once at most, and is the one to its request,
\* whoever else uses the aggregator and whichever thread completes the future;
\* alone with the aggregator main prints both, in order, itself.
THEOREM LinesAreRight == ClientSpec => []PrintsRightly
<1>1. ClientInit => ClientInv
  <2> SUFFICES ASSUME ClientInit PROVE ClientInv
    OBVIOUS
  <2>1. /\ users \in {"main", "others", "both"} /\ accepted = {} /\ out = <<>> /\ lost = {}
        /\ main = (IF users = "others" THEN 5 ELSE 1) /\ \A c \in Calls : pc[c] = "idle"
    BY DEF ClientInit, Init
  <2>2. out \in Seq(Line) /\ Len(out) = 0 /\ DOMAIN out = {}
    BY <2>1
  <2>3. ClientTypeOK
    BY <2>1, <2>2 DEF ClientTypeOK
  <2>4. CallsMade
    BY <2>1, Mains DEF CallsMade
  <2>5. Printing /\ SoloCalls /\ SoloPrinting
    BY <2>1, <2>2, MainAssumption DEF Printing, SoloCalls, SoloPrinting
  <2>6. QED
    BY <2>3, <2>4, <2>5 DEF ClientInv
<1>2. ClientInv => PrintsRightly
  <2> SUFFICES ASSUME ClientInv PROVE PrintsRightly
    OBVIOUS
  <2>1. users = "main" => InOrder
    <3>1. ~(5 <= 3) /\ 5 - 3 = 2
      OBVIOUS
    <3>2. QED
      BY <3>1 DEF ClientInv, SoloPrinting, InOrder
  <2>2. QED
    BY <2>1 DEF ClientInv, Printing, PrintsRightly
<1>3. QED
  BY <1>1, <1>2, AggregatorHolds, ClientStep, PTL DEF ClientSpec
=============================================================================
