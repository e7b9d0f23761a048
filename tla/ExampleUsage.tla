----------------------------- MODULE ExampleUsage -----------------------------
(***************************************************************************)
(* Aggregator/ExampleUsage.java: a main thread that makes two calls of     *)
(* sendRequest, one after the other, and then registers a callback on each *)
(* future that prints the response.  The aggregator may be main's alone,   *)
(* as in the program, or may have other users; `users' says which, and     *)
(* main may also be absent.                                                *)
(***************************************************************************)
EXTENDS RequestAggregator

CONSTANTS Call1, Call2,       \* main's two calls
          Request1, Request2  \* and what they ask for

ASSUME MainAssumption ==
  /\ {Call1, Call2} \subseteq Calls /\ Call1 # Call2
  /\ {Request1, Request2} \subseteq Keys /\ Request1 # Request2

VARIABLES
  users,     \* who uses the aggregator: "main", "others" or "both"
  main,      \* the statement of main that is next, 5 after the last
  accepted,  \* the responses (1 or 2) whose callback waits in a future
  out        \* the lines printed: which response, and its value

clientVars == <<users, main, accepted, out>>
allVars == <<vars, clientVars>>

Own == <<Call1, Call2>>
Request == <<Request1, Request2>>
OthersCalls == IF users = "others" THEN Calls ELSE Calls \ {Call1, Call2}

ClientInit ==
  /\ Init /\ users \in {"main", "others", "both"}
  /\ main = (IF users = "others" THEN 5 ELSE 1) /\ accepted = {} /\ out = <<>>

\* An exception of sendRequest ends main: it goes on only after a return.
CallsReturned(n) == \A m \in 1..n : pc[Own[m]] = "returned"

MainCalls(n) ==
  /\ main = n /\ CallsReturned(n - 1)
  /\ SendRequest(Own[n], Request[n], None)
  /\ main' = n + 1 /\ UNCHANGED <<users, accepted, out>>

\* thenAccept runs the callback at once on a future that is complete.
ThenAccept(n) ==
  LET f == ret[Own[n]] IN
  /\ main = n + 2 /\ CallsReturned(2)
  /\ \/ answer[f] # None /\ out' = Append(out, <<n, answer[f]>>) /\ UNCHANGED accepted
     \/ answer[f] = None /\ accepted' = accepted \cup {n} /\ UNCHANGED out
  /\ main' = n + 3 /\ UNCHANGED <<vars, users>>

Waiting(f) == {n \in accepted : ret[Own[n]] = f}

\* complete() runs the callbacks that wait in the future, in its own thread.
CompleteAndPrint(c) ==
  /\ Complete(c)
  /\ \/ Waiting(taken[c]) = {} /\ UNCHANGED <<accepted, out>>
     \/ \E n \in Waiting(taken[c]) :
          out' = Append(out, <<n, answer'[taken[c]]>>) /\ accepted' = accepted \ {n}
  /\ UNCHANGED <<users, main>>

OtherStep(c) ==
  /\ \/ Put(c) \/ Count(c) \/ Enter(c) \/ Copy(c) \/ Apply(c) \/ Remove(c)
     \/ ResponseMissing(c) \/ Resume(c) \/ Return(c)
  /\ UNCHANGED clientVars

\* Others call from threads of their own, or from callbacks on futures that
\* they were given; main's callbacks only print.
OthersCall(c, k, p) ==
  /\ users # "main" /\ c \in OthersCalls
  /\ p # None => \E d \in OthersCalls : ret[d] = taken[p]
  /\ SendRequest(c, k, p)
  /\ UNCHANGED clientVars

MainStep == \E n \in 1..2 : MainCalls(n) \/ ThenAccept(n)
CallStep(c) == OtherStep(c) \/ CompleteAndPrint(c)

ClientNext ==
  \/ MainStep
  \/ \E c \in Calls :
       CallStep(c) \/ \E k \in Keys, p \in Calls \cup {None} : OthersCall(c, k, p)

\* The main thread runs, and so does every thread inside the aggregator.
ClientSpec ==
  /\ ClientInit /\ [][ClientNext]_allVars
  /\ WF_allVars(MainStep) /\ \A c \in Calls : WF_allVars(CallStep(c))

-----------------------------------------------------------------------------
(* Properties                                                              *)

\* Without other users both futures are complete when main has them: the
\* lines are printed by main itself, in order, and none is missing.
InOrder ==
  /\ accepted = {} /\ \A i \in DOMAIN out : out[i][1] = i
  /\ main = 5 => Len(out) = 2

\* Each response is printed at most once, and is the one to its request,
\* whichever thread completes the future and whenever the callback came; and
\* all are printed in order when main has the aggregator to itself.
PrintsRightly ==
  /\ \A i \in DOMAIN out : out[i][2] = Request[out[i][1]]
  /\ \A i, j \in DOMAIN out : out[i][1] = out[j][1] => i = j
  /\ users = "main" => InOrder

\* Main sees both responses in the end, unless another user's put replaced
\* its future or a batch with its request failed.
PrintsUnlessDropped ==
  \A n \in 1..2 :
    (users # "others" /\ main = 5) ~>
      \/ \E i \in DOMAIN out : out[i][1] = n
      \/ ret[Own[n]] \in lost \/ Abandoned(ret[Own[n]])
=============================================================================
