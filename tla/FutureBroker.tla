----------------------------- MODULE FutureBroker -----------------------------
(***************************************************************************)
(* What a request aggregator promises its callers, with nothing said of    *)
(* maps, monitors, counters or batches: whoever asks for a request is      *)
(* given a future, the open one that was made for the same request or a    *)
(* new one, and a future is answered at most once, with the response to    *)
(* its own request.  A future may be dropped instead, but only in favour   *)
(* of a newer one for the same request.                                    *)
(***************************************************************************)
CONSTANTS Keys, Calls, None

VARIABLES
  request,  \* call -> what it has asked for, or None
  given,    \* call -> the future it was given, or None
  future,   \* future -> "none", "open", "closed" (to be answered) or "dropped"
  answer    \* future -> its response, or None

vars == <<request, given, future, answer>>

Init ==
  /\ request = [c \in Calls |-> None] /\ given = [c \in Calls |-> None]
  /\ future = [c \in Calls |-> "none"] /\ answer = [c \in Calls |-> None]

OpenFor(k) == {f \in Calls : future[f] = "open" /\ request[f] = k}

\* A caller asks, and joins the open future for its request if there is one.
Ask(c, k) ==
  /\ request[c] = None
  /\ request' = [request EXCEPT ![c] = k]
  /\ \/ OpenFor(k) = {} /\ UNCHANGED given
     \/ \E f \in OpenFor(k) : given' = [given EXCEPT ![c] = f]
  /\ UNCHANGED <<future, answer>>

\* A caller that was given none makes one; an older one is dropped.
Open(c) ==
  /\ request[c] # None /\ given[c] = None /\ future[c] = "none"
  /\ future' = [f \in Calls |-> CASE f = c -> "open"
                                  [] f \in OpenFor(request[c]) -> "dropped"
                                  [] OTHER -> future[f]]
  /\ UNCHANGED <<request, given, answer>>

\* Nobody joins a future from here on.
CloseFuture(f) ==
  /\ future[f] = "open"
  /\ future' = [future EXCEPT ![f] = "closed"]
  /\ UNCHANGED <<request, given, answer>>

Answer(f) ==
  /\ future[f] = "closed" /\ answer[f] = None
  /\ answer' = [answer EXCEPT ![f] = request[f]]
  /\ UNCHANGED <<request, given, future>>

\* The caller that made a future is given it, whatever has become of it.
Give(c) ==
  /\ future[c] # "none" /\ given[c] = None
  /\ given' = [given EXCEPT ![c] = c]
  /\ UNCHANGED <<request, future, answer>>

Next ==
  \E c \in Calls :
    Open(c) \/ CloseFuture(c) \/ Answer(c) \/ Give(c) \/ \E k \in Keys : Ask(c, k)

Spec == Init /\ [][Next]_vars
=============================================================================
