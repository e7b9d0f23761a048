------------------------------ MODULE DurableLog ------------------------------
(***************************************************************************)
(* What README.md:10 promises of the shared memory and its log pointer,    *)
(* with nothing said of bytes, files or processes: a log of whole entries  *)
(* that survives the exits and restarts of the service, so that an entry   *)
(* once logged keeps its place and its contents.                           *)
(***************************************************************************)
EXTENDS Naturals, Sequences

CONSTANTS Entries,   \* what can be logged
          Capacity   \* the number of entries there is room for

VARIABLE log

Init == log = <<>>

\* A run logs one entry, behind all the others.
AppendEntry ==
  /\ Len(log) < Capacity
  /\ \E e \in Entries : log' = Append(log, e)

Spec == Init /\ [][AppendEntry]_log

\* The weaker promise of a log whose pointer may be lost: an entry stays
\* where it is until all of them are given up at once.
Forget == log' = <<>>

LossySpec == Init /\ [][AppendEntry \/ Forget]_log
=============================================================================
