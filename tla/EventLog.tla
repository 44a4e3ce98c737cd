------------------------------ MODULE EventLog ------------------------------
(***************************************************************************)
(* What usage analytics promises of the requests it is told about: it may  *)
(* forget any of them, at any time, but it writes them in the order they   *)
(* were recorded, none twice, none that nobody recorded, and it keeps none *)
(* waiting forever.                                                        *)
(***************************************************************************)
EXTENDS Naturals, Sequences

CONSTANT Requests

VARIABLES
  pending,    \* recorded and not yet written, oldest first
  stored      \* written

vars == <<pending, stored>>

Elements(s) == {s[i] : i \in DOMAIN s}

Init ==
  /\ pending = <<>>
  /\ stored = {}

Accept(r) ==
  /\ r \notin Elements(pending) \cup stored
  /\ pending' = Append(pending, r)
  /\ UNCHANGED stored

\* The oldest n leave the queue together, in one transaction or not at all.
Leave(n) == pending' = SubSeq(pending, n + 1, Len(pending))
Write(n) == Leave(n) /\ stored' = stored \cup Elements(SubSeq(pending, 1, n))
Lose(n) == Leave(n) /\ UNCHANGED stored

Forget ==
  /\ stored' \in SUBSET stored
  /\ UNCHANGED pending

Next ==
  \/ \E r \in Requests : Accept(r)
  \/ \E n \in 1..Len(pending) : Write(n) \/ Lose(n)
  \/ Forget

EveryRequestLeaves ==
  \A r \in Requests : r \in Elements(pending) ~> r \notin Elements(pending)

Spec == Init /\ [][Next]_vars /\ EveryRequestLeaves
=============================================================================
