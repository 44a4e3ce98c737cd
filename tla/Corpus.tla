------------------------------- MODULE Corpus -------------------------------
(***************************************************************************)
(* What the corpus promises its readers, whoever writes to it beside them: *)
(* under a URI there is the whole of one content or nothing, a document    *)
(* that is replaced keeps its id, and an id that was given once never      *)
(* comes to name another document.                                         *)
(***************************************************************************)
CONSTANTS
  Uris,
  Numbers,
  Entries  \* what a search finds of a content

VARIABLES
  held,   \* per URI that has a document: its id and what is found of it
  given   \* the ids that were ever given

vars == <<held, given>>

Init ==
  /\ held = [u \in {} |-> {}]
  /\ given = {}

Holding(u, id, entry) ==
  [v \in DOMAIN held \cup {u} |-> IF v = u THEN [id |-> id, entry |-> entry] ELSE held[v]]

Add(u, entry) ==
  /\ u \notin DOMAIN held
  /\ \E id \in Numbers \ given :
       /\ held' = Holding(u, id, entry)
       /\ given' = given \cup {id}

Change(u, entry) ==
  /\ u \in DOMAIN held
  /\ held' = Holding(u, held[u].id, entry)
  /\ UNCHANGED given

Remove(us) ==
  /\ held' = [u \in DOMAIN held \ us |-> held[u]]
  /\ UNCHANGED given

Next ==
  \/ \E u \in Uris, entry \in Entries : Add(u, entry) \/ Change(u, entry)
  \/ \E us \in SUBSET Uris : Remove(us)

Spec == Init /\ [][Next]_vars
=============================================================================
