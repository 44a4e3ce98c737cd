---------------------------- MODULE MCPdfIngest ----------------------------
(***************************************************************************)
(* Two files of one name, so of one URI.  Of the contents, "manual" has an *)
(* outline with an entry without end, an entry that starts after the       *)
(* shorter range and a page that holds only the running header; "notes"    *)
(* has no outline and a page without text.                                 *)
(***************************************************************************)
EXTENDS PdfIngest, TLC

page(own, edge) == [own |-> own, edge |-> edge]
mark(from, thru, titled) == [from |-> from, thru |-> thru, titled |-> titled]

manual ==
  [state |-> "plain", pages |-> <<page(2, "h"), page(0, "h"), page(2, NoEdge)>>,
   marks |-> <<mark(2, 0, TRUE), mark(3, 9, FALSE)>>]
notes == [state |-> "plain", pages |-> <<page(1, NoEdge), page(2, NoEdge)>>, marks |-> <<>>]
locked == [state |-> "encrypted", pages |-> <<>>, marks |-> <<>>]

MCFiles == {manual, notes, locked}
MCUriOf == [p \in Paths |-> "u1"]
Alike == Permutations(Requests) \cup Permutations(Paths)
MCRanges == {<<0, 0>>, <<1, 1>>}
=============================================================================
