---------------------------- MODULE MCLibraryDocs ----------------------------
EXTENDS LibraryDocs, TLC

CONSTANTS guide, index, page, vendored

content(status, evidence) == [status |-> status, evidence |-> evidence, load |-> "text"]
rows(status, evidence) == [status |-> status, evidence |-> evidence]
control(present, listed, inventory, result) ==
  [dir |-> present, index |-> listed, inventory |-> inventory, validation |-> result]

MCContents == {content("verified", "E1"), content("", ""),
               [content("deprecated", "") EXCEPT !.load = "refused"],
               [content("", "") EXCEPT !.load = "blank"]}

MCPackages == {control(FALSE, FALSE, NoInventory, "none"),
               control(TRUE, FALSE, rows("verified", "E2"), "none"),
               control(TRUE, TRUE, rows("verified", "E2"), "pass"),
               control(TRUE, TRUE, rows("deprecated", "E3"), "fail")}

\* One tree for each package but the loose one, and each manifest with the validated one.
\* The HTML page is there from the start when there is no package, so that a run may
\* store it before it becomes blank; else it comes with an edit, one file too many.
Whole == [f \in Files |-> CASE f = guide  -> content("verified", "E1")
                           [] f = page   -> Missing
                           [] OTHER      -> content("", "")]
first(p, h) ==
  [files    |-> [f \in Files |-> IF p.dir THEN Whole[f]
                                 ELSE IF f \in LibFiles THEN Missing ELSE content("", "")],
   package  |-> p, manifest |-> h]
MCFirstTrees == {first(p, "none") : p \in {q \in MCPackages : q.dir => q.index}}
                  \cup {first(control(TRUE, TRUE, rows("verified", "E2"), "pass"), h) :
                          h \in {"normal", "exclude"}}

Alike == Permutations(Runs)

MCInferred == [f \in Files |-> "unknown"]
=============================================================================
