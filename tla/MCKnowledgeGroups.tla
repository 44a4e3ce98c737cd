-------------------------- MODULE MCKnowledgeGroups --------------------------
(* Four roots in two families, two names, a group with a core and two      *)
(* related projects that may not fit, and a file of two groups, the second *)
(* of which is refused when the first id is taken.  One of the definitions *)
(* brings an id that is also a name.                                       *)
EXTENDS KnowledgeGroups, TLC

none == NoName
MCRoots == {"docs", "near", "far", "lone"}
MCNames == {"g", "h"}
MCRank == "docs" :> 1 @@ "far" :> 2 @@ "g" :> 3 @@ "h" :> 4 @@ "lone" :> 5 @@ "near" :> 6
MCFamily == "docs" :> "esp" @@ "near" :> "esp" @@ "far" :> "eip" @@ "lone" :> "bsp"
MCCues == {[cue |-> "modbus", roots |-> {"docs", "far"}, weight |-> 4],
           [cue |-> "idf", roots |-> {"docs", "near", "lone"}, weight |-> 3]}
MCSlug == [n \in MCNames |-> n]

Grants(cross, max) == [cross |-> cross, preserve |-> cross, current |-> cross,
                       related |-> cross, max |-> max]
M(r, p, role) == [root |-> r, priority |-> p, role |-> role]
Wide == [id |-> none, policies |-> Grants(TRUE, 1),
         members |-> {M("docs", 10, "official_documentation"),
                      M("far", 5, "related_project"), M("near", 5, "related_project")}]
Closed == [id |-> "h", policies |-> [Grants(FALSE, 0) EXCEPT !.preserve = TRUE],
           members |-> {M("far", 0, ""), M("lone", 0, "")}]
MCDefinitions == {Wide, Closed}
MCFile == << [name |-> "h", def |-> [Wide EXCEPT !.policies = Grants(TRUE, 0), !.id = "g"]],
             [name |-> "g", def |-> [Closed EXCEPT !.policies = Grants(FALSE, 0), !.id = none]] >>

R(tool, roots, project, group, query) ==
  [tool |-> tool, roots |-> roots, project |-> project, group |-> group, query |-> query]
MCRequests ==
  {R("search", {"near"}, none, none, {}), R("search", {"docs", "lone"}, none, none, {}),
   R("search", {"docs", "near"}, none, none, {}), R("search", {"far", "lone"}, none, none, {}),
   R("search", {}, none, none, {"modbus"}), R("search", {}, none, "g", {}),
   R("search", {}, none, none, {"idf"}),
   R("context", {"far", "near"}, "docs", none, {}), R("context", {}, none, none, {"idf"}),
   R("context", {"near"}, none, none, {}), R("context", {"near", "far"}, none, "g", {}),
   R("context", {}, "near", "h", {})}
=============================================================================
