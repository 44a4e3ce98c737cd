-------------------------- MODULE MCContextPackage --------------------------
(* A project, its vendor's examples and its documents: two documents of the
   project, one of them archived in the documents' root, and a recipe.       *)
EXTENDS ContextPackage

none == "none"
MCDocs == {"app", "lib", "sample", "guide", "old"}
MCRevisions == 1..3

row(root, authority, version, archived) ==
  [root |-> root, authority |-> authority, version |-> version, archived |-> archived]

\* A third revision is the first again.
back(revisions) == [d \in DOMAIN revisions |-> Append(revisions[d], revisions[d][1])]

\* A second ingest moves a document to another root, or gives it another authority.
MCProfile == back(
  [app    |-> <<row("proj", "current_project", none, FALSE),
                row("proj", "related_internal_project", none, FALSE)>>,
   lib    |-> <<row("proj", "generated_summary", none, FALSE),
                row("ex", "official_example", none, FALSE)>>,
   sample |-> <<row("ex", "official_example", "v2", FALSE),
                row("docs", "official_documentation", "v1", FALSE)>>,
   guide  |-> <<row("docs", "official_documentation", "v2", FALSE),
                row("proj", "current_project", "v2", FALSE)>>,
   old    |-> <<row("docs", "official_documentation", "v1", TRUE),
                row("docs", "official_documentation", "v2", FALSE)>>])
MCBm25 == [app |-> 30, lib |-> 40, sample |-> 20, guide |-> 22, old |-> 10]

Part(terms, signals, window) == [terms |-> terms, signals |-> signals, window |-> window, apis |-> <<>>]

MCBody == back(
  [app    |-> << <<Part({"tcp", "listen"}, {}, {}), Part({"tcp"}, {"must"}, {})>>,
                 <<Part({"udp"}, {}, {})>> >>,
   lib    |-> << <<Part({"tcp", "listen"}, {"must"}, {"must"})>>, <<Part({"listen"}, {}, {})>> >>,
   sample |-> << <<Part({"tcp"}, {"example"}, {"example"}), Part({"listen"}, {"sequence"}, {})>>,
                 <<Part({"listen"}, {"pitfall"}, {})>> >>,
   guide  |-> << <<Part({"listen"}, {"must", "example"}, {"must"})>>, <<Part({"udp", "listen"}, {"example"}, {})>> >>,
   old    |-> << <<Part({"tcp"}, {}, {})>>, <<Part({"tcp"}, {"example"}, {})>> >>])

MCSymbolsOf ==
  [app |-> {[name |-> "Listen", kind |-> "function"]},
   lib |-> {[name |-> "Listen", kind |-> "call"]},
   sample |-> {[name |-> "Serve", kind |-> "function"]},
   guide |-> {[name |-> "Conn", kind |-> "type"]},
   old |-> {}]

MCMatches == {<<"listen", "Listen", 1>>, <<"serve", "Serve", 3>>, <<"conn", "Conn", 7>>}
MCNames == {"Listen", "Serve", "Conn", "Bind"}
MCRecipes == {"recipe"}
MCRecipeOf ==
  [recipe |-> [root |-> "proj", created |-> 1, apis |-> <<"Bind">>, constraints |-> 1,
               prereqs |-> 1, examples |-> 1, sequence |-> FALSE]]
MCRank == [app |-> 1, guide |-> 2, lib |-> 3, old |-> 4, recipe |-> 5, sample |-> 6,
           tcp |-> 7, listen |-> 8, udp |-> 9, Listen |-> 1, Serve |-> 2, Conn |-> 3, Bind |-> 4]

Roles == [proj |-> "current_project", ex |-> "related_project", docs |-> "official_documentation"]
Ask == [terms |-> {"tcp", "listen"}, titled |-> {}, version |-> none, roles |-> Roles,
        project |-> "proj", semantic |-> FALSE, roots |-> <<"ex", "docs", "proj">>, group |-> TRUE,
        tokens |-> <<"listen">>, cues |-> <<"serve">>, max |-> 2500, maxRelated |-> 1]

MCRequests ==
  {Ask,
   [Ask EXCEPT !.max = 150, !.version = "v2"],
   [Ask EXCEPT !.group = FALSE, !.roots = <<"docs", "proj">>, !.semantic = TRUE, !.max = 0,
               !.tokens = <<>>, !.cues = <<"conn", "serve">>],
   [Ask EXCEPT !.roots = <<"docs", "ex">>, !.titled = {"guide"}, !.max = 60, !.tokens = <<>>],
   [Ask EXCEPT !.group = FALSE, !.roots = <<"docs">>, !.max = 0, !.tokens = <<>>],
   [Ask EXCEPT !.terms = {"udp"}, !.group = FALSE, !.roots = <<"docs">>, !.max = 20,
               !.tokens = <<"nosuch">>, !.cues = <<"nosuch">>]}

MCSize == [item |-> 40, note |-> 80, summary |-> 120, excerpt |-> 300, constraint |-> 170]
=============================================================================
