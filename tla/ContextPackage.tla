---------------------------- MODULE ContextPackage ----------------------------
(***************************************************************************)
(* get_implementation_context: one request assembles a package from a      *)
(* recipe, symbols, search hits and the chunks around them, selects        *)
(* citations, trims the package to its budget and fingerprints it.  Every  *)
(* read is a step of its own, and editors replace and delete documents     *)
(* between them.  The roots are those that KnowledgeGroups resolves.       *)
(***************************************************************************)
EXTENDS Retrieval

CONSTANTS
  Requests,    \* what a client asks, and how its task matches the corpus
  MaxResults, MaxExamples,
  MaxAugment,  \* documents read for their chunks
  MaxRounds,   \* of trimToBudget
  Size         \* characters of [item, note, summary, excerpt, constraint]

VARIABLES
  request, stage,
  todo,    \* what the stage has still to read
  search,  \* what the search and the harvest have found: [roots, terms, ids, found, symbols],
           \* and the row that GetDocumentByURI has read
  hits,    \* Seq([lines, text, full, row]): a place, the chunk it shows and the
           \* revision of the document's row that came with it
  pkg,     \* the response
  rounds, disturbed

vars == <<tables, request, stage, todo, search, hits, pkg, rounds, disturbed>>

ASSUME PackageAssumption ==
  /\ MaxResults \in Nat \ {0} /\ MaxExamples \in Nat \ {0} /\ MaxAugment \in Nat
  /\ MaxRounds \in Nat
  /\ \A part \in {"item", "note", "summary", "excerpt", "constraint"} : Size[part] \in Nat
  /\ \A q \in Requests :
       /\ Sequence(q.roots) /\ Sequence(q.tokens) /\ Sequence(q.cues) /\ IsFiniteSet(q.terms)
       /\ q.group \in BOOLEAN /\ q.semantic \in BOOLEAN /\ q.max \in Int /\ q.maxRelated \in Int

NoSearch == [roots |-> {}, terms |-> {}, ids |-> {}, found |-> {}, symbols |-> <<>>,
             row |-> 0]
NoPackage ==
  [recipe |-> "none", apis |-> <<>>, symbols |-> <<>>, examples |-> <<>>, citations |-> <<>>,
   constraints |-> 0, constraint |-> Size.constraint, pitfalls |-> 0, conventions |-> 0,
   prereqs |-> 0, sequence |-> FALSE, versions |-> {}, archived |-> FALSE,
   pins |-> {}, offered |-> {}, missing |-> 0, followUps |-> 0,
   summary |-> Size.summary, note |-> TRUE, coverage |-> "low", freshness |-> "unknown",
   webSearch |-> TRUE, contributing |-> {}, relatedOver |-> 0]

\* A request's roots in order, and for a group the roles of its members.
Grouped == request.group /\ Len(request.roots) > 1
Searched == ToSet(request.roots)

Rows == {Profile[d][r] : d \in Docs, r \in Revisions}
Roots == {p.root : p \in Rows} \cup {RecipeOf[u].root : u \in Recipes}
Authorities == {p.authority : p \in Rows} \cup {RecipeAuthority(r) : r \in Status}
Versions == {p.version : p \in Rows} \cup {NoVersion}
BucketNames == {"project", "official_example", "official_docs", "recipe", "weak"}

Hit == [lines : Chunk, text : Chunk, full : BOOLEAN, row : Revisions]
Citation == [uri : Docs \cup Recipes, root : Roots, authority : Authorities, strong : BOOLEAN,
             version : Versions]
Example == [uri : Docs \cup Recipes, root : Roots, lines : Chunk \cup {<<>>},
            text : Chunk \cup {<<>>}, size : Nat]
Package ==
  [recipe : Status, apis : Seq(Names), symbols : Seq(Symbol), examples : Seq(Example),
   citations : Seq(Citation), constraints : Nat, constraint : Nat, pitfalls : Nat,
   conventions : Nat, prereqs : Nat, sequence : BOOLEAN, versions : SUBSET Versions,
   archived : BOOLEAN, pins : SUBSET Docs, offered : SUBSET BucketNames, missing : Nat,
   followUps : Nat, summary : Nat, note : BOOLEAN, coverage : {"low", "medium", "high"},
   freshness : {"unknown", "stale", "mixed", "version-specific", "current"},
   webSearch : BOOLEAN, contributing : SUBSET Roots, relatedOver : Nat]
Stages == {"idle", "recipe", "symbols", "search", "or", "title", "idf", "postings", "hydrate",
           "cited", "signals", "rank", "bodies", "harvest", "cues", "again", "extract", "trim",
           "rounds", "seal", "done"}

PackageTypeOK ==
  /\ TablesTypeOK
  /\ stage \in Stages
  /\ hits \in Seq(Hit)
  /\ pkg \in Package /\ Len(pkg.examples) <= MaxExamples
  /\ rounds \in 0..MaxRounds /\ disturbed \in BOOLEAN

Init ==
  /\ corpus = [d \in Docs |-> 1] /\ past = [d \in Docs |-> {1}]
  /\ recipes = [u \in Recipes |-> "generated"] /\ edits = 0
  /\ request \in Requests /\ stage = "recipe"
  /\ todo = <<>> /\ search = NoSearch /\ hits = <<>> /\ pkg = NoPackage
  /\ rounds = 0 /\ disturbed = FALSE

Edited ==
  /\ stage # "done" /\ Editors
  /\ disturbed' = TRUE
  /\ UNCHANGED <<request, stage, todo, search, hits, pkg, rounds>>

Reads == UNCHANGED <<tables, request, rounds, disturbed>>
-----------------------------------------------------------------------------
(* Recipe and symbols.                                                     *)

ApiCap == IF MaxResults < 8 THEN MaxResults ELSE 8

CiteRecipe(u) ==
  [uri |-> u, root |-> RecipeOf[u].root, authority |-> RecipeAuthority(recipes[u]),
   strong |-> TRUE, version |-> NoVersion]

\* The sections of a symbol's citation are kinds: a type counts as one.
CiteSymbol(s) ==
  [uri |-> s.doc, root |-> RootOf(s), authority |-> Row(s).authority,
   strong |-> s.kind = "type", version |-> NoVersion]

\* The list begins with the entry that counts, human-reviewed if one is.
ReadRecipe ==
  /\ stage = "recipe"
  /\ LET s == RecipesIn(Searched)
     IN  pkg' = IF s = <<>> THEN pkg
                ELSE LET u == s[1]
                         r == RecipeOf[u]
                     IN  [pkg EXCEPT
                           !.recipe = recipes[u], !.apis = Distinct(r.apis),
                           !.constraints = r.constraints, !.prereqs = r.prereqs,
                           !.sequence = r.sequence, !.citations = <<CiteRecipe(u)>>,
                           !.examples = [i \in 1..Min({r.examples, MaxExamples}) |->
                             [uri |-> u, root |-> r.root, lines |-> <<>>, text |-> <<>>,
                              size |-> Size.excerpt]]]
  /\ stage' = "symbols" /\ todo' = request.tokens
  /\ UNCHANGED <<search, hits>> /\ Reads

AddSymbol(p, s) ==
  [p EXCEPT !.symbols = Append(@, s), !.apis = Distinct(Append(@, s.name)),
            !.citations = Append(@, CiteSymbol(s))]

\* One FindSymbols for each identifier of the task, until there are enough.
ReadSymbols ==
  /\ stage = "symbols" /\ todo # <<>>
  /\ LET found == FindSymbols(Head(todo), Searched, Min({5, MaxResults}))
         add(p, s) == IF Len(p.apis) >= ApiCap /\ p # pkg THEN p ELSE AddSymbol(p, s)
         after[i \in 0..Len(found)] == IF i = 0 THEN pkg ELSE add(after[i - 1], found[i])
         p == after[Len(found)]
     IN  /\ pkg' = p
         /\ todo' = IF Len(p.apis) >= ApiCap THEN <<>> ELSE Tail(todo)
  /\ UNCHANGED <<stage, search, hits>> /\ Reads

\* Each root of a group is searched by itself before all of them.
RecallEachRoot ==
  (IF Grouped THEN [i \in DOMAIN request.roots |-> {request.roots[i]}] ELSE <<>>) \o <<Searched>>

\* Mutated form: the roots of a group are searched together only.
RecallTogether == <<Searched>>

Searches == RecallEachRoot

BeginSearches ==
  /\ stage = "symbols" /\ todo = <<>>
  /\ stage' = "search" /\ todo' = Searches
  /\ search' = [NoSearch EXCEPT !.roots = Searches[1]]
  /\ UNCHANGED <<hits, pkg>> /\ Reads
-----------------------------------------------------------------------------
(* Search.                                                                 *)

Limit == IF Grouped /\ Len(todo) > 1 THEN Max({MaxResults, 3}) ELSE 3 * MaxResults
Candidates == 4 * Limit

Found(chunks) == search' = [search EXCEPT !.found = @ \cup chunks]

SearchAll ==
  /\ stage = "search" /\ todo # <<>>
  /\ LET all == FullText(request, search.roots, Candidates)
     IN  /\ Found(all)
         /\ stage' = IF all = {} THEN "or" ELSE "title"
  /\ UNCHANGED <<todo, hits, pkg>> /\ Reads

\* Without a chunk that has every term, those that have one.
SearchAny ==
  /\ stage = "or"
  /\ Found(AnyText(request, search.roots, Candidates))
  /\ stage' = "title"
  /\ UNCHANGED <<todo, hits, pkg>> /\ Reads

SearchTitles ==
  /\ stage = "title"
  /\ Found(ByTitle(request, search.roots))
  /\ stage' = IF request.semantic THEN "idf" ELSE "hydrate"
  /\ UNCHANGED <<todo, hits, pkg>> /\ Reads

ReadFrequencies ==
  /\ stage = "idf"
  /\ search' = [search EXCEPT !.terms = LookupTerms(request, search.roots)]
  /\ stage' = "postings"
  /\ UNCHANGED <<todo, hits, pkg>> /\ Reads

ReadPostings ==
  /\ stage = "postings"
  /\ search' = [search EXCEPT !.ids = ByVector(request, search.roots, search.terms, Limit)]
  /\ stage' = "hydrate"
  /\ UNCHANGED <<todo, hits, pkg>> /\ Reads

Shown(c) == [lines |-> c, text |-> c, full |-> FALSE, row |-> c.rev]
PlacesOf(s) == [i \in DOMAIN s |-> s[i].lines]

\* Chunks that were found but are gone are not hydrated; the rest is ranked,
\* diversified and merged with what earlier searches found.
EndSearch ==
  /\ stage = "hydrate"
  /\ LET chunks == search.found \cup {c \in search.ids : Stored(c)}
         best == Diversify(Ranked(chunks, LAMBDA c : Score(c, request)), Limit)
         merged == Distinct(PlacesOf(hits) \o best)
         last == Len(todo) = 1
         order == IF last /\ Grouped
                  THEN Ranked(ToSet(merged),
                              LAMBDA c : Score(c, request) + Bias(c, request))
                  ELSE merged
     IN  /\ hits' = [i \in DOMAIN order |-> Shown(order[i])]
         /\ todo' = IF last THEN <<>> ELSE Tail(todo)
         /\ stage' = IF last THEN "cited" ELSE "search"
         /\ search' = IF last THEN NoSearch ELSE [NoSearch EXCEPT !.roots = todo[2]]
  /\ UNCHANGED pkg /\ Reads
-----------------------------------------------------------------------------
(* The chunks around the hits.                                             *)

Worth(a) == AuthorityRank(a) <= 5

\* Documents by the authority that they were first read with and that is worth
\* it, then by name; those of official sources before the others.
ByAuthority(sources, official) ==
  LET worthy == Where(sources, LAMBDA x : Worth(x.authority))
      once == At(worthy, {i \in DOMAIN worthy : \A j \in 1..(i - 1) : worthy[j].uri # worthy[i].uri})
      key(x) == <<IF official /\ AuthorityRank(x.authority) \in {4, 5} THEN 0 ELSE 1,
                  AuthorityRank(x.authority), Rank[x.uri]>>
      less(x, y) == \E i \in 1..3 : /\ key(x)[i] < key(y)[i]
                                    /\ \A j \in 1..(i - 1) : key(x)[j] = key(y)[j]
      best == First(MaxAugment, Sorted(ToSet(once), less))
  IN  [k \in DOMAIN best |-> best[k].uri]

RowOf(h) == Profile[h.lines.doc][h.row]
HitDocs == {hits[i].lines.doc : i \in DOMAIN hits}
Whole(c, row) == [lines |-> c, text |-> c, full |-> TRUE, row |-> row]

\* mergeCitedDocumentHits: what is cited already and was not hit.  A recipe
\* is no document, yet it takes a place.
CitedDocs ==
  LET named == [i \in DOMAIN pkg.symbols |->
                  [uri |-> pkg.symbols[i].doc, authority |-> Row(pkg.symbols[i]).authority]]
      cited == [i \in DOMAIN pkg.citations |->
                  [uri |-> pkg.citations[i].uri, authority |-> pkg.citations[i].authority]]
  IN  ByAuthority(Where(named \o cited, LAMBDA x : x.uri \notin HitDocs), FALSE)

BeginCited ==
  /\ stage = "cited" /\ todo = <<>> /\ CitedDocs # <<>>
  /\ todo' = CitedDocs
  /\ UNCHANGED <<stage, search, hits, pkg>> /\ Reads

\* GetDocumentByURI reads the row and then, by its id, the chunks: both may be of
\* different revisions.  (A document that is made anew in between would have
\* another id and show no chunk; here it passes for the old one.)
ReadRow ==
  /\ stage \in {"cited", "signals"} /\ todo # <<>> /\ search.row = 0
  /\ Head(todo) \in Docs /\ corpus[Head(todo)] # 0
  /\ search' = [search EXCEPT !.row = corpus[Head(todo)]]
  /\ UNCHANGED <<stage, todo, hits, pkg>> /\ Reads

NextDocument ==
  /\ search' = NoSearch
  /\ IF Len(todo) > 1 THEN todo' = Tail(todo) /\ UNCHANGED stage
     ELSE todo' = <<>> /\ stage' = IF stage = "cited" THEN "signals" ELSE "rank"

NoRow ==
  /\ stage \in {"cited", "signals"} /\ todo # <<>> /\ search.row = 0
  /\ Head(todo) \in Docs => corpus[Head(todo)] = 0
  /\ NextDocument
  /\ UNCHANGED <<hits, pkg>> /\ Reads

ReadCited ==
  /\ stage = "cited" /\ todo # <<>> /\ search.row # 0
  /\ LET best == First(2, ChunksOf(Head(todo)))
     IN  hits' = hits \o [i \in DOMAIN best |-> Whole(best[i], search.row)]
  /\ NextDocument
  /\ UNCHANGED pkg /\ Reads

NothingCited ==
  /\ stage = "cited" /\ todo = <<>> /\ CitedDocs = <<>>
  /\ stage' = "signals"
  /\ UNCHANGED <<todo, search, hits, pkg>> /\ Reads

Signal(c) == 3 * Cardinality(Text(c).signals) + Cardinality(request.terms \cap Text(c).terms)

\* mergeSignalChunksFromHits: chunks of a hit document that say more.
SignalDocs ==
  ByAuthority([i \in DOMAIN hits |->
                 [uri |-> hits[i].lines.doc, authority |-> RowOf(hits[i]).authority]], TRUE)

BeginSignals ==
  /\ stage = "signals" /\ todo = <<>>
  /\ IF SignalDocs = <<>> THEN stage' = "rank" /\ UNCHANGED todo
     ELSE todo' = SignalDocs /\ UNCHANGED stage
  /\ UNCHANGED <<search, hits, pkg>> /\ Reads

ReadSignals ==
  /\ stage = "signals" /\ todo # <<>> /\ search.row # 0
  /\ LET new == {c \in ToSet(ChunksOf(Head(todo))) :
                   ~Contains(PlacesOf(hits), c) /\ Signal(c) > 0}
         less(c, d) == Signal(c) > Signal(d) \/ (Signal(c) = Signal(d) /\ c.ord < d.ord)
         best == First(2, Sorted(new, less))
     IN  hits' = hits \o [i \in DOMAIN best |-> Whole(best[i], search.row)]
  /\ NextDocument
  /\ UNCHANGED pkg /\ Reads

\* Mutated form: the body is read by document and ordinal.
ChunkAt(c) == IF corpus[c.doc] # 0 /\ c.ord \in DOMAIN ChunksOf(c.doc)
              THEN {ChunksOf(c.doc)[c.ord]} ELSE {}

\* The chunk with this id, if it is still there.
GetChunk(c) == IF Stored(c) THEN {c} ELSE {}

\* materializeHitBodies: at most twelve, official ones first.
RankBodies ==
  /\ stage = "rank"
  /\ LET class(i) == LET r == AuthorityRank(RowOf(hits[i]).authority)
                     IN  CASE r = 4 -> 0 [] r = 5 -> 1 [] r = 3 -> 2 [] r <= 2 -> 3 [] OTHER -> 4 + r
         less(i, j) == class(i) < class(j) \/ (class(i) = class(j) /\ i < j)
     IN  todo' = First(12, Sorted(DOMAIN hits, less))
  /\ stage' = "bodies"
  /\ UNCHANGED <<search, hits, pkg>> /\ Reads

ReadBody ==
  /\ stage = "bodies" /\ todo # <<>>
  /\ LET i == Head(todo)
         body == GetChunk(hits[i].lines)
     IN  hits' = IF body = {} THEN hits
                 ELSE [hits EXCEPT ![i].text = CHOOSE c \in body : TRUE, ![i].full = TRUE]
  /\ todo' = Tail(todo)
  /\ UNCHANGED <<stage, search, pkg>> /\ Reads

\* Symbols are harvested when the identifiers of the task gave little.
EndBodies ==
  /\ stage = "bodies" /\ todo = <<>>
  /\ stage' = IF Len(request.tokens) < 2 \/ pkg.symbols = <<>> THEN "harvest" ELSE "extract"
  /\ UNCHANGED <<todo, search, hits, pkg>> /\ Reads

\* At most eight, and calls only when there is nothing else yet.
Collect(out, found) ==
  First(8, out \o At(found, {i \in DOMAIN found :
                              /\ ~Contains(out, found[i])
                              /\ \A j \in 1..(i - 1) : found[j] # found[i]
                              /\ found[i].kind = "call" => out = <<>> /\ i = 1}))

\* harvestSymbolsFromHits: the symbols of the documents, then those of cues,
\* and the cues again when that gave nothing.
Harvest ==
  /\ stage = "harvest"
  /\ search' = [search EXCEPT !.symbols = Collect(<<>>, SymbolRows(24, SymbolsIn(HitDocs)))]
  /\ stage' = "cues" /\ todo' = request.cues
  /\ UNCHANGED <<hits, pkg>> /\ Reads

ReadCue ==
  /\ stage \in {"cues", "again"} /\ todo # <<>>
  /\ search' = IF Len(search.symbols) >= 8 THEN search
               ELSE [search EXCEPT !.symbols =
                      Collect(@, FindSymbols(Head(todo), Searched, IF stage = "cues" THEN 3 ELSE 5))]
  /\ todo' = Tail(todo)
  /\ UNCHANGED <<stage, hits, pkg>> /\ Reads

EndCues ==
  /\ stage \in {"cues", "again"} /\ todo = <<>>
  /\ IF stage = "cues" /\ search.symbols = <<>>
     THEN stage' = "again" /\ todo' = request.cues /\ UNCHANGED <<search, pkg>>
     ELSE /\ stage' = "extract" /\ search' = NoSearch
          /\ LET add(p, s) == IF Contains(p.symbols, s) THEN p ELSE AddSymbol(p, s)
                 after[i \in 0..Len(search.symbols)] ==
                   IF i = 0 THEN pkg ELSE add(after[i - 1], search.symbols[i])
             IN  pkg' = after[Len(search.symbols)]
          /\ UNCHANGED todo
  /\ UNCHANGED hits /\ Reads
-----------------------------------------------------------------------------
(* Extraction and selection.                                               *)

Signals(h) == IF h.full THEN Text(h.text).signals ELSE Text(h.text).window

CiteHit(h) ==
  [uri |-> h.lines.doc, root |-> RowOf(h).root, authority |-> RowOf(h).authority,
   strong |-> TRUE, version |-> RowOf(h).version]

\* Mutated form: off by one.
ExampleRoomLate(p) == Len(p.examples) <= MaxExamples

ExampleRoom(p) == Len(p.examples) < MaxExamples

\* One hit may be an example, a pitfall, a constraint and a convention.
Extract(p, h) ==
  LET a == RowOf(h).authority
      says(x) == x \in Signals(h)
      example == /\ ExampleRoom(p)
                 /\ AuthorityRank(a) <= 4 \/ says("example")
      sequence == ~p.sequence /\ says("sequence")
      pinned == example \/ sequence \/ says("pitfall") \/ says("must")
      apis == Distinct(p.apis \o Text(h.text).apis)
  IN  [p EXCEPT
        !.citations = Append(@, CiteHit(h)),
        !.versions = @ \cup ({RowOf(h).version} \ {NoVersion}),
        !.archived = @ \/ RowOf(h).archived,
        !.examples = IF example
                     THEN Append(@, [uri |-> h.lines.doc, root |-> RowOf(h).root, lines |-> h.lines,
                                     text |-> h.text, size |-> Size.excerpt]) ELSE @,
        !.pitfalls = @ + (IF says("pitfall") THEN 1 ELSE 0),
        !.constraints = @ + (IF says("must") THEN 1 ELSE 0),
        !.conventions = @ + (IF AuthorityRank(a) = 1 THEN 1 ELSE 0),
        !.sequence = @ \/ sequence,
        !.pins = @ \cup (IF pinned THEN {h.lines.doc} ELSE {}),
        !.apis = IF Len(p.apis) >= ApiCap THEN @ ELSE First(ApiCap, apis)]

Bucket(c) ==
  LET r == AuthorityRank(c.authority)
  IN  CASE r <= 2 -> "project" [] r = 3 -> "recipe" [] r = 4 -> "official_example"
        [] r = 5 -> "official_docs" [] OTHER -> "weak"
OfBucket(citations, b) == Where(citations, LAMBDA c : Bucket(c) = b)
Buckets(part(_)) ==
  part("project") \o part("official_example") \o part("official_docs") \o part("recipe")

\* citationBetter: of two citations of one document, that of a section.
BestOf(citations) ==
  LET uris == Distinct([i \in DOMAIN citations |-> citations[i].uri])
      better(i, j) == \/ citations[i].strong /\ ~citations[j].strong
                      \/ citations[i].strong = citations[j].strong /\ i < j
      best(u) == citations[Sorted({i \in DOMAIN citations : citations[i].uri = u}, better)[1]]
  IN  [k \in DOMAIN uris |-> best(uris[k])]

\* What selectDiverseCitations puts first: one of each bucket.
Reserved(best) == Buckets(LAMBDA b : First(1, OfBucket(best, b)))

\* Mutated form: the pinned sources come before the reserves.
NothingReserved(best) == <<>>

Reserve(best) == Reserved(best)

\* A bucket is sorted by authority, which tells the two kinds of project apart.
InOrder(best) ==
  LET project(r) == Where(best, LAMBDA c : AuthorityRank(c.authority) = r)
      other == Where(best, LAMBDA c : AuthorityRank(c.authority) > 2)
  IN  project(1) \o project(2) \o other

SelectCitations(citations, pins) ==
  LET best == InOrder(BestOf(citations))
      less(c, d) == Rank[c.uri] < Rank[d.uri]
      pinned == Sorted({c \in ToSet(best) : c.uri \in pins}, less)
      fill == Buckets(LAMBDA b : OfBucket(best, b))
      strong == Distinct(Reserve(best) \o pinned \o fill)
  IN  First(MaxResults, IF strong = <<>> THEN best ELSE strong)

\* selectPackageSymbols: one of each name, the weak ones last.
SelectSymbols(symbols) ==
  LET rank(s) == AuthorityRank(Row(s).authority)
      names == Distinct([i \in DOMAIN symbols |-> symbols[i].name])
      better(i, j) == \/ rank(symbols[i]) < rank(symbols[j])
                      \/ rank(symbols[i]) = rank(symbols[j]) /\ i < j
      best(n) == symbols[Sorted({i \in DOMAIN symbols : symbols[i].name = n}, better)[1]]
      all == [k \in DOMAIN names |-> best(names[k])]
  IN  First(MaxResults, Where(all, LAMBDA s : rank(s) <= 5) \o Where(all, LAMBDA s : rank(s) > 5))

Coverage(p) ==
  LET points(b, n) == IF b THEN n ELSE 0
      score == points(p.apis # <<>> \/ p.symbols # <<>>, 2) + points(p.examples # <<>>, 2)
                 + points(Len(p.citations) >= 3, 1) + points(p.constraints + p.pitfalls > 0, 1)
                 + points(p.sequence, 1)
  IN  CASE score >= 5 -> "high" [] score \in 2..4 -> "medium" [] OTHER -> "low"

\* freshnessFromSources: archived and versions are those of all the hits.
Freshness(p) ==
  LET versions == p.versions \cup ({p.citations[i].version : i \in DOMAIN p.citations} \ {NoVersion})
      ranks == {AuthorityRank(p.citations[i].authority) : i \in DOMAIN p.citations}
      asked == request.version
  IN  CASE p.citations = <<>> /\ p.versions = {} -> "unknown"
        [] ~(p.citations = <<>> /\ p.versions = {}) /\ p.archived -> "stale"
        [] ~p.archived /\ (Cardinality(versions) > 1
                           \/ (Cardinality(versions) = 1 /\ asked \notin versions \cup {NoVersion})) -> "mixed"
        [] ~p.archived /\ Cardinality(versions) = 1 /\ asked \in versions \cup {NoVersion} ->
             "version-specific"
        [] OTHER -> IF asked = NoVersion /\ ranks \cap (1..3) # {} THEN "current" ELSE "unknown"

\* enrichPackageSignals, as numbers of remarks.
Remark(p) ==
  LET one(b) == IF b THEN 1 ELSE 0
      unsure == request.version # NoVersion /\ p.freshness \in {"mixed", "unknown"}
  IN  [p EXCEPT
        !.missing = one(~p.sequence /\ p.apis # <<>>) + one(p.coverage = "low") + one(unsure)
                      + one(p.freshness = "stale"),
        !.followUps = 1 + one(p.coverage = "low" /\ p.symbols = <<>> /\ p.apis = <<>>)
                        + one(p.examples = <<>>) + one(p.symbols = <<>> /\ p.apis # <<>>)
                        + one(~p.sequence /\ p.apis # <<>>) + one(unsure)]

Assemble ==
  /\ stage = "extract"
  /\ LET after[i \in 0..Len(hits)] == IF i = 0 THEN pkg ELSE Extract(after[i - 1], hits[i])
         p == after[Len(hits)]
         q == [p EXCEPT !.citations = SelectCitations(p.citations, p.pins),
                        !.symbols = SelectSymbols(@),
                        !.apis = First(ApiCap, @),
                        !.offered = {Bucket(c) : c \in ToSet(BestOf(p.citations))}]
         r == [q EXCEPT !.coverage = Coverage(q), !.freshness = Freshness(q)]
     IN  pkg' = Remark([r EXCEPT !.webSearch =
                          r.coverage = "low" \/ r.freshness \in {"stale", "mixed", "unknown"}])
  /\ stage' = "trim"
  /\ UNCHANGED <<todo, search, hits>> /\ Reads
-----------------------------------------------------------------------------
(* trimToBudget: what is cut, in this order, while there is more of it.    *)

TrimOrder ==
  << <<"followUps", 0>>, <<"conventions", 0>>, <<"apis", 4>>, <<"symbols", 2>>,
     <<"citations", 3>>, <<"examples", 1>>, <<"pitfalls", 0>>, <<"constraints", 1>>,
     <<"prereqs", 0>>, <<"excerpt", 80>>, <<"constraint", 80>>, <<"apis", 2>>, <<"symbols", 1>>,
     <<"missing", 0>>, <<"summary", 60>>, <<"note", 0>>, <<"examples", 0>>, <<"constraints", 0>> >>

Lists == {"apis", "symbols", "citations", "examples"}

Amount(p, field) ==
  CASE field \in Lists -> Len(p[field])
    [] field = "excerpt" -> IF Len(p.examples) = 1 THEN p.examples[1].size ELSE 0
    [] field = "constraint" -> IF p.constraints = 1 THEN p.constraint ELSE 0
    [] field = "note" -> IF p.note THEN 1 ELSE 0
    [] OTHER -> p[field]

\* A clipped text ends in an ellipsis of three bytes.
Cut(p, field) ==
  CASE field \in Lists -> [p EXCEPT ![field] = Front(@)]
    [] field = "excerpt" -> [p EXCEPT !.examples[1].size = @ \div 2 + 3]
    [] field = "constraint" -> [p EXCEPT !.constraint = @ \div 2 + 3]
    [] field = "summary" -> [p EXCEPT !.summary = 60 + 3]
    [] field = "note" -> [p EXCEPT !.note = FALSE]
    [] OTHER -> [p EXCEPT ![field] = @ - 1]

\* serializeTokens and EstimateTokens.
Tokens(p) ==
  LET items == Len(p.apis) + Len(p.symbols) + Len(p.citations) + p.pitfalls + p.conventions
                 + p.prereqs + p.missing + p.followUps
      constraints == IF p.constraints = 0 THEN 0
                     ELSE p.constraint + (p.constraints - 1) * Size.constraint
      excerpts == FoldLeft(LAMBDA n, e : n + e.size, 0, p.examples)
  IN  (p.summary + (IF p.note THEN Size.note ELSE 0) + Size.item * items + constraints
         + excerpts + 3) \div 4

BeginTrim ==
  /\ stage = "trim"
  /\ IF request.max <= 0 THEN stage' = "seal" /\ UNCHANGED pkg
     ELSE /\ stage' = "rounds"
          /\ pkg' = [pkg EXCEPT !.apis = First(8, @), !.symbols = First(6, @)]
  /\ UNCHANGED <<todo, search, hits>> /\ Reads

NextCut(p) ==
  SelectInSeq(TrimOrder, LAMBDA c : Amount(p, c[1]) > c[2])

TrimRound ==
  /\ stage = "rounds" /\ rounds < MaxRounds
  /\ Tokens(pkg) > request.max /\ NextCut(pkg) # 0
  /\ pkg' = Cut(pkg, TrimOrder[NextCut(pkg)][1])
  /\ rounds' = rounds + 1
  /\ UNCHANGED <<tables, request, stage, todo, search, hits, disturbed>>

EndTrim ==
  /\ stage = "rounds"
  /\ rounds = MaxRounds \/ Tokens(pkg) <= request.max \/ NextCut(pkg) = 0
  /\ stage' = "seal"
  /\ UNCHANGED <<todo, search, hits, pkg>> /\ Reads

RootsOf(p) == {p.citations[i].root : i \in DOMAIN p.citations}
                \cup {p.examples[i].root : i \in DOMAIN p.examples}
                \cup {RootOf(p.symbols[i]) : i \in DOMAIN p.symbols}

\* fingerprintResponse and attachRootContribution: the fingerprint has the
\* hashes that the cited documents have by then, and is not modelled further.
Seal ==
  /\ stage = "seal"
  /\ LET contributing == RootsOf(pkg)
         related == {r \in contributing : request.roles[r] = "related_project"}
     IN  pkg' = [pkg EXCEPT !.contributing = contributing,
                            !.relatedOver = Max({0, Cardinality(related) - request.maxRelated})]
  /\ stage' = "done"
  /\ UNCHANGED <<todo, search, hits>> /\ Reads
-----------------------------------------------------------------------------
Next ==
  \/ Edited
  \/ ReadRecipe \/ ReadSymbols \/ BeginSearches
  \/ SearchAll \/ SearchAny \/ SearchTitles \/ ReadFrequencies \/ ReadPostings \/ EndSearch
  \/ BeginCited \/ NothingCited \/ BeginSignals
  \/ ReadRow \/ NoRow \/ ReadCited \/ ReadSignals
  \/ RankBodies \/ ReadBody \/ EndBodies
  \/ Harvest \/ ReadCue \/ EndCues
  \/ Assemble \/ BeginTrim \/ TrimRound \/ EndTrim \/ Seal

Spec == Init /\ [][Next]_vars
-----------------------------------------------------------------------------
(* Properties.                                                             *)

\* The roots that a document was in since the request began.
Had(d) == {Profile[d][r].root : r \in past[d]}

InScope(uri, root) ==
  IF uri \in Recipes THEN root \in Searched
  ELSE root \in Had(uri) /\ Had(uri) \cap Searched # {}

\* Whatever is cited, shown or named is of a document that a searched root held
\* while the request ran, and comes with a root that this document was in by then,
\* although cited documents are read again by their names, symbols by the ids of
\* documents and chunks by their own ids, none of them with a filter of roots
\* (resolveRoots, mergeCitedDocumentHits, attachRootContribution).  So the root is
\* one of those searched unless the document moved between two reads: then what
\* is read of it in its new root enters the package, under that root's name.
EvidenceInScope ==
  /\ \A i \in DOMAIN pkg.citations : InScope(pkg.citations[i].uri, pkg.citations[i].root)
  /\ \A i \in DOMAIN pkg.examples : InScope(pkg.examples[i].uri, pkg.examples[i].root)
  /\ \A i \in DOMAIN pkg.symbols : InScope(pkg.symbols[i].doc, RootOf(pkg.symbols[i]))
  /\ stage = "done" => pkg.contributing = RootsOf(pkg)

\* The bound of the budget never costs the package its last project source,
\* official example or official document (selectDiverseCitations puts one of
\* each first and trimToBudget keeps three).
DiversitySurvivesTrim ==
  stage = "done" /\ MaxResults >= 3 =>
    pkg.offered \cap {"project", "official_example", "official_docs"}
      \subseteq {Bucket(pkg.citations[i]) : i \in DOMAIN pkg.citations}

\* The lines cited beside an example are those of the text it shows, although
\* the hit, the body and the example are read at different times
\* (materializeHitBodies reads by id, and ids are not given twice).
LinesMatchText ==
  \A i \in DOMAIN pkg.examples : pkg.examples[i].lines = pkg.examples[i].text

\* A root of a group that has anything to say to the task is heard: when no
\* edit disturbs the request, a chunk of it is among the hits, however well
\* the other roots match (searchPackageHits, "cannot starve sibling docs").
NoStarvedRoot ==
  stage \in {"cited", "signals", "rank"} /\ Grouped /\ ~disturbed =>
    \A r \in Searched :
      (\E c \in ChunksIn({r}) : request.terms \cap Text(c).terms # {}) =>
        \E i \in DOMAIN hits : RootOf(hits[i].lines) = r
=============================================================================
