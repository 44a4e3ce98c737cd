------------------------------ MODULE Retrieval ------------------------------
(***************************************************************************)
(* What a request reads of the corpus, and the editors it runs beside.     *)
(* Full text, path and title, term vectors and symbols are read by         *)
(* statements of their own, and each one may see another corpus.           *)
(*                                                                         *)
(* A chunk is named by its document, the revision it was cut from and its  *)
(* ordinal; its id is never given to another chunk (AUTOINCREMENT), so a   *)
(* chunk that was read keeps its text when the document has gone on.  Each *)
(* revision has a row of its own: with the chunks, an ingest replaces the  *)
(* document's root, authority, version and archived.                       *)
(***************************************************************************)
EXTENDS Integers, FiniteSets, FiniteSetsExt, Sequences, SequencesExt

CONSTANTS
  Docs,       \* URIs of documents
  Revisions,  \* 1..n
  Profile,    \* [Docs -> [Revisions -> [root, authority, version, archived]]]
  Bm25,       \* [Docs -> Int], of all chunks of the document
  Body,       \* [Docs -> [Revisions -> Seq([terms, signals, window, apis])]]
  Names,      \* of symbols and APIs
  SymbolsOf,  \* [Docs -> SUBSET [name, kind]]
  Matches,    \* <<token, name, stage>>: the WHERE clauses of FindSymbols
  Recipes,    \* URIs of knowledge entries
  RecipeOf,   \* [Recipes -> [root, created, apis, constraints, prereqs, examples, sequence]]
  Rank,       \* [Docs \cup Recipes \cup terms \cup names -> Nat], the order of strings
  NoVersion,
  MaxPerDocument,
  MaxEdits    \* bound on the edits during a request

VARIABLES
  corpus,   \* [Docs -> Revisions \cup {0}], 0 for none: documents and chunks
  past,     \* the revisions a document has had since the request began (history)
  recipes,  \* [Recipes -> review status]: knowledge_entries
  edits

tables == <<corpus, past, recipes, edits>>

Status == {"none", "generated", "human_reviewed"}
Kinds == {"function", "type", "call"}
Sequence(s) == s \in Seq(ToSet(s))

\* Documents and recipes are finitely many, and so is what they consist of.
CorpusAssumption ==
  /\ IsFiniteSet(Docs) /\ IsFiniteSet(Recipes) /\ Recipes \cap Docs = {}
  /\ Revisions \subseteq Nat \ {0} /\ 1 \in Revisions
  /\ \A d \in Docs : /\ IsFiniteSet(SymbolsOf[d])
                      /\ SymbolsOf[d] \subseteq [name : Names, kind : Kinds]
  /\ \A d \in Docs, r \in Revisions :
       /\ Sequence(Body[d][r])
       /\ \A c \in ToSet(Body[d][r]) : /\ IsFiniteSet(c.terms) /\ IsFiniteSet(c.signals)
                                      /\ c.apis \in Seq(Names)
  /\ \A u \in Recipes : /\ RecipeOf[u].apis \in Seq(Names) /\ RecipeOf[u].sequence \in BOOLEAN
                        /\ RecipeOf[u].constraints \in Nat /\ RecipeOf[u].prereqs \in Nat
                        /\ RecipeOf[u].examples \in Nat

\* No order has ties.
OrderAssumption ==
  /\ \A d \in Docs, r \in Revisions : Profile[d][r].archived \in BOOLEAN
  /\ \A d \in Docs : Bm25[d] \in Int
  /\ \A c, d \in Docs : Bm25[c] = Bm25[d] => c = d
  /\ \A u \in Recipes : RecipeOf[u].created \in Int
  /\ \A u, v \in Recipes : RecipeOf[u].created = RecipeOf[v].created => u = v
  /\ \A x \in Docs \cup Recipes \cup Names : Rank[x] \in Int
  /\ \A x, y \in Docs \cup Recipes : Rank[x] = Rank[y] => x = y
  /\ \A x, y \in Names : Rank[x] = Rank[y] => x = y

ASSUME RetrievalAssumption ==
  CorpusAssumption /\ OrderAssumption /\ MaxPerDocument \in Nat \ {0} /\ MaxEdits \in Nat

\* Any chunk that was ever cut.
Chunk ==
  {c \in [doc : Docs, rev : Revisions, ord : Nat \ {0}] : c.ord \in DOMAIN Body[c.doc][c.rev]}

TablesTypeOK ==
  /\ corpus \in [Docs -> Revisions \cup {0}]
  /\ past \in [Docs -> SUBSET Revisions]
  /\ \A d \in Docs : corpus[d] \in past[d] \cup {0}
  /\ recipes \in [Recipes -> Status]
  /\ edits \in 0..MaxEdits
-----------------------------------------------------------------------------
(* Authority.                                                              *)

Tiers == <<"current_project", "related_internal_project", "curated_internal_recipe",
           "official_example", "official_documentation", "generated_summary",
           "third_party_reference">>

AuthorityRank(a) == IF a \in ToSet(Tiers) THEN CHOOSE i \in DOMAIN Tiers : Tiers[i] = a
                    ELSE Len(Tiers) + 1

\* normalizeRecipeAuthority, for an entry that names no authority.
RecipeAuthority(status) ==
  IF status = "human_reviewed" THEN "curated_internal_recipe" ELSE "generated_summary"

Text(c) == Body[c.doc][c.rev][c.ord]

\* The row that a chunk or a symbol was stored with, and joined to when it is read.
Row(c) == Profile[c.doc][c.rev]
RootOf(c) == Row(c).root

Stored(c) == corpus[c.doc] = c.rev
ChunksOf(doc) ==
  IF corpus[doc] = 0 THEN <<>>
  ELSE [i \in DOMAIN Body[doc][corpus[doc]] |-> [doc |-> doc, rev |-> corpus[doc], ord |-> i]]

\* The rows of chunks that a statement with a root filter may return.
ChunksIn(roots) == {c \in UNION {ToSet(ChunksOf(d)) : d \in Docs} : RootOf(c) \in roots}

\* The elements of a set in a strict total order, of which R has the pairs.
Ordered(S, R) ==
  [i \in 1..Cardinality(S) |-> CHOOSE e \in S : Cardinality({f \in S : <<f, e>> \in R}) = i - 1]

Sorted(S, less(_, _)) == Ordered(S, {p \in S \X S : less(p[1], p[2])})

First(n, s) == SubSeq(s, 1, IF Len(s) < n THEN Len(s) ELSE n)

\* What s has at the positions I.
At(s, I) == LET places == Sorted(I, LAMBDA i, j : i < j) IN [k \in DOMAIN places |-> s[places[k]]]
Where(s, holds(_)) == At(s, {i \in DOMAIN s : holds(s[i])})

\* An element counts where it occurs first.
Distinct(s) == At(s, {i \in DOMAIN s : \A j \in 1..(i - 1) : s[j] # s[i]})
-----------------------------------------------------------------------------
(* SearchOpts.                                                             *)

\* What compositeScore and applyVersionPreference tell apart within a tier.
Score(c, query) ==
  LET p == Row(c)
  IN  Bm25[c.doc] + (IF c.doc \in query.titled THEN 28 ELSE 0) - (IF p.archived THEN 25 ELSE 0)
        + (CASE query.version = NoVersion \/ p.version = NoVersion -> 0
             [] query.version # NoVersion /\ p.version = query.version -> 5
             [] OTHER -> -8)

\* Role and project weigh in when the roots of a group are searched.
Bias(c, query) ==
  LET role == query.roles[RootOf(c)]
  IN  (CASE role \in {"official_documentation", "official_example"} -> 2
         [] role \in {"curated_knowledge", "current_project"} -> 1
         [] OTHER -> 0)
      + (IF RootOf(c) = query.project THEN 4 ELSE 0)

\* The chunks of a document in the order of their ids.
Before(c, d) == c.doc = d.doc /\ (c.rev < d.rev \/ (c.rev = d.rev /\ c.ord < d.ord))

\* sortSearchHits: the tier, then the score, then the position in the text.
Ahead(c, d, score) ==
  LET r == AuthorityRank(Row(c).authority)
      q == AuthorityRank(Row(d).authority)
  IN  \/ r < q
      \/ r = q /\ score[c] > score[d]
      \/ r = q /\ score[c] = score[d] /\ Bm25[c.doc] > Bm25[d.doc]
      \/ r = q /\ score[c] = score[d] /\ Before(c, d)

Ranked(chunks, score(_)) ==
  LET scores == [c \in chunks |-> score(c)]
  IN  Sorted(chunks, LAMBDA c, d : Ahead(c, d, scores))

\* ORDER BY rank LIMIT: SQLite knows nothing of tiers.
TopText(n, chunks) ==
  ToSet(First(n, Sorted(chunks, LAMBDA c, d :
    \/ Bm25[c.doc] > Bm25[d.doc]
    \/ Before(c, d))))

\* searchFTS, with all the content terms and with any of them.
FullText(query, roots, n) ==
  TopText(n, {c \in ChunksIn(roots) : query.terms \subseteq Text(c).terms})
AnyText(query, roots, n) ==
  TopText(n, {c \in ChunksIn(roots) : query.terms \cap Text(c).terms # {}})

\* pathTitleCandidates: the first chunk of a document.
ByTitle(query, roots) == {c \in ChunksIn(roots) : c.ord = 1 /\ c.doc \in query.titled}

\* termDocumentFrequencies and selectLookupTerms: the rare terms, or the
\* three rarest when every term is in more than 15% of the chunks.
LookupTerms(query, roots) ==
  LET n == Cardinality(ChunksIn(roots))
      df(t) == Cardinality({c \in ChunksIn(roots) : t \in Text(c).terms})
      rare == {t \in query.terms : df(t) * 100 <= 15 * n}
      rarer(t) == {u \in query.terms : df(u) < df(t) \/ (df(u) = df(t) /\ Rank[u] < Rank[t])}
  IN  IF n > 0 /\ rare # {} THEN rare
      ELSE {t \in query.terms : n = 0 \/ Cardinality(rarer(t)) < 3}

\* The cosine of two vectors of equal weights, at least 0.12.
Similar(c, query) ==
  LET k == Cardinality(query.terms \cap Text(c).terms)
  IN  k * k * 10000 >= 144 * Cardinality(query.terms) * Cardinality(Text(c).terms)

\* The postings of the terms, scored by their vectors.
ByVector(query, roots, terms, n) ==
  LET shared(c) == Cardinality(query.terms \cap Text(c).terms)
  IN  ToSet(First(n, Ranked({c \in ChunksIn(roots) :
                               terms \cap Text(c).terms # {} /\ Similar(c, query)}, shared)))

\* At most so many chunks of a document, and so many in all.
Diversify(s, limit) ==
  First(limit, At(s, {i \in DOMAIN s :
                        Cardinality({j \in 1..(i - 1) : s[j].doc = s[i].doc}) < MaxPerDocument}))
-----------------------------------------------------------------------------
(* Symbols.                                                                *)

Symbol == [doc : Docs, rev : Revisions, name : Names, kind : Kinds]

SymbolsIn(docs) ==
  UNION {{[doc |-> d, rev |-> corpus[d], name |-> s.name, kind |-> s.kind] : s \in SymbolsOf[d]} :
         d \in {d \in docs : corpus[d] # 0}}

KindRank == [function |-> 0, type |-> 3, call |-> 8]

\* ORDER BY kind, authority, position.
SymbolRows(n, symbols) ==
  LET key(s) == <<KindRank[s.kind], AuthorityRank(Row(s).authority), Rank[s.doc],
                  Rank[s.name]>>
      less(s, t) == \E i \in 1..4 : /\ key(s)[i] < key(t)[i]
                                    /\ \A j \in 1..(i - 1) : key(s)[j] = key(t)[j]
  IN  First(n, Sorted(symbols, less))

\* Mutated form: the statement forgets the roots.
SymbolsAnywhere(roots) == SymbolsIn(Docs)

SymbolsUnder(roots) == {s \in SymbolsIn(Docs) : RootOf(s) \in roots}

\* FindSymbols: exact, qualified, unqualified, prefix, suffix, token, fuzzy.
\* A stage reads twice as many rows as are still missing.
FindSymbols(token, roots, limit) ==
  LET at(k, n) == SymbolRows(n, {s \in SymbolsUnder(roots) : <<token, s.name, k>> \in Matches})
      new(out, s) == Where(s, LAMBDA e : ~Contains(out, e))
      stage(out, k) ==
        IF Len(out) >= limit THEN out
        ELSE First(limit, out \o new(out, at(k, IF k = 7 THEN 50 ELSE 2 * (limit - Len(out)))))
      rows[k \in 0..7] == IF k = 0 THEN <<>> ELSE stage(rows[k - 1], k)
  IN  rows[7]
-----------------------------------------------------------------------------
(* The editors.                                                            *)

Edit == edits < MaxEdits /\ edits' = edits + 1

\* UpsertDocument: the row is replaced, perhaps under another root, and the
\* chunks are cut anew.
Reindex(d, r) ==
  /\ Edit /\ \A q \in past[d] : q < r
  /\ corpus' = [corpus EXCEPT ![d] = r]
  /\ past' = [past EXCEPT ![d] = @ \cup {r}]
  /\ UNCHANGED recipes

DeleteDocument(d) ==
  /\ Edit /\ corpus[d] # 0
  /\ corpus' = [corpus EXCEPT ![d] = 0]
  /\ UNCHANGED <<past, recipes>>

\* UpsertKnowledgeEntry, and SetKnowledgeEntryReviewStatus of an entry.  A request
\* reads the entries once, in one statement: what else changes of one is left out.
PutRecipe(u, status) ==
  /\ Edit /\ recipes[u] # status
  /\ recipes' = [recipes EXCEPT ![u] = status]
  /\ UNCHANGED <<corpus, past>>

DeleteAllRecipes ==
  /\ Edit
  /\ recipes' = [u \in Recipes |-> "none"]
  /\ UNCHANGED <<corpus, past>>

Editors ==
  \/ \E d \in Docs : DeleteDocument(d) \/ \E r \in Revisions : Reindex(d, r)
  \/ \E u \in Recipes, s \in Status \ {"none"} : PutRecipe(u, s)
  \/ DeleteAllRecipes

\* SearchKnowledgeEntries: the human-reviewed first, then the newest.
RecipesIn(roots) ==
  LET in == {u \in Recipes : recipes[u] # "none" /\ RecipeOf[u].root \in roots}
      less(u, v) == \/ recipes[u] = "human_reviewed" /\ recipes[v] # "human_reviewed"
                    \/ recipes[u] = recipes[v] /\ RecipeOf[u].created > RecipeOf[v].created
  IN  Sorted(in, less)
=============================================================================
