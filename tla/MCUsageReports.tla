--------------------------- MODULE MCUsageReports ---------------------------
(***************************************************************************)
(* Two requests and two times.  The calls are one of each way to record:   *)
(* a package of a reviewed recipe with a raw document and a symbol, one of *)
(* raw documents without a rating, an empty one, hits beyond EvidenceCap,  *)
(* no hits, the recipe's document fetched, a choice of roots, an error.    *)
(***************************************************************************)
EXTENDS UsageReports, TLC

call(tool, outcome, roots) == [tool |-> tool, outcome |-> outcome, roots |-> roots]
cite(authority, place, uri) == [authority |-> authority, place |-> place, uri |-> uri]
package(coverage, tokens, citations, symbols, reviewed) ==
  [coverage |-> coverage, tokens |-> tokens, citations |-> citations,
   symbols |-> symbols, reviewed |-> reviewed]
context(tool, p) == [package |-> p] @@ call(tool, "package", {"a"})
hits(tool, keys) == [hits |-> keys] @@ call(tool, "hits", {"a", "b"})

MCCalls ==
  {context("get_implementation_context",
           package("high", 7, <<cite("curated_recipe", "docs", "u1"),
                                cite("official", "docs", "u2")>>, <<"s1">>, TRUE)),
   context("search_context", package("", 3, <<cite("official", "curated", "u2")>>, <<>>, FALSE)),
   context("get_implementation_context", package("low", 2, <<>>, <<>>, FALSE)),
   hits("search_knowledge", <<"u1", "u2", "u1">>),
   hits("find_symbol", <<>>),
   hits("get_document", <<"u1">>),
   call("search", "choice", {"a", "b"}),
   call("search_context", "error", {})}

MCWidth == [hour |-> 1, day |-> 2]

filter ==
  [from |-> 0, to |-> 0, tool |-> NoText, coverage |-> NoText, status |-> NoText,
   class |-> NoText, root |-> NoText, bucket |-> "hour", sort |-> "time", order |-> "desc",
   limit |-> 0, offset |-> 0]

MCFilters ==
  {filter,
   [filter EXCEPT !.from = 2, !.to = 2, !.limit = 9, !.sort = "tokens"],
   [filter EXCEPT !.coverage = "unclassified", !.bucket = "day", !.limit = 2, !.order = "asc"],
   [filter EXCEPT !.root = "a", !.offset = 1]}

Alike == Permutations(Requests)
=============================================================================
