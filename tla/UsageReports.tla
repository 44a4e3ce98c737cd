---------------------------- MODULE UsageReports ----------------------------
(***************************************************************************)
(* The analytics reports: how a retrieval becomes a row of request_events  *)
(* (context_event.go and the handlers that fill in an event themselves),   *)
(* how the reports of query.go and export.go select, group and add up the  *)
(* rows, and what a report sees while the writer, a purge or a clear works *)
(* on the tables: it runs one statement after another, in no transaction.  *)
(*                                                                         *)
(* UsageStore models how an event gets into the tables.  Here events holds *)
(* what was recorded and present the requests whose rows are still there.  *)
(* Averages, rates and the percentage are left out, and of the details of  *)
(* a request its texts.                                                    *)
(***************************************************************************)
EXTENDS Integers, Sequences, FiniteSets, FiniteSetsExt, SequencesExt

CONSTANTS
  Requests,
  Calls,        \* answers of the retrieval handlers, see Call
  Times,        \* what occurred_at may be, from 1
  Filters,      \* see Filter
  Width,        \* per bucket name, the length of its time buckets
  EvidenceCap,  \* hits recorded as evidence by the search handlers (32)
  RankLimit,    \* entries of a ranking (25)
  DefaultPage, MaxPage,  \* rows of a page (25, 100)
  MaxChanges,   \* bound on the changes of the tables during one report
  NoText, NoRow

VARIABLES
  events,   \* what was recorded for a request
  present,  \* the requests with rows
  report    \* the report being built

reportVars == <<events, present, report>>

\* f, and g where f says nothing.
Over(f, g) == [x \in DOMAIN f \cup DOMAIN g |-> IF x \in DOMAIN f THEN f[x] ELSE g[x]]

Grounded == {"grounded_curated", "grounded_local", "grounded_mixed"}
Ungrounded == {"root_selection_required", "no_local_match", "local_insufficient",
               "request_error"}
Rated == {"high", "medium", "low", "not_applicable"}
-----------------------------------------------------------------------------
(* Events.                                                                 *)

\* The tools that record; find_symbol and search_context are not in the list.
ClassifyTool(tool) ==
  CASE tool = "get_implementation_context" -> "implementation_context"
    [] tool \in {"search_knowledge", "search"} -> "knowledge_search"
    [] tool = "search_symbols" -> "symbol_search"
    [] tool = "get_document" -> "document_fetch"
    [] OTHER -> "other"

CoverageApplicableForTool(tool) ==
  ClassifyTool(tool) \in {"implementation_context", "knowledge_search", "symbol_search"}

\* Of a package, which is rated.
NormalizeCoverage(coverage, applicable) ==
  IF ~applicable THEN "not_applicable"
  ELSE IF coverage \in {"high", "medium", "low"} THEN coverage ELSE "unclassified"

\* A handler's own event leaves these columns empty.
Event(call, status) ==
  [tool |-> call.tool, status |-> status, roots |-> call.roots,
   class |-> NoText, coverage |-> NoText, applicable |-> NoText, choice |-> FALSE,
   returned |-> 0, structured |-> 0, raw |-> 0, source |-> 0, avoided |-> 0,
   citations |-> 0, curated |-> 0, recipes |-> 0, symbols |-> 0, sources |-> 0,
   evidence |-> <<>>, at |-> 0]

Evidence(type, key, tokens, included) ==
  [type |-> type, key |-> key, tokens |-> tokens, included |-> included]

Classified(call, event) ==
  LET applicable == CoverageApplicableForTool(call.tool)
  IN  [event EXCEPT !.class = ClassifyTool(call.tool), !.applicable = applicable,
                    !.coverage = IF applicable THEN @ ELSE "not_applicable"]

RootSelectionEvent(call) ==
  [Classified(call, Event(call, "root_selection_required")) EXCEPT !.choice = TRUE]

ErrorEvent(call) == [Classified(call, Event(call, "request_error")) EXCEPT !.roots = {}]

\* find_symbol and search_symbols.
SymbolsEvent(call) ==
  [Event(call, IF call.hits = <<>> THEN "no_local_match" ELSE "grounded_local")
   EXCEPT !.symbols = Len(call.hits),
          !.evidence = [i \in 1 .. Min({EvidenceCap, Len(call.hits)}) |->
                         Evidence("symbol", call.hits[i], 0, FALSE)]]

\* search_knowledge and the search of the web interface.
SearchEvent(call) ==
  [Event(call, IF call.hits = <<>> THEN "no_local_match" ELSE "grounded_local")
   EXCEPT !.citations = Len(call.hits), !.sources = Len(call.hits),
          !.evidence = [i \in 1 .. Min({EvidenceCap, Len(call.hits)}) |->
                         Evidence("citation", call.hits[i], 0, FALSE)]]

\* get_document: one hit.
DocumentEvent(call) ==
  [Event(call, "grounded_local")
   EXCEPT !.citations = 1, !.sources = 1,
          !.evidence = <<Evidence("document", call.hits[1], 0, FALSE)>>]

ClassifyCitation(c) ==
  IF c.authority = "curated_recipe" \/ c.place = "_recipes" THEN "recipe"
  ELSE IF c.authority = "generated_summary" \/ c.place = "curated" THEN "curated"
  ELSE "citation"

StatusFromCounts(citations, symbols, curated, recipes, coverage) ==
  IF citations = 0 /\ symbols = 0 /\ recipes = 0
  THEN IF coverage = "low" THEN "no_local_match" ELSE "local_insufficient"
  ELSE IF curated = 0 /\ recipes = 0 THEN "grounded_local"
  ELSE IF citations > 0 /\ (citations > curated \/ curated = 0) /\ citations > recipes
       THEN "grounded_mixed" ELSE "grounded_curated"

\* Mutated form: in proportion to the raw documents.
SharesOfRaw(returned, structured, raw, typed, citations) ==
  LET part == IF raw > 0 THEN (returned * structured) \div raw ELSE returned
  IN  [structured |-> part, raw |-> returned - part]

\* Mutated form: the shares of the pieces, whatever the size of the package.
SharesOfPieces(returned, structured, raw, typed, citations) ==
  [structured |-> structured, raw |-> raw]

\* The parts of the package's tokens: in proportion to those of the pieces.
Shares(returned, structured, raw, typed, citations) ==
  LET total == structured + raw
      part == IF total > 0 THEN (returned * structured) \div total
              ELSE IF typed = 0 THEN 0
              ELSE IF citations = 0 THEN returned ELSE returned \div 2
  IN  [structured |-> part, raw |-> returned - part]

\* applySourceEstimate.
SourceEstimate(returned, shares) ==
  returned * (IF shares.structured = 0 /\ shares.raw > 0 THEN 2
              ELSE IF shares.structured > 0 /\ shares.raw = 0 THEN 4 ELSE 3)

FromImplementationContext(call) ==
  LET p == call.package
      cites == Len(p.citations)
      types == [i \in 1 .. cites |-> ClassifyCitation(p.citations[i])]
      Typed(set) == Cardinality({i \in 1 .. cites : types[i] \in set})
      pieces == Max({1, cites + Len(p.symbols)})
      perPiece == IF p.tokens = 0 THEN 0 ELSE Max({1, p.tokens \div pieces})
      reviewed == IF p.reviewed THEN 1 ELSE 0
      recipes == Typed({"recipe"}) + reviewed
      curated == Max({Typed({"recipe", "curated"}), reviewed})
      coverage == NormalizeCoverage(p.coverage, CoverageApplicableForTool(call.tool))
      shares == Shares(p.tokens,
                       perPiece * (Typed({"recipe", "curated"}) + Len(p.symbols)),
                       perPiece * Typed({"citation"}),
                       curated + recipes + Len(p.symbols), cites)
      source == SourceEstimate(p.tokens, shares)
      status == StatusFromCounts(cites, Len(p.symbols), curated, recipes, coverage)
  IN  [Classified(call, [Event(call, status) EXCEPT !.coverage = coverage])
       EXCEPT !.returned = p.tokens,
              !.structured = shares.structured, !.raw = shares.raw,
              !.source = source, !.avoided = Max({0, source - p.tokens}),
              !.citations = cites, !.sources = cites, !.symbols = Len(p.symbols),
              !.curated = curated, !.recipes = recipes,
              !.evidence = [i \in 1 .. cites |->
                             Evidence(types[i], p.citations[i].uri, perPiece, TRUE)]
                        \o [i \in DOMAIN p.symbols |->
                             Evidence("symbol", p.symbols[i], perPiece, TRUE)]]

\* A call is the tool, the roots it used or offered, and its outcome.
EventOf(call) ==
  CASE call.outcome = "choice" -> RootSelectionEvent(call)
    [] call.outcome = "error" -> ErrorEvent(call)
    [] call.outcome = "package" -> FromImplementationContext(call)
    [] call.outcome = "hits" /\ call.tool \in {"find_symbol", "search_symbols"}
         -> SymbolsEvent(call)
    [] call.outcome = "hits" /\ call.tool = "get_document" -> DocumentEvent(call)
    [] OTHER -> SearchEvent(call)

\* A row is what the handler built, with the time it was recorded at.
EventRow(call, at) == [EventOf(call) EXCEPT !.at = at]

Sequence(s) == s \in Seq(ToSet(s))

\* What a handler has in its hands when it records.
CallAssumption ==
  \A call \in Calls :
    /\ call.outcome \in {"choice", "error", "package", "hits"}
    /\ IsFiniteSet(call.roots)
    /\ call.outcome = "hits" => Sequence(call.hits)
    /\ call.outcome = "package" =>
         /\ call.package.tokens \in Nat /\ call.package.reviewed \in BOOLEAN
         /\ Sequence(call.package.citations) /\ Sequence(call.package.symbols)

ASSUME ReportsAssumption ==
  /\ CallAssumption
  /\ IsFiniteSet(Requests) /\ Times \subseteq Nat \ {0}
  /\ \A call \in Calls, at \in Times : EventRow(call, at) # NoRow
  /\ \A f \in Filters : f.limit \in Int /\ f.offset \in Int
  /\ EvidenceCap \in Nat /\ RankLimit \in Nat /\ MaxPage \in Nat /\ DefaultPage \in 0..MaxPage
-----------------------------------------------------------------------------
(* The statements.  S is a set of requests, the rows that the WHERE clause *)
(* selects.                                                                *)

\* whereFilter; 0 and NoText stand for a condition that is not asked for.
Matches(r, f) ==
  LET e == events[r]
  IN  /\ f.from # 0 => e.at >= f.from
      /\ f.to # 0 => e.at <= f.to
      /\ f.tool # NoText => e.tool = f.tool
      /\ f.coverage = "unclassified" => e.status \in Grounded /\ e.coverage \notin Rated
      /\ f.coverage \notin {"unclassified", NoText} => e.coverage = f.coverage
      /\ f.status # NoText => e.status = f.status
      /\ f.class # NoText => e.class = f.class
      /\ f.root # NoText => f.root \in e.roots

Count(S, P(_)) == Cardinality({r \in S : P(events[r])})
Total(S, amount(_)) == SumFunction([r \in S |-> amount(events[r])])

IsGrounded(e) == e.status \in Grounded
IsChoice(e) == e.choice \/ e.status = "root_selection_required"
Served(e) == IF IsGrounded(e) THEN e.returned ELSE 0

\* The columns that the summary and a point of the timeseries share.
Requested(S) ==
  [total |-> Cardinality(S),
   grounded |-> Count(S, IsGrounded),
   choice |-> Count(S, IsChoice),
   noMatch |-> Count(S, LAMBDA e : e.status = "no_local_match"),
   insufficient |-> Count(S, LAMBDA e : e.status = "local_insufficient"),
   errors |-> Count(S, LAMBDA e : e.status = "request_error"),
   high |-> Count(S, LAMBDA e : e.coverage = "high"),
   medium |-> Count(S, LAMBDA e : e.coverage = "medium"),
   low |-> Count(S, LAMBDA e : e.coverage = "low"),
   served |-> Total(S, Served)]

QuerySummary(S) ==
  Over([curated |-> Count(S, LAMBDA e : e.curated > 0 \/ e.status = "grounded_curated"),
        unclassified |-> Count(S, LAMBDA e : IsGrounded(e) /\ e.coverage \notin Rated),
        notApplicable |-> Count(S, LAMBDA e : e.coverage = "not_applicable"
                                              \/ e.applicable = FALSE)], Requested(S))

Bucket(r, f) == (events[r].at - 1) \div Width[f.bucket]

QueryTimeseries(S, f) ==
  [b \in {Bucket(r, f) : r \in S} |->
    LET B == {r \in S : Bucket(r, f) = b}
    IN  Over([source |-> Total(B, LAMBDA e : e.source),
              avoided |-> Total(B, LAMBDA e : e.avoided)], Requested(B))]

\* The mutually exclusive outcomes of QueryGrounding.
QueryOutcomes(S) ==
  LET Of(status) == Count(S, LAMBDA e : e.status = status)
      choice == Count(S, LAMBDA e : e.status # "request_error" /\ IsChoice(e))
      classified == choice + Of("request_error") + Of("no_local_match")
                    + Of("local_insufficient") + Of("grounded_mixed")
                    + Of("grounded_curated") + Of("grounded_local")
  IN  [total |-> Cardinality(S), choice |-> choice, errors |-> Of("request_error"),
       noMatch |-> Of("no_local_match"), insufficient |-> Of("local_insufficient"),
       mixed |-> Of("grounded_mixed"), curated |-> Of("grounded_curated"),
       local |-> Of("grounded_local"),
       other |-> Max({0, Cardinality(S) - classified})]

\* The second statement of QueryGrounding.
QueryEvidence(S) ==
  [curated |-> Count(S, LAMBDA e : e.curated > 0),
   recipe |-> Count(S, LAMBDA e : e.recipes > 0),
   symbol |-> Count(S, LAMBDA e : e.symbols > 0),
   rawDocuments |-> Count(S, LAMBDA e : e.citations > 0),
   document |-> Count(S, LAMBDA e : \E i \in DOMAIN e.evidence :
                                      e.evidence[i].type = "document")]

\* The first statement of QueryEfficiency.
Efficiency(S) ==
  LET Of(amount(_)) == Total({r \in S : IsGrounded(events[r])}, amount)
  IN  [grounded |-> Count(S, IsGrounded), served |-> Total(S, Served),
       structured |-> Of(LAMBDA e : e.structured), raw |-> Of(LAMBDA e : e.raw),
       source |-> Of(LAMBDA e : e.source), avoided |-> Of(LAMBDA e : e.avoided)]

\* The rows of evidence_events and request_roots.
Pieces(S) == UNION {{r} \X DOMAIN events[r].evidence : r \in S}
Piece(p) == events[p[1]].evidence[p[2]]
RootRows(S) == UNION {{r} \X events[r].roots : r \in S}

\* Its evidence types; what the package holds beyond them is overhead.
TokenSources(S, served) ==
  LET byType == [t \in {Piece(p).type : p \in Pieces(S)} |->
                  SumFunction([p \in {p \in Pieces(S) : Piece(p).type = t} |-> Piece(p).tokens])]
      typed == SumFunction(byType)
  IN  Over(byType, [t \in (IF served > typed THEN {"overhead"} ELSE {}) |-> served - typed])

\* GROUP BY with ORDER BY COUNT(*) DESC LIMIT: ties are broken arbitrarily.
Ranked(keys, Times_(_)) ==
  {top \in SUBSET keys :
    /\ Cardinality(top) = Min({RankLimit, Cardinality(keys)})
    /\ \A a \in top, b \in keys \ top : Times_(a) >= Times_(b)}

RankRoots(S) ==
  LET Times_(n) == Cardinality({p \in RootRows(S) : p[2] = n})
  IN  {[n \in top |-> Times_(n)] : top \in Ranked({p[2] : p \in RootRows(S)}, Times_)}

\* The column evidence_type is not grouped by: a key gets any of its types.
RankEvidence(S) ==
  LET Of(k) == {p \in Pieces(S) : Piece(p).key = k}
      Times_(k) == Cardinality(Of(k))
      Entry(k, type) == [type |-> type, selected |-> Times_(k),
                         included |-> Cardinality({p \in Of(k) : Piece(p).included})]
      Labels(top) == {l \in [top -> {Piece(p).type : p \in Pieces(S)}] :
                       \A k \in top : \E p \in Of(k) : Piece(p).type = l[k]}
  IN  UNION {{[k \in top |-> Entry(k, l[k])] : l \in Labels(top)} :
              top \in Ranked({Piece(p).key : p \in Pieces(S)}, Times_)}

PageSize(limit) == IF limit <= 0 THEN DefaultPage ELSE Min({MaxPage, limit})

\* Sorted by time, tokens or sources; texts sort in some order.
SortKey(r, f) ==
  CASE f.sort = "tokens" -> events[r].returned
    [] f.sort = "sources" -> events[r].sources
    [] f.sort \in {"tool", "status", "coverage"} -> 0
    [] OTHER -> events[r].at

Page(S, f) ==
  LET Before(a, b) == IF f.order = "asc" THEN SortKey(a, f) <= SortKey(b, f)
                                         ELSE SortKey(a, f) >= SortKey(b, f)
      first == 1 + Max({0, f.offset})
  IN  {SubSeq(s, first, Min({Len(s), first + PageSize(f.limit) - 1})) :
        s \in {s \in SetToSeqs(S) : \A i, j \in DOMAIN s : i < j => Before(s[i], s[j])}}
-----------------------------------------------------------------------------
(* A report: the statements that are left, and the answers so far.         *)

NoReport == [at |-> "idle"]

\* Mutated form: a statement without the conditions.
SelectedAll(f) == present

Selected(f) == {r \in present : Matches(r, f)}

EfficiencyPlan == <<"efficiency", "successes", "sources", "series">>
KnowledgePlan == <<"roots", "evidenceKeys">>

Plan ==
  [summary |-> <<"summary">>, timeseries |-> <<"timeseries">>, coverage |-> <<"coverage">>,
   grounding |-> <<"outcomes", "evidence">>, efficiency |-> EfficiencyPlan,
   knowledge |-> KnowledgePlan, requests |-> <<"count", "page">>,
   detail |-> <<"row", "rootsOf", "piecesOf">>,
   export |-> <<"summary", "timeseries", "coverage", "outcomes", "evidence">>
              \o EfficiencyPlan \o KnowledgePlan]

\* The joins name request_id of both tables: with a root the statement is an error.
Ambiguous(s, f) == s \in {"sources", "roots", "evidenceKeys"} /\ f.root # NoText

\* What a statement may answer.
Answers(s) ==
  LET f == report.filter
      S == Selected(f)
      One == {report.id} \cap present
  IN  CASE s \in {"summary", "coverage"} -> {QuerySummary(S)}
        [] s \in {"timeseries", "series"} -> {QueryTimeseries(S, f)}
        [] s = "outcomes" -> {QueryOutcomes(S)}
        [] s = "evidence" -> {QueryEvidence(S)}
        [] s = "efficiency" -> {Efficiency(S)}
        [] s = "successes" -> {0}
        [] s = "sources" -> {TokenSources(S, report.answer["efficiency"].served)}
        [] s = "roots" -> RankRoots(S)
        [] s = "evidenceKeys" -> RankEvidence(S)
        [] s = "count" -> {Cardinality(S)}
        [] s = "page" -> Page(S, f)
        [] s = "row" -> {One}
        [] s = "rootsOf" -> {UNION {events[r].roots : r \in One}}
        [] s = "piecesOf" -> {Pieces(One)}

\* The statements whose error is dropped, with what stands for their answer.
Optional == [successes |-> 0, rootsOf |-> {}]

\* The handler has written its answer.
Reply ==
  /\ report.at \in {"done", "failed"}
  /\ report' = NoReport
  /\ UNCHANGED <<events, present>>

Begin(kind, f, r) ==
  /\ report = NoReport
  /\ r \in (IF kind = "detail" THEN Requests ELSE {NoRow})
  /\ report' = [at |-> "running", filter |-> f, todo |-> Plan[kind], id |-> r,
                answer |-> <<>>, kept |-> present, seen |-> present, changes |-> 0]
  /\ UNCHANGED <<events, present>>

\* After its answer a report has one statement less; without a row a detail is not found,
\* and each row of a page has its roots read.
Answered(s, value) ==
  LET left == CASE s = "row" /\ value = {} -> <<>>
                [] s = "page" /\ value # <<>> -> [i \in DOMAIN value |-> "rootsOf"]
                [] OTHER -> Tail(report.todo)
  IN  [report EXCEPT
        !.todo = left, !.answer = Over([x \in {s} |-> value], @),
        !.id = IF left = <<>> \/ Head(left) # "rootsOf" \/ s = "row" THEN @
               ELSE IF s = "page" THEN value[1]
               ELSE report.answer["page"][Len(report.answer["page"]) - Len(left) + 1],
        !.at = IF left = <<>> THEN "done" ELSE @]

Statement ==
  /\ report.at = "running"
  /\ ~Ambiguous(Head(report.todo), report.filter)
  /\ \E value \in Answers(Head(report.todo)) :
       report' = Answered(Head(report.todo), value)
  /\ UNCHANGED <<events, present>>

\* A statement that is ambiguous, or whose connection or context is gone.
Fail ==
  /\ report.at = "running"
  /\ LET s == Head(report.todo)
     IN  report' = IF s \in DOMAIN Optional THEN Answered(s, Optional[s])
                   ELSE [report EXCEPT !.at = "failed"]
  /\ UNCHANGED <<events, present>>
-----------------------------------------------------------------------------
(* The tables change in transactions; a report that is done is replied     *)
(* first, which loses nothing.                                             *)

Noticed ==
  IF report = NoReport THEN UNCHANGED report
  ELSE /\ report.at = "running" /\ report.changes < MaxChanges
       /\ report' = [report EXCEPT !.changes = @ + 1, !.kept = @ \cap present',
                                   !.seen = @ \cup present']

\* insertBatch: one batch of the writer.
InsertBatch(batch) ==
  /\ \E call \in [batch -> Calls], at \in [batch -> Times] :
       events' = [r \in Requests |-> IF r \in batch THEN EventRow(call[r], at[r])
                                     ELSE events[r]]
  /\ present' = present \cup batch
  /\ Noticed

PurgeExpired(cutoff) ==
  /\ present' = {r \in present : events[r].at >= cutoff}
  /\ Noticed
  /\ UNCHANGED events

ClearAll ==
  /\ present' = {}
  /\ Noticed
  /\ UNCHANGED events

ReportsInit ==
  /\ events = [r \in Requests |-> NoRow]
  /\ present = {}
  /\ report = NoReport

ReportsNext ==
  \/ \E batch \in SUBSET {r \in Requests : events[r] = NoRow} : batch # {} /\ InsertBatch(batch)
  \/ \E cutoff \in Times : PurgeExpired(cutoff)
  \/ ClearAll
  \/ \E kind \in DOMAIN Plan, f \in Filters, r \in Requests \cup {NoRow} : Begin(kind, f, r)
  \/ Statement
  \/ Fail
  \/ Reply

ReportsSpec == ReportsInit /\ [][ReportsNext]_reportVars
-----------------------------------------------------------------------------
(* Properties.                                                             *)

\* The variables have their types, a running report has a statement to run, a
\* finished one has none, and a page is no longer than its limit.
ReportsTypeOK ==
  /\ \A r \in Requests : events[r] # NoRow =>
       /\ events[r].status \in Grounded \cup Ungrounded /\ events[r].at \in Times
       /\ \A amount \in {"returned", "structured", "raw", "source", "avoided"} :
            events[r][amount] \in Nat
  /\ present \subseteq {r \in Requests : events[r] # NoRow}
  /\ report # NoReport =>
       /\ report.at \in {"running", "done", "failed"}
       /\ (report.at = "done") <=> (report.todo = <<>>)
       /\ report.kept \subseteq report.seen
       /\ "page" \in DOMAIN report.answer => Len(report.answer["page"]) <= MaxPage

Answer(s) == report.answer[s]
Has(s) == report # NoReport /\ s \in DOMAIN report.answer

\* The outcomes of a summary or of a point of the timeseries add up to its total.
AddsUp(v) == v.grounded + v.choice + v.noMatch + v.insufficient + v.errors = v.total

\* Whatever events the handlers build, the outcomes of every summary and every
\* time bucket add up to its total (ReconcileOK), those of the grounding report
\* leave no other outcome, curated requests are among the grounded ones, and
\* the structured and raw tokens add up to the tokens served.
ReportsReconcile ==
  /\ \A s \in {"summary", "coverage"} : Has(s) =>
       /\ AddsUp(Answer(s))
       /\ Answer(s).curated <= Answer(s).grounded /\ Answer(s).unclassified <= Answer(s).grounded
  /\ \A s \in {"timeseries", "series"} : Has(s) => \A b \in DOMAIN Answer(s) : AddsUp(Answer(s)[b])
  /\ Has("outcomes") => Answer("outcomes").other = 0
  /\ Has("efficiency") =>
       Answer("efficiency").structured + Answer("efficiency").raw = Answer("efficiency").served

\* Between what the rows that match and stayed throughout the report amount to
\* and what all that were ever there do.
Within(n, amount(_)) ==
  /\ n >= Total({r \in report.kept : Matches(r, report.filter)}, amount)
  /\ n <= Total({r \in report.seen : Matches(r, report.filter)}, amount)

Points(s, field) == SumFunction([b \in DOMAIN Answer(s) |-> Answer(s)[b][field]])

\* Although its statements see the tables at different times, every section of a
\* report counts each request that matches the filter and stays, and none that
\* never was there: when nothing is written meanwhile, all sections agree.
SectionsBracketed ==
  /\ \A s \in {"summary", "coverage", "outcomes"} : Has(s) =>
       Within(Answer(s).total, LAMBDA e : 1)
  /\ \A s \in {"summary", "coverage", "efficiency"} : Has(s) =>
       /\ Within(Answer(s).served, Served)
       /\ Within(Answer(s).grounded, LAMBDA e : IF IsGrounded(e) THEN 1 ELSE 0)
  /\ \A s \in {"timeseries", "series"} : Has(s) =>
       /\ Within(Points(s, "total"), LAMBDA e : 1)
       /\ Within(Points(s, "served"), Served)
  /\ Has("count") => Within(Answer("count"), LAMBDA e : 1)
  /\ Has("roots") /\ Cardinality(DOMAIN Answer("roots")) < RankLimit =>
       Within(SumFunction(Answer("roots")), LAMBDA e : Cardinality(e.roots))
=============================================================================
