------------------------------ MODULE WebCrawl ------------------------------
(***************************************************************************)
(* web.CrawlSite over one registered source: the queue of the crawl, the   *)
(* rows of web_pages it writes, the documents behind them, and the prune   *)
(* and the deletes that may run beside it.  The site is the environment;   *)
(* it may change, fail, and answer a conditional request with 304.         *)
(*                                                                         *)
(* A page keeps its URL through redirects, and URLs that the prefixes, the *)
(* profile or robots.txt exclude are left out of Urls.  A crawl fetches a  *)
(* URL once, so the number of the crawl that inserted a row or a document  *)
(* stands for its id among those of the same URL.                          *)
(***************************************************************************)
EXTENDS Naturals, FiniteSets, Sequences, Functions

CONSTANTS
  Urls,
  Contents,   \* page bodies, each standing for its hash
  Tagged,     \* the bodies that the server sends with an ETag
  LinksOf,    \* the links of a body
  Seeds,      \* the start URL and then the sitemap, each URL once
  MaxDepth,   \* CrawlOptions.MaxDepth
  Threshold,  \* the threshold of prune_web_source
  Gone,       \* a page that the site no longer serves
  None, NoPage, NoDoc, NoSave,
  MaxCrawls,  \* bound on the crawls begun
  MaxEdits    \* bound on the site's edits and the deletes of documents

Body == Contents \cup {None}

VARIABLES
  site,       \* what the server has at each URL
  pages,      \* rows of web_pages of the source
  docs,       \* the documents of the pages' URIs
  crawl,      \* the running crawl, or Off
  crawls,     \* how many were begun
  edits,      \* how many edits and deletes happened
  pruned,     \* what a prune has selected and not yet deleted
  torn        \* not in the code: the URLs whose document was written, and the
              \* row not, when a crawl was stopped

vars == <<site, pages, docs, crawl, crawls, edits, pruned, torn>>

Page == [id : Nat, doc : Nat, hash : Body, etag : Body, gen : Nat,
         seenGen : Nat, missing : Nat]
Doc  == [id : Nat, hash : Contents]
Item == [url : Urls, depth : Nat]
Save == [url : Urls, row : Page]
Pair == [url : Urls, row : Nat, doc : Nat, docDone : BOOLEAN]

ASSUME CrawlAssumption ==
  /\ IsFiniteSet(Urls)
  /\ LinksOf \in [Contents -> SUBSET Urls]
  /\ Seeds \in Seq(Urls) /\ Seeds # <<>>
  /\ \A i, j \in 1..Len(Seeds) : Seeds[i] = Seeds[j] => i = j
  /\ MaxDepth \in Nat /\ Threshold \in Nat \ {0}
  /\ MaxCrawls \in Nat /\ MaxEdits \in Nat
  /\ Tagged \in SUBSET Contents
  /\ Gone \notin Contents /\ None \notin Contents
  /\ NoPage \notin Page /\ NoDoc \notin Doc /\ NoSave \notin Save

Crawl == [on : BOOLEAN, refresh : BOOLEAN, gen : Nat, queue : Seq(Item),
          found : SUBSET Urls, prev : [Urls -> Page \cup {NoPage}],
          save : Save \cup {NoSave},
          \* Not in the code: nothing failed and the site kept still, and
          \* moreover nobody deleted anything, since the crawl began.
          clean : BOOLEAN, quiet : BOOLEAN]

Off == [on |-> FALSE, refresh |-> FALSE, gen |-> 0, queue |-> <<>>, found |-> {},
        prev |-> [u \in Urls |-> NoPage], save |-> NoSave,
        clean |-> FALSE, quiet |-> FALSE]

TypeOK ==
  /\ site \in [Urls -> Contents \cup {Gone}]
  /\ pages \in [Urls -> Page \cup {NoPage}]
  /\ docs \in [Urls -> Doc \cup {NoDoc}]
  /\ crawl \in Crawl
  /\ crawls \in Nat /\ edits \in Nat
  /\ pruned \in SUBSET Pair
  /\ torn \in SUBSET Urls

Init ==
  /\ site \in [Urls -> Contents \cup {Gone}]
  /\ pages = [u \in Urls |-> NoPage]
  /\ docs = [u \in Urls |-> NoDoc]
  /\ crawl = Off
  /\ crawls = 0
  /\ edits = 0
  /\ pruned = {}
  /\ torn = {}
-----------------------------------------------------------------------------
Rows == {u \in Urls : pages[u] # NoPage}

\* NextCrawlGeneration: MAX(crawl_generation) + 1.
NextGeneration ==
  LET gens == {pages[u].gen : u \in Rows}
  IN  IF gens = {} THEN 1 ELSE (CHOOSE g \in gens : \A h \in gens : h <= g) + 1

HasDoc(u, id) == docs[u] # NoDoc /\ docs[u].id = id

Queued(urls, depth) == [i \in 1..Len(urls) |-> [url |-> urls[i], depth |-> depth]]
Elements(q) == {q[i] : i \in 1..Len(q)}

\* The links of a page are queued in the order it has them; any order here.
Orders(urls) == Bijection(1..Cardinality(urls), urls)
-----------------------------------------------------------------------------
(* The crawl *)

BeginCrawl(refresh) ==
  /\ ~ crawl.on
  /\ crawls < MaxCrawls
  /\ crawls' = crawls + 1
  /\ crawl' = [on |-> TRUE, refresh |-> refresh, gen |-> NextGeneration,
               queue |-> Queued(Seeds, 0), found |-> Elements(Seeds),
               prev |-> pages, save |-> NoSave, clean |-> TRUE, quiet |-> TRUE]
  /\ UNCHANGED <<site, pages, docs, edits, pruned, torn>>

Cur == Head(crawl.queue)

\* The loop takes the next URL once the last page's row is written.
Ready == crawl.on /\ crawl.queue # <<>> /\ crawl.save = NoSave

\* Mutated form: a page that failed goes back to the end of the queue.
FetchFailsRetry ==
  /\ Ready
  /\ crawl' = [crawl EXCEPT !.queue = Append(Tail(@), Head(@)), !.clean = FALSE]
  /\ UNCHANGED <<site, pages, docs, crawls, edits, pruned, torn>>

\* An error, or a status that is not 2xx: the row counts as seen, and keeps
\* the document, the hash, the ETag and the missing_count it had.
FetchFails ==
  /\ Ready
  /\ LET p == crawl.prev[Cur.url]
         r == IF p = NoPage
                THEN [id |-> 0, doc |-> 0, hash |-> None, etag |-> None,
                      gen |-> crawl.gen, seenGen |-> crawl.gen, missing |-> 0]
                ELSE [p EXCEPT !.gen = crawl.gen, !.seenGen = crawl.gen]
     IN  crawl' = [crawl EXCEPT !.queue = Tail(@), !.clean = FALSE,
                                !.save = [url |-> Cur.url, row |-> r]]
  /\ UNCHANGED <<site, pages, docs, crawls, edits, pruned, torn>>

\* A page without text, or an error of UpsertDocument: the row stays as it is.
NothingStored ==
  /\ Ready
  /\ site[Cur.url] # Gone
  /\ crawl' = [crawl EXCEPT !.queue = Tail(@), !.clean = FALSE]
  /\ UNCHANGED <<site, pages, docs, crawls, edits, pruned, torn>>

\* 304: only last_seen_generation moves, and the page's links are not read.
NotModified ==
  /\ Ready
  /\ LET p == crawl.prev[Cur.url]
     IN  /\ crawl.refresh /\ p # NoPage
         /\ p.etag = site[Cur.url]
         /\ crawl' = [crawl EXCEPT !.queue = Tail(@),
                        !.save = [url |-> Cur.url, row |-> [p EXCEPT !.seenGen = crawl.gen]]]
  /\ UNCHANGED <<site, pages, docs, crawls, edits, pruned, torn>>

\* Mutated form: the links of a changed page only are followed.
LinksIfChanged(u, depth, body) ==
  IF depth < MaxDepth /\ (crawl.prev[u] = NoPage \/ crawl.prev[u].hash # body)
    THEN LinksOf[body] \ crawl.found ELSE {}

\* The links of a body, found at depth, that the crawl has not met.
NewLinks(u, depth, body) ==
  IF depth < MaxDepth
    THEN LinksOf[body] \ crawl.found ELSE {}

\* UpsertDocument, unless the body is the one the row already has.
Stored(u, body) ==
  IF crawl.prev[u] # NoPage /\ crawl.prev[u].hash = body THEN docs
  ELSE IF docs[u] = NoDoc THEN [docs EXCEPT ![u] = [id |-> crawls, hash |-> body]]
  ELSE [docs EXCEPT ![u].hash = body]

\* 200: the ETag is None when the server sends none.
FetchPage ==
  /\ Ready
  /\ site[Cur.url] # Gone
  /\ LET u     == Cur.url
         body  == site[u]
         same  == crawl.prev[u] # NoPage /\ crawl.prev[u].hash = body
         links == NewLinks(u, Cur.depth, body)
         row   == [id |-> 0, doc |-> IF same THEN crawl.prev[u].doc ELSE docs'[u].id,
                   hash |-> body, etag |-> IF body \in Tagged THEN body ELSE None,
                   gen |-> crawl.gen, seenGen |-> crawl.gen, missing |-> 0]
     IN  /\ docs' = Stored(u, body)
         /\ \E order \in Orders(links) :
              crawl' = [crawl EXCEPT
                !.queue = Tail(@) \o Queued(order, Cur.depth + 1),
                !.found = @ \cup links,
                !.save = [url |-> u, row |-> row]]
  /\ UNCHANGED <<site, pages, crawls, edits, pruned, torn>>

\* Mutated form: the row is written with whatever link the crawl remembers.
SaveRowUnchecked ==
  /\ crawl.on /\ crawl.save # NoSave
  /\ LET u == crawl.save.url
     IN  pages' = [pages EXCEPT ![u] =
           [crawl.save.row EXCEPT !.id = IF pages[u] = NoPage THEN crawls ELSE pages[u].id]]
  /\ crawl' = [crawl EXCEPT !.save = NoSave]
  /\ UNCHANGED <<site, docs, crawls, edits, pruned, torn>>

\* UpsertWebPage, whose error is dropped: the foreign key refuses a link to a
\* document that was deleted since the crawl read or wrote it.
SaveRow ==
  /\ crawl.on /\ crawl.save # NoSave
  /\ LET u  == crawl.save.url
         ok == crawl.save.row.doc = 0 \/ HasDoc(u, crawl.save.row.doc)
     IN  /\ pages' = IF ok
               THEN [pages EXCEPT ![u] =
                 [crawl.save.row EXCEPT !.id = IF pages[u] = NoPage THEN crawls ELSE pages[u].id]]
               ELSE pages
         /\ crawl' = [crawl EXCEPT !.save = NoSave, !.clean = @ /\ ok]
         /\ torn' = IF ok /\ docs[u] # NoDoc /\ docs[u].hash = crawl.save.row.hash
                     THEN torn \ {u} ELSE torn
  /\ UNCHANGED <<site, docs, crawls, edits, pruned>>

\* Mutated form: the count goes down.
EndCrawlCountingDown ==
  /\ crawl.on /\ crawl.queue = <<>> /\ crawl.save = NoSave
  /\ pages' = [u \in Urls |->
                 IF pages[u] # NoPage /\ pages[u].seenGen < crawl.gen
                   THEN [pages[u] EXCEPT !.missing = @ - 1] ELSE pages[u]]
  /\ crawl' = Off
  /\ UNCHANGED <<site, docs, crawls, edits, pruned, torn>>

\* MarkMissingWebPages
EndCrawl ==
  /\ crawl.on /\ crawl.queue = <<>> /\ crawl.save = NoSave
  /\ pages' = [u \in Urls |->
                 IF pages[u] # NoPage /\ pages[u].seenGen < crawl.gen
                   THEN [pages[u] EXCEPT !.missing = @ + 1] ELSE pages[u]]
  /\ crawl' = Off
  /\ UNCHANGED <<site, docs, crawls, edits, pruned, torn>>

\* maxPages, maxCrawlBytes or a cancelled context, at the head of the loop;
\* the end of the process, anywhere.
StopCrawl ==
  /\ crawl.on
  /\ crawl' = Off
  /\ torn' = IF crawl.save = NoSave THEN torn ELSE torn \cup {crawl.save.url}
  /\ UNCHANGED <<site, pages, docs, crawls, edits, pruned>>
-----------------------------------------------------------------------------
(* Beside the crawl *)

\* DELETE FROM documents, with ON DELETE SET NULL on the page's link.
DeleteDoc(u) ==
  /\ docs' = [docs EXCEPT ![u] = NoDoc]
  /\ pages' = IF pages[u] # NoPage THEN [pages EXCEPT ![u].doc = 0] ELSE pages

\* delete_document, or a prefix delete that reaches the page's URI.
DeleteDocument(u) ==
  /\ docs[u] # NoDoc
  /\ edits < MaxEdits /\ edits' = edits + 1
  /\ DeleteDoc(u)
  /\ crawl' = [crawl EXCEPT !.quiet = FALSE]
  /\ UNCHANGED <<site, crawls, pruned, torn>>

\* PruneWebPages: the SELECT, then per page the document and the row.
SelectMissing ==
  {[url |-> u, row |-> pages[u].id, doc |-> pages[u].doc, docDone |-> FALSE] :
     u \in {v \in Rows : pages[v].missing >= Threshold}}

BeginPrune ==
  /\ pruned = {}
  /\ pruned' = SelectMissing
  /\ UNCHANGED <<site, pages, docs, crawl, crawls, edits, torn>>

PruneDocument ==
  \E p \in pruned :
    /\ \A x \in pruned : ~ x.docDone
    /\ IF HasDoc(p.url, p.doc) THEN DeleteDoc(p.url) ELSE UNCHANGED <<docs, pages>>
    /\ pruned' = (pruned \ {p}) \cup {[p EXCEPT !.docDone = TRUE]}
    /\ crawl' = [crawl EXCEPT !.quiet = FALSE]
    /\ UNCHANGED <<site, crawls, edits, torn>>

PruneRow ==
  \E p \in pruned :
    /\ p.docDone
    /\ pages' = IF pages[p.url] # NoPage /\ pages[p.url].id = p.row
                  THEN [pages EXCEPT ![p.url] = NoPage] ELSE pages
    /\ pruned' = pruned \ {p}
    /\ crawl' = [crawl EXCEPT !.quiet = FALSE]
    /\ UNCHANGED <<site, docs, crawls, edits, torn>>

AbortPrune ==
  /\ pruned # {}
  /\ pruned' = {}
  /\ UNCHANGED <<site, pages, docs, crawl, crawls, edits, torn>>

EditSite(u) ==
  /\ edits < MaxEdits /\ edits' = edits + 1
  /\ \E c \in (Contents \cup {Gone}) \ {site[u]} : site' = [site EXCEPT ![u] = c]
  /\ crawl' = [crawl EXCEPT !.clean = FALSE, !.quiet = FALSE]
  /\ UNCHANGED <<pages, docs, crawls, pruned, torn>>

CrawlStep ==
  \/ FetchFails
  \/ NothingStored
  \/ NotModified
  \/ FetchPage
  \/ SaveRow
  \/ EndCrawl

Next ==
  \/ \E refresh \in BOOLEAN : BeginCrawl(refresh)
  \/ CrawlStep
  \/ StopCrawl
  \/ \E u \in Urls : DeleteDocument(u) \/ EditSite(u)
  \/ BeginPrune \/ PruneDocument \/ PruneRow \/ AbortPrune

\* A crawl in progress goes on: every fetch has a timeout.
Spec == Init /\ [][Next]_vars /\ WF_vars(CrawlStep)
-----------------------------------------------------------------------------
(* Properties *)

\* The URLs that live pages link from the seeds, n links away at most.
Within(n) ==
  {u \in Urls : \E k \in 0..n : \E path \in [0..k -> Urls] :
     /\ path[0] \in Elements(Seeds) /\ path[k] = u
     /\ \A i \in 1..k : /\ site[path[i - 1]] # Gone
                         /\ path[i] \in LinksOf[site[path[i - 1]]]}

\* The URLs that a crawl of the site as it now is would reach.
Reachable == Within(MaxDepth)

Live == {u \in Reachable : site[u] # Gone}

\* The pages that this step counts as missing once more.
Missed == {u \in Rows : pages'[u] # NoPage /\ pages'[u].missing > pages[u].missing}

\* The document of u is written and its row is not yet.
BetweenWrites(u) == crawl.on /\ crawl.save # NoSave /\ crawl.save.url = u

(* A row claims the hash that its document holds, so that what is skipped  *)
(* as unchanged on the row's word is what search returns; the only thing   *)
(* that parts them, beside the crawl's own two writes, is a crawl stopped  *)
(* between the two, never a delete or a prune under the crawl.             *)
RowMatchesDocument ==
  \A u \in Rows : pages[u].doc # 0 =>
    /\ HasDoc(u, pages[u].doc)
    /\ docs[u].hash = pages[u].hash \/ BetweenWrites(u) \/ u \in torn

(* A full crawl in which nothing failed never counts a page that the site  *)
(* still links and serves as missing, so that a prune keeps it, whatever   *)
(* earlier crawls, refreshes, prunes and deletes did to the rows; and if   *)
(* nothing was deleted beside it, it leaves a row with the site's current  *)
(* body for each of these pages.                                           *)
FullCrawlFindsLive ==
  [][crawl.clean /\ ~ crawl.refresh =>
       /\ Missed \cap Live = {}
       /\ EndCrawl /\ crawl.quiet =>
            \A u \in Live : /\ pages'[u] # NoPage /\ pages'[u].hash = site[u]
                            /\ pages'[u].missing = 0]_vars

(* The first half, of refresh crawls too: only pages that are missing from *)
(* the site are classified as missing.                                     *)
CrawlSparesLive ==
  [][crawl.clean => Missed \cap Live = {}]_vars

(* A crawl ends: a URL is queued at most once, whatever the site does.     *)
CrawlEnds == crawl.on ~> ~ crawl.on
=============================================================================
