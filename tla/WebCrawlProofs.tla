--------------------------- MODULE WebCrawlProofs ---------------------------
(***************************************************************************)
(* Proofs about WebCrawl, for every site, every set of links and any       *)
(* number of crawls, deletes and prunes: types, that a row claims the hash *)
(* its document has, and that a full crawl finds the live pages.  The last *)
(* rests on the order of the queue: the crawl is breadth-first, so that a  *)
(* page that is fetched at the last depth is linked from no shallower one. *)
(***************************************************************************)
EXTENDS WebCrawl, SequenceTheorems, FiniteSetTheorems, WellFoundedInduction, TLAPS

QueuedUrls == {crawl.queue[i].url : i \in 1..Len(crawl.queue)}

Fetched == crawl.found \ QueuedUrls

Saving == crawl.save # NoSave

\* A row's generation is at most the number of crawls begun.
GensBounded ==
  /\ crawl.gen <= crawls
  /\ \A u \in Urls : /\ pages[u] # NoPage => pages[u].gen <= crawls
                     /\ crawl.prev[u] # NoPage => crawl.prev[u].gen <= crawls
  /\ Saving => crawl.save.row.gen <= crawls

\* A URL is queued once, and found when it is.
QueueShape ==
  /\ \A i, j \in 1..Len(crawl.queue) : crawl.queue[i].url = crawl.queue[j].url => i = j
  /\ QueuedUrls \subseteq crawl.found
  /\ Saving => crawl.on /\ crawl.save.url \in Fetched

\* The document of u, if there is one, is the one that p names, with its hash.
PageMatches(u, p) ==
  p # NoPage /\ p.doc # 0 /\ docs[u] # NoDoc =>
    docs[u].id = p.doc /\ (docs[u].hash = p.hash \/ u \in torn)

\* What the crawl will write matches too.
Matching ==
  /\ RowMatchesDocument
  /\ crawl.on => \A u \in Urls \ Fetched : PageMatches(u, crawl.prev[u])
  /\ Saving => PageMatches(crawl.save.url, crawl.save.row)

\* A full crawl in which nothing failed.
Full == crawl.on /\ crawl.clean /\ ~ crawl.refresh

DepthsSorted ==
  /\ \A i \in 1..Len(crawl.queue) : /\ crawl.queue[i].depth <= MaxDepth
                                    /\ crawl.queue[i].depth <= crawl.queue[1].depth + 1
  /\ \A i, j \in 1..Len(crawl.queue) : i <= j => crawl.queue[i].depth <= crawl.queue[j].depth

\* Breadth first: what is linked as near as the head is found, and what is
\* queued is linked from no nearer page.
Frontier ==
  Full =>
    /\ \A n \in Nat : Len(crawl.queue) > 0 /\ n = crawl.queue[1].depth
                        => Within(n) \subseteq crawl.found
    /\ \A i \in 1..Len(crawl.queue), n \in Nat :
         n < crawl.queue[i].depth => crawl.queue[i].url \notin Within(n)

\* The links of fetched pages are found, but for those of the last depth.
Followed ==
  Full =>
    /\ Elements(Seeds) \subseteq crawl.found
    /\ \A v \in Fetched, n \in Nat :
         n < MaxDepth /\ v \in Within(n) /\ site[v] # Gone
           => LinksOf[site[v]] \subseteq crawl.found

\* The row of u is of this crawl and, without deletes, of the current body.
RowIsFresh(u) ==
  /\ pages[u] # NoPage => pages[u].seenGen = crawl.gen
  /\ crawl.quiet => pages[u] # NoPage /\ pages[u].hash = site[u] /\ pages[u].missing = 0

Recorded ==
  Full =>
    /\ Saving => /\ crawl.save.row.hash = site[crawl.save.url]
                 /\ crawl.save.row.seenGen = crawl.gen /\ crawl.save.row.missing = 0
    /\ \A v \in Fetched : (Saving /\ crawl.save.url = v) \/ RowIsFresh(v)

IInv ==
  /\ TypeOK /\ GensBounded /\ QueueShape /\ Matching
  /\ DepthsSorted /\ Frontier /\ Followed /\ Recorded

\* The crawl takes the next URL and queues links.
Takes(links) ==
  /\ Ready
  /\ links \subseteq Urls /\ links \cap crawl.found = {}
  /\ links # {} => Cur.depth < MaxDepth
  /\ crawl'.found = crawl.found \cup links
  /\ \E order \in Orders(links) :
       crawl'.queue = Tail(crawl.queue) \o Queued(order, Cur.depth + 1)
-----------------------------------------------------------------------------
(* A set of naturals with an upper bound has a greatest element.           *)
LEMMA Greatest ==
  ASSUME NEW S \in SUBSET Nat, S # {}, NEW n \in Nat, \A x \in S : x <= n
  PROVE  \E m \in S : \A x \in S : x <= m
<1> DEFINE Bounds == {k \in Nat : \A x \in S : x <= k}
<1>1. Bounds \subseteq Nat /\ Bounds # {}
  OBVIOUS
<1>2. PICK m \in Bounds : \A k \in Bounds : ~ (<<k, m>> \in OpToRel(<, Nat))
  BY <1>1, NatLessThanWellFounded, WFMin, Zenon
<1>3. \A k \in Bounds : m <= k
  <2>1. SUFFICES ASSUME NEW k \in Bounds, k < m PROVE FALSE
    OBVIOUS
  <2>2. <<k, m>> \in Nat \X Nat /\ <<k, m>>[1] < <<k, m>>[2]
    BY <2>1
  <2>3. <<k, m>> \in OpToRel(<, Nat)
    BY <2>2 DEF OpToRel
  <2> QED
    BY <1>2, <2>1, <2>3
<1>4. m \in S
  <2>1. SUFFICES ASSUME m \notin S PROVE FALSE
    OBVIOUS
  <2>2. PICK x \in S : TRUE
    OBVIOUS
  <2>3. \A y \in S : y < m
    BY <2>1
  <2>4. m - 1 \in Nat /\ \A y \in S : y <= m - 1
    BY <2>2, <2>3
  <2> QED
    BY <1>3, <2>4
<1> QED
  BY <1>4


\* NextCrawlGeneration returns a number, at most one more than the crawls begun.
LEMMA GenerationBounded ==
  ASSUME TypeOK, GensBounded
  PROVE  NextGeneration \in Nat /\ NextGeneration <= crawls + 1
<1> DEFINE gens == {pages[u].gen : u \in Rows}
<1>1. gens \in SUBSET Nat /\ \A g \in gens : g <= crawls
  BY DEF TypeOK, Page, Rows, GensBounded
<1>2. crawls \in Nat
  BY DEF TypeOK
<1>3. NextGeneration = IF gens = {} THEN 1
                       ELSE (CHOOSE g \in gens : \A h \in gens : h <= g) + 1
  BY DEF NextGeneration
<1> HIDE DEF gens
<1>4. CASE gens = {}
  BY <1>2, <1>3, <1>4
<1>5. CASE gens # {}
  <2>1. \E g \in gens : \A h \in gens : h <= g
    BY <1>1, <1>2, <1>5, Greatest
  <2>2. (CHOOSE g \in gens : \A h \in gens : h <= g) \in gens
    BY <2>1
  <2> DEFINE m == CHOOSE g \in gens : \A h \in gens : h <= g
  <2>3. m \in gens /\ NextGeneration = m + 1
    BY <1>3, <1>5, <2>2
  <2> HIDE DEF m
  <2> QED BY <1>1, <1>2, <2>3
<1> QED BY <1>4, <1>5

-----------------------------------------------------------------------------
(* The queue.                                                              *)

LEMMA OrderIsSequence ==
  ASSUME NEW links \in SUBSET Urls, NEW order \in Orders(links), NEW d \in Nat
  PROVE  /\ order \in Seq(links) /\ Queued(order, d) \in Seq(Item)
         /\ Len(Queued(order, d)) = Len(order)
         /\ \A i \in 1..Len(order) : Queued(order, d)[i] = [url |-> order[i], depth |-> d]
         /\ \A i, j \in 1..Len(order) : order[i] = order[j] => i = j
         /\ \A u \in links : \E i \in 1..Len(order) : order[i] = u
<1>1. IsFiniteSet(links)
  BY CrawlAssumption, FS_Subset
<1>2. Cardinality(links) \in Nat
  BY <1>1, FS_CardinalityType
<1>3. /\ order \in [1..Cardinality(links) -> links]
      /\ \A i, j \in 1..Cardinality(links) : order[i] = order[j] => i = j
      /\ \A u \in links : \E i \in 1..Cardinality(links) : order[i] = u
  BY DEF Orders, Bijection, Injection, Surjection, IsInjective
<1>4. order \in Seq(links)
  BY <1>2, <1>3, IsASeq
<1>5. Len(order) \in Nat /\ order \in [1..Len(order) -> links]
  BY <1>4, LenProperties
<1>6. \A i \in 1..Len(order) : [url |-> order[i], depth |-> d] \in Item
  BY <1>5 DEF Item
<1>7. Queued(order, d) \in [1..Len(order) -> Item]
  BY <1>6 DEF Queued
<1>8. Queued(order, d) \in Seq(Item)
  BY <1>5, <1>7, IsASeq
<1>9. Len(Queued(order, d)) = Len(order)
  BY <1>5, <1>7, <1>8, LenProperties
<1>10. Len(order) = Cardinality(links)
  BY <1>2, <1>3, <1>4, LenProperties
<1> QED BY <1>3, <1>4, <1>8, <1>9, <1>10 DEF Queued

\* Every element of the next queue was in the queue or is a link.
LEMMA NextQueue ==
  ASSUME TypeOK, NEW links, Takes(links)
  PROVE  /\ crawl'.queue \in Seq(Item) /\ crawl.queue \in Seq(Item)
         /\ Len(crawl.queue) \in Nat \ {0} /\ Cur = crawl.queue[1]
         /\ Len(crawl'.queue) \in Nat /\ Len(crawl'.queue) >= Len(crawl.queue) - 1
         /\ \A i \in 1..Len(crawl.queue) - 1 : crawl'.queue[i] = crawl.queue[i + 1]
         /\ \A i \in Len(crawl.queue)..Len(crawl'.queue) :
              crawl'.queue[i].url \in links /\ crawl'.queue[i].depth = Cur.depth + 1
         /\ \A i, j \in Len(crawl.queue)..Len(crawl'.queue) :
              crawl'.queue[i].url = crawl'.queue[j].url => i = j
         /\ \A u \in links : \E i \in Len(crawl.queue)..Len(crawl'.queue) :
              crawl'.queue[i].url = u
<1>1. crawl.queue \in Seq(Item) /\ crawl.queue # <<>> /\ links \in SUBSET Urls
  BY DEF TypeOK, Crawl, Takes, Ready
<1> DEFINE q == crawl.queue
           t == Tail(crawl.queue)
<1>2. /\ Head(q) \in Item /\ t \in Seq(Item) /\ Len(t) = Len(q) - 1
      /\ \A i \in 1..Len(t) : t[i] = q[i + 1]
      /\ Len(q) \in Nat \ {0} /\ Head(q) = q[1]
  BY <1>1, HeadTailProperties, LenProperties, EmptySeq
<1>3. PICK order \in Orders(links) : crawl'.queue = t \o Queued(order, Cur.depth + 1)
  BY DEF Takes
<1>4. Cur = Head(q) /\ Cur.depth + 1 \in Nat
  BY <1>2 DEF Cur, Item
<1> DEFINE n == Queued(order, Cur.depth + 1)
<1>5. /\ order \in Seq(links) /\ n \in Seq(Item) /\ Len(n) = Len(order)
      /\ \A i \in 1..Len(order) : n[i] = [url |-> order[i], depth |-> Cur.depth + 1]
      /\ \A i, j \in 1..Len(order) : order[i] = order[j] => i = j
      /\ \A u \in links : \E i \in 1..Len(order) : order[i] = u
  BY <1>1, <1>3, <1>4, OrderIsSequence
<1>6. Len(order) \in Nat /\ \A i \in 1..Len(order) : order[i] \in links
  BY <1>5, LenProperties, ElementOfSeq
<1> HIDE DEF t, n, q
<1>7. /\ t \o n \in Seq(Item) /\ Len(t \o n) = Len(t) + Len(n)
      /\ \A i \in 1..Len(t) + Len(n) :
           (t \o n)[i] = IF i <= Len(t) THEN t[i] ELSE n[i - Len(t)]
  BY <1>2, <1>5, ConcatProperties
<1> DEFINE c == t \o n
<1>8. crawl'.queue = c /\ Len(c) = Len(q) - 1 + Len(order)
  BY <1>2, <1>3, <1>5, <1>7 DEF n
<1>9. \A i \in 1..Len(q) - 1 : c[i] = q[i + 1]
  BY <1>2, <1>5, <1>6, <1>7
<1>10. \A i \in Len(q)..Len(c) : /\ i - (Len(q) - 1) \in 1..Len(order)
                                 /\ c[i] = n[i - (Len(q) - 1)]
  BY <1>2, <1>5, <1>6, <1>7, <1>8
<1>11. \A i \in Len(q)..Len(c) :
         /\ c[i].url = order[i - (Len(q) - 1)] /\ c[i].depth = Cur.depth + 1
         /\ c[i].url \in links
  <2> SUFFICES ASSUME NEW i \in Len(q)..Len(c)
               PROVE  /\ c[i].url = order[i - (Len(q) - 1)] /\ c[i].depth = Cur.depth + 1
                      /\ c[i].url \in links
    OBVIOUS
  <2>1. PICK k \in 1..Len(order) : k = i - (Len(q) - 1)
    BY <1>10
  <2>2. c[i] = [url |-> order[k], depth |-> Cur.depth + 1] /\ order[k] \in links
    BY <1>5, <1>6, <1>10, <2>1
  <2> QED BY <2>1, <2>2
<1>12. \A i, j \in Len(q)..Len(c) : c[i].url = c[j].url => i = j
  <2> SUFFICES ASSUME NEW i \in Len(q)..Len(c), NEW j \in Len(q)..Len(c),
                      c[i].url = c[j].url
               PROVE  i = j
    OBVIOUS
  <2>1. order[i - (Len(q) - 1)] = order[j - (Len(q) - 1)]
    BY <1>11
  <2>2. i - (Len(q) - 1) = j - (Len(q) - 1)
    BY <1>5, <1>10, <2>1
  <2> QED BY <1>2, <2>2
<1>13. c \in Seq(Item) /\ Len(c) \in Nat /\ Len(c) >= Len(q) - 1
  BY <1>2, <1>6, <1>7, <1>8
<1>14. ASSUME NEW u \in links PROVE \E i \in Len(q)..Len(c) : c[i].url = u
  <2>1. PICK k \in 1..Len(order) : order[k] = u
    BY <1>5
  <2>2. k + (Len(q) - 1) \in Len(q)..Len(c) /\ (k + (Len(q) - 1)) - (Len(q) - 1) = k
    BY <1>2, <1>6, <1>8
  <2> QED BY <1>11, <2>1, <2>2
<1> HIDE DEF c
<1> QED BY <1>1, <1>2, <1>4, <1>8, <1>9, <1>11, <1>12, <1>13, <1>14 DEF q

LEMMA NoLinks ==
  ASSUME NEW d \in Nat
  PROVE  \E order \in Orders({}) : Queued(order, d) = <<>>
<1>1. <<>> \in Seq({}) /\ Len(<<>>) = 0
  OBVIOUS
<1>2. <<>> \in [1..0 -> {}]
  BY <1>1, LenProperties
<1>3. <<>> \in Orders({})
  BY <1>2, FS_EmptySet DEF Orders, Bijection, Injection, Surjection, IsInjective
<1>4. Queued(<<>>, d) \in Seq(Item) /\ Len(Queued(<<>>, d)) = 0
  BY <1>1, <1>3, OrderIsSequence
<1>5. Queued(<<>>, d) = <<>>
  BY <1>4, EmptySeq
<1> QED BY <1>3, <1>5

\* A step that only takes the next URL.
LEMMA Pops ==
  ASSUME TypeOK, Ready, crawl'.queue = Tail(crawl.queue), crawl'.found = crawl.found
  PROVE  Takes({})
<1>1. crawl.queue \in Seq(Item) /\ crawl.queue # <<>>
  BY DEF TypeOK, Crawl, Ready
<1>2. Tail(crawl.queue) \in Seq(Item) /\ Cur \in Item
  BY <1>1, HeadTailProperties DEF Cur
<1>3. Cur.depth + 1 \in Nat
  BY <1>2 DEF Item
<1>4. PICK order \in Orders({}) : Queued(order, Cur.depth + 1) = <<>>
  BY <1>3, NoLinks
<1>5. Tail(crawl.queue) \o <<>> = Tail(crawl.queue)
  BY <1>2, ConcatEmptySeq
<1> QED BY <1>4, <1>5 DEF Takes

LEMMA ReadyTypes ==
  ASSUME TypeOK, Ready
  PROVE  /\ Cur \in Item /\ Cur.url \in Urls /\ Cur.depth \in Nat
         /\ crawl.gen \in Nat /\ crawl.save = NoSave /\ crawl.on
         /\ crawl.prev[Cur.url] \in Page \cup {NoPage}
         /\ site[Cur.url] \in Contents \cup {Gone}
         /\ docs[Cur.url] \in Doc \cup {NoDoc}
<1>1. crawl.queue \in Seq(Item) /\ crawl.queue # <<>>
  BY DEF TypeOK, Crawl, Ready
<1>2. Cur \in Item
  BY <1>1, HeadTailProperties DEF Cur
<1> QED BY <1>2 DEF TypeOK, Crawl, Item, Ready

\* What each kind of fetch takes and what it leaves to be saved.
LEMMA FailedFetch ==
  ASSUME TypeOK, FetchFails
  PROVE  /\ Takes({}) /\ crawl' \in Crawl /\ crawl'.save # NoSave
         /\ crawl'.on /\ crawl'.gen = crawl.gen /\ crawl'.prev = crawl.prev
         /\ crawl'.save.url = Cur.url /\ ~ crawl'.clean
         /\ \/ crawl.prev[Cur.url] = NoPage /\ crawl'.save.row.doc = 0
            \/ /\ crawl.prev[Cur.url] # NoPage
               /\ crawl'.save.row.doc = crawl.prev[Cur.url].doc
               /\ crawl'.save.row.hash = crawl.prev[Cur.url].hash
         /\ crawl'.save.row.gen = crawl.gen
<1> DEFINE p == crawl.prev[Cur.url]
           r == IF p = NoPage
                  THEN [id |-> 0, doc |-> 0, hash |-> None, etag |-> None,
                        gen |-> crawl.gen, seenGen |-> crawl.gen, missing |-> 0]
                  ELSE [p EXCEPT !.gen = crawl.gen, !.seenGen = crawl.gen]
<1>1. Ready
  BY DEF FetchFails
<1>2. Tail(crawl.queue) \in Seq(Item) /\ crawl \in Crawl
  BY <1>1, HeadTailProperties DEF TypeOK, Crawl, Ready
<1>3. r \in Page
  BY <1>1, ReadyTypes DEF Page, Body
<1>4. /\ r.gen = crawl.gen
      /\ p = NoPage => r.doc = 0
      /\ p # NoPage => r.doc = p.doc /\ r.hash = p.hash
  BY <1>1, ReadyTypes DEF Page
<1>5. crawl' = [crawl EXCEPT !.queue = Tail(@), !.clean = FALSE,
                             !.save = [url |-> Cur.url, row |-> r]]
  BY DEF FetchFails
<1> HIDE DEF r, p
<1>6. [url |-> Cur.url, row |-> r] \in Save
  BY <1>1, <1>3, ReadyTypes DEF Save
<1>7. /\ crawl'.queue = Tail(crawl.queue) /\ crawl'.found = crawl.found
      /\ crawl'.save = [url |-> Cur.url, row |-> r] /\ ~ crawl'.clean
      /\ crawl'.on = crawl.on /\ crawl'.gen = crawl.gen /\ crawl'.prev = crawl.prev
  BY <1>2, <1>5 DEF Crawl
<1>8. crawl' \in Crawl
  BY <1>2, <1>5, <1>6 DEF Crawl
<1>9. Takes({})
  BY <1>1, <1>7, Pops
<1>10. crawl'.save # NoSave
  BY <1>6, <1>7, CrawlAssumption
<1>11. crawl'.on
  BY <1>1, <1>7 DEF Ready
<1> QED BY <1>4, <1>7, <1>8, <1>9, <1>10, <1>11 DEF p

LEMMA EmptyFetch ==
  ASSUME TypeOK, NothingStored
  PROVE  /\ Takes({}) /\ crawl' \in Crawl /\ crawl'.save = NoSave
         /\ crawl'.on /\ crawl'.gen = crawl.gen /\ crawl'.prev = crawl.prev /\ ~ crawl'.clean
<1>1. Ready
  BY DEF NothingStored
<1>2. Tail(crawl.queue) \in Seq(Item) /\ crawl \in Crawl
  BY <1>1, HeadTailProperties DEF TypeOK, Crawl, Ready
<1>3. crawl' = [crawl EXCEPT !.queue = Tail(@), !.clean = FALSE]
  BY DEF NothingStored
<1>4. crawl' \in Crawl /\ crawl'.queue = Tail(crawl.queue) /\ crawl'.found = crawl.found
  BY <1>2, <1>3 DEF Crawl
<1> QED BY <1>1, <1>2, <1>3, <1>4, Pops DEF Crawl, Ready

LEMMA UnmodifiedFetch ==
  ASSUME TypeOK, NotModified
  PROVE  /\ Takes({}) /\ crawl' \in Crawl /\ crawl'.save # NoSave
         /\ crawl'.on /\ crawl'.gen = crawl.gen /\ crawl'.prev = crawl.prev
         /\ crawl'.refresh /\ crawl'.save.url = Cur.url
         /\ crawl.prev[Cur.url] # NoPage
         /\ crawl'.save.row.doc = crawl.prev[Cur.url].doc
         /\ crawl'.save.row.hash = crawl.prev[Cur.url].hash
         /\ crawl'.save.row.gen = crawl.prev[Cur.url].gen
<1> DEFINE p == crawl.prev[Cur.url]
           r == [p EXCEPT !.seenGen = crawl.gen]
<1>1. Ready /\ crawl.refresh /\ p # NoPage
  BY DEF NotModified
<1>2. Tail(crawl.queue) \in Seq(Item) /\ crawl \in Crawl
  BY <1>1, HeadTailProperties DEF TypeOK, Crawl, Ready
<1>3. r \in Page /\ r.gen = p.gen /\ r.doc = p.doc /\ r.hash = p.hash
  BY <1>1, ReadyTypes DEF Page
<1>4. crawl' = [crawl EXCEPT !.queue = Tail(@), !.save = [url |-> Cur.url, row |-> r]]
  BY DEF NotModified
<1> HIDE DEF r
<1>5. [url |-> Cur.url, row |-> r] \in Save
  BY <1>1, <1>3, ReadyTypes DEF Save
<1>6. /\ crawl'.queue = Tail(crawl.queue) /\ crawl'.found = crawl.found
      /\ crawl'.save = [url |-> Cur.url, row |-> r] /\ crawl'.refresh = crawl.refresh
      /\ crawl'.on = crawl.on /\ crawl'.gen = crawl.gen /\ crawl'.prev = crawl.prev
  BY <1>2, <1>4 DEF Crawl
<1>7. crawl' \in Crawl
  BY <1>2, <1>4, <1>5 DEF Crawl
<1>8. Takes({})
  BY <1>1, <1>6, Pops
<1>9. crawl'.save # NoSave
  BY <1>5, <1>6, CrawlAssumption
<1> QED BY <1>1, <1>3, <1>6, <1>7, <1>8, <1>9 DEF Ready

\* UpsertDocument keeps or makes the document's id, and stores the body.
LEMMA StoredDocument ==
  ASSUME TypeOK, NEW u \in Urls, NEW body \in Contents
  PROVE  /\ Stored(u, body) \in [Urls -> Doc \cup {NoDoc}]
         /\ \A v \in Urls \ {u} : Stored(u, body)[v] = docs[v]
         /\ docs[u] # NoDoc => Stored(u, body)[u] # NoDoc /\ Stored(u, body)[u].id = docs[u].id
         /\ (crawl.prev[u] # NoPage /\ crawl.prev[u].hash = body) => Stored(u, body) = docs
         /\ ~ (crawl.prev[u] # NoPage /\ crawl.prev[u].hash = body) =>
              Stored(u, body)[u] \in Doc /\ Stored(u, body)[u].hash = body
<1>1. docs \in [Urls -> Doc \cup {NoDoc}] /\ crawls \in Nat
  BY DEF TypeOK
<1>2. CASE crawl.prev[u] # NoPage /\ crawl.prev[u].hash = body
  BY <1>1, <1>2 DEF Stored
<1>3. CASE ~ (crawl.prev[u] # NoPage /\ crawl.prev[u].hash = body) /\ docs[u] = NoDoc
  <2>1. Stored(u, body) = [docs EXCEPT ![u] = [id |-> crawls, hash |-> body]]
    BY <1>3 DEF Stored
  <2>2. [id |-> crawls, hash |-> body] \in Doc
    BY <1>1 DEF Doc
  <2> QED BY <1>1, <1>3, <2>1, <2>2
<1>4. CASE ~ (crawl.prev[u] # NoPage /\ crawl.prev[u].hash = body) /\ docs[u] # NoDoc
  <2>1. Stored(u, body) = [docs EXCEPT ![u].hash = body]
    BY <1>4 DEF Stored
  <2>2. docs[u] \in Doc
    BY <1>1, <1>4
  <2>3. [docs[u] EXCEPT !.hash = body] \in Doc
    BY <2>2 DEF Doc
  <2>4. [docs[u] EXCEPT !.hash = body].id = docs[u].id
        /\ [docs[u] EXCEPT !.hash = body].hash = body
    BY <2>2 DEF Doc
  <2>5. Stored(u, body) = [docs EXCEPT ![u] = [docs[u] EXCEPT !.hash = body]]
    BY <2>1
  <2> HIDE <2>1
  <2>6. Stored(u, body)[u] = [docs[u] EXCEPT !.hash = body]
    BY <1>1, <2>5
  <2>7. Stored(u, body)[u] # NoDoc
    BY <2>3, <2>6, CrawlAssumption
  <2>8. Stored(u, body) \in [Urls -> Doc \cup {NoDoc}]
    BY <1>1, <2>3, <2>5
  <2>9. \A v \in Urls \ {u} : Stored(u, body)[v] = docs[v]
    BY <1>1, <2>5
  <2> QED BY <1>4, <2>3, <2>4, <2>6, <2>7, <2>8, <2>9
<1> QED BY <1>2, <1>3, <1>4

LEMMA PageFetch ==
  ASSUME TypeOK, FetchPage
  PROVE  LET body == site[Cur.url]
             same == crawl.prev[Cur.url] # NoPage /\ crawl.prev[Cur.url].hash = body
         IN  /\ Takes(NewLinks(Cur.url, Cur.depth, body)) /\ crawl' \in Crawl
             /\ crawl'.save # NoSave /\ crawl'.on /\ crawl'.gen = crawl.gen
             /\ crawl'.prev = crawl.prev /\ crawl'.clean = crawl.clean
             /\ crawl'.refresh = crawl.refresh /\ crawl'.quiet = crawl.quiet
             /\ crawl'.save.url = Cur.url /\ crawl'.save.row.hash = body
             /\ crawl'.save.row.gen = crawl.gen /\ crawl'.save.row.seenGen = crawl.gen
             /\ crawl'.save.row.missing = 0
             /\ crawl'.save.row.doc = IF same THEN crawl.prev[Cur.url].doc ELSE docs'[Cur.url].id
             /\ docs' = Stored(Cur.url, body) /\ body \in Contents
<1> DEFINE u == Cur.url
           body == site[u]
           same == crawl.prev[u] # NoPage /\ crawl.prev[u].hash = body
           links == NewLinks(u, Cur.depth, body)
           row == [id |-> 0, doc |-> IF same THEN crawl.prev[u].doc ELSE docs'[u].id,
                   hash |-> body, etag |-> IF body \in Tagged THEN body ELSE None,
                   gen |-> crawl.gen, seenGen |-> crawl.gen, missing |-> 0]
<1>1. Ready /\ body \in Contents /\ docs' = Stored(u, body)
  BY ReadyTypes DEF FetchPage
<1>2. Tail(crawl.queue) \in Seq(Item) /\ crawl \in Crawl
  BY <1>1, HeadTailProperties DEF TypeOK, Crawl, Ready
<1>3. PICK order \in Orders(links) :
        crawl' = [crawl EXCEPT !.queue = Tail(@) \o Queued(order, Cur.depth + 1),
                               !.found = @ \cup links,
                               !.save = [url |-> u, row |-> row]]
  BY DEF FetchPage
<1>4. (IF same THEN crawl.prev[u].doc ELSE docs'[u].id) \in Nat
  <2>1. CASE same
    BY <1>1, <2>1, ReadyTypes DEF Page
  <2>2. CASE ~ same
    <3>1. docs'[u] \in Doc
      BY <1>1, <2>2, ReadyTypes, StoredDocument
    <3> QED BY <2>2, <3>1 DEF Doc
  <2> QED BY <2>1, <2>2
<1> DEFINE d == IF same THEN crawl.prev[u].doc ELSE docs'[u].id
           e == IF body \in Tagged THEN body ELSE None
<1>5. e \in Body /\ body \in Body
  BY <1>1 DEF Body
<1> HIDE DEF d, e
<1>6. row = [id |-> 0, doc |-> d, hash |-> body, etag |-> e,
             gen |-> crawl.gen, seenGen |-> crawl.gen, missing |-> 0]
  BY DEF d, e
<1>7. d \in Nat
  BY <1>4 DEF d
<1>8. /\ row \in Page /\ row.doc = d /\ row.hash = body /\ row.gen = crawl.gen
      /\ row.seenGen = crawl.gen /\ row.missing = 0
  BY <1>1, <1>5, <1>6, <1>7, ReadyTypes DEF Page
<1> HIDE DEF row
<1>9. [url |-> u, row |-> row] \in Save
  BY <1>1, <1>8, ReadyTypes DEF Save
<1>10. links \subseteq Urls /\ links \cap crawl.found = {} /\ (links # {} => Cur.depth < MaxDepth)
  BY <1>1, CrawlAssumption DEF NewLinks
<1>11. Queued(order, Cur.depth + 1) \in Seq(Item)
  BY <1>1, <1>3, <1>10, ReadyTypes, OrderIsSequence
<1> HIDE DEF links
<1>12. Tail(crawl.queue) \o Queued(order, Cur.depth + 1) \in Seq(Item)
  BY <1>2, <1>11, ConcatProperties
<1>13. crawl' \in Crawl
  BY <1>2, <1>3, <1>9, <1>10, <1>12 DEF Crawl
<1>14. /\ crawl'.queue = Tail(crawl.queue) \o Queued(order, Cur.depth + 1)
       /\ crawl'.found = crawl.found \cup links /\ crawl'.save = [url |-> u, row |-> row]
       /\ crawl'.on = crawl.on /\ crawl'.gen = crawl.gen /\ crawl'.prev = crawl.prev
       /\ crawl'.clean = crawl.clean /\ crawl'.refresh = crawl.refresh
       /\ crawl'.quiet = crawl.quiet
  BY <1>2, <1>3 DEF Crawl
<1>15. Takes(links)
  BY <1>1, <1>3, <1>10, <1>14 DEF Takes
<1>16. crawl'.save # NoSave /\ crawl'.on
  BY <1>1, <1>9, <1>14, CrawlAssumption DEF Ready
<1> QED BY <1>1, <1>8, <1>13, <1>14, <1>15, <1>16 DEF links, d

-----------------------------------------------------------------------------
(* Types, generations and the shape of the queue.                          *)

LEMMA OffIsCrawl ==
  /\ Off \in Crawl /\ Off.queue = <<>> /\ Off.found = {} /\ Off.save = NoSave /\ ~ Off.on
  /\ Off.gen = 0 /\ \A u \in Urls : Off.prev[u] = NoPage
BY DEF Off, Crawl

\* The queue of a new crawl: the seeds, at depth 0.
LEMMA SeedsQueued ==
  /\ Queued(Seeds, 0) \in Seq(Item) /\ Len(Queued(Seeds, 0)) = Len(Seeds) /\ Len(Seeds) \in Nat
  /\ \A i \in 1..Len(Seeds) : /\ Queued(Seeds, 0)[i].url = Seeds[i] /\ Seeds[i] \in Urls
                              /\ Queued(Seeds, 0)[i].depth = 0
  /\ \A i, j \in 1..Len(Seeds) : Seeds[i] = Seeds[j] => i = j
  /\ Elements(Seeds) \subseteq Urls
  /\ Elements(Seeds) = {Queued(Seeds, 0)[i].url : i \in 1..Len(Queued(Seeds, 0))}
<1>1. Seeds \in Seq(Urls) /\ \A i, j \in 1..Len(Seeds) : Seeds[i] = Seeds[j] => i = j
  BY CrawlAssumption
<1>2. Len(Seeds) \in Nat /\ \A i \in 1..Len(Seeds) : Seeds[i] \in Urls
  BY <1>1, LenProperties, ElementOfSeq
<1>3. \A i \in 1..Len(Seeds) : [url |-> Seeds[i], depth |-> 0] \in Item
  BY <1>2 DEF Item
<1>4. Queued(Seeds, 0) \in [1..Len(Seeds) -> Item]
  BY <1>3 DEF Queued
<1>5. Queued(Seeds, 0) \in Seq(Item)
  BY <1>2, <1>4, IsASeq
<1>6. Len(Queued(Seeds, 0)) = Len(Seeds)
  BY <1>2, <1>4, <1>5, LenProperties
<1>7. \A i \in 1..Len(Seeds) : Queued(Seeds, 0)[i] = [url |-> Seeds[i], depth |-> 0]
  BY DEF Queued
<1>8. \A i \in 1..Len(Seeds) : /\ Queued(Seeds, 0)[i].url = Seeds[i]
                               /\ Queued(Seeds, 0)[i].depth = 0
  <2> SUFFICES ASSUME NEW i \in 1..Len(Seeds)
               PROVE  /\ Queued(Seeds, 0)[i].url = Seeds[i]
                      /\ Queued(Seeds, 0)[i].depth = 0
    OBVIOUS
  <2>1. Queued(Seeds, 0)[i] = [url |-> Seeds[i], depth |-> 0]
    BY <1>7
  <2> QED BY <2>1
<1> QED BY <1>1, <1>2, <1>5, <1>6, <1>8 DEF Elements

LEMMA CrawlBegins ==
  ASSUME TypeOK, GensBounded, NEW refresh \in BOOLEAN, BeginCrawl(refresh)
  PROVE  /\ crawl' \in Crawl /\ crawl'.on /\ crawl'.gen \in Nat /\ crawl'.gen <= crawls'
         /\ crawl'.queue = Queued(Seeds, 0) /\ crawl'.found = Elements(Seeds)
         /\ crawl'.prev = pages /\ crawl'.save = NoSave
         /\ QueuedUrls' = Elements(Seeds)
         /\ crawls' \in Nat /\ crawls' = crawls + 1 /\ ~ crawl.on
<1>1. NextGeneration \in Nat /\ NextGeneration <= crawls + 1
  BY GenerationBounded
<1>2. crawl' = [on |-> TRUE, refresh |-> refresh, gen |-> NextGeneration,
               queue |-> Queued(Seeds, 0), found |-> Elements(Seeds),
               prev |-> pages, save |-> NoSave, clean |-> TRUE, quiet |-> TRUE]
      /\ crawls' = crawls + 1 /\ ~ crawl.on
  BY DEF BeginCrawl
<1>3. pages \in [Urls -> Page \cup {NoPage}] /\ crawls \in Nat
  BY DEF TypeOK
<1> DEFINE q == Queued(Seeds, 0)
           f == Elements(Seeds)
           g == NextGeneration
<1>4. q \in Seq(Item) /\ f \subseteq Urls /\ f = {q[i].url : i \in 1..Len(q)} /\ g \in Nat
  BY <1>1, SeedsQueued
<1> HIDE DEF q, f, g
<1>5. crawl' = [on |-> TRUE, refresh |-> refresh, gen |-> g, queue |-> q, found |-> f,
                prev |-> pages, save |-> NoSave, clean |-> TRUE, quiet |-> TRUE]
  BY <1>2 DEF q, f, g
<1>6. crawl' \in Crawl
  BY <1>3, <1>4, <1>5 DEF Crawl
<1>7. /\ crawl'.on /\ crawl'.gen = g /\ crawl'.queue = q /\ crawl'.found = f
      /\ crawl'.prev = pages /\ crawl'.save = NoSave
  BY <1>5
<1>8. QueuedUrls' = f
  BY <1>4, <1>7 DEF QueuedUrls
<1> QED BY <1>1, <1>2, <1>3, <1>6, <1>7, <1>8 DEF q, f, g

\* The row that SaveRow writes.
LEMMA RowSaved ==
  ASSUME TypeOK, SaveRow
  PROVE  LET u == crawl.save.url
             row == crawl.save.row
             ok == row.doc = 0 \/ HasDoc(u, row.doc)
         IN  /\ u \in Urls /\ row \in Page /\ crawl.save \in Save
             /\ crawl' \in Crawl /\ crawl'.save = NoSave
             /\ crawl'.on /\ crawl.on /\ crawl'.gen = crawl.gen /\ crawl'.prev = crawl.prev
             /\ crawl'.queue = crawl.queue /\ crawl'.found = crawl.found
             /\ crawl'.refresh = crawl.refresh /\ crawl'.quiet = crawl.quiet
             /\ crawl'.clean = (crawl.clean /\ ok)
             /\ pages' \in [Urls -> Page \cup {NoPage}]
             /\ \A v \in Urls \ {u} : pages'[v] = pages[v]
             /\ ~ ok => pages' = pages
             /\ ok => /\ pages'[u] # NoPage /\ pages'[u].doc = row.doc
                      /\ pages'[u].hash = row.hash /\ pages'[u].gen = row.gen
                      /\ pages'[u].seenGen = row.seenGen /\ pages'[u].missing = row.missing
<1> DEFINE u == crawl.save.url
           row == crawl.save.row
           ok == row.doc = 0 \/ HasDoc(u, row.doc)
           n == IF pages[u] = NoPage THEN crawls ELSE pages[u].id
           new == [row EXCEPT !.id = n]
<1>1. crawl \in Crawl /\ crawl.save # NoSave /\ crawl.save \in Save /\ crawl.on
  BY DEF TypeOK, Crawl, SaveRow
<1>2. u \in Urls /\ row \in Page
  BY <1>1 DEF Save
<1>3. pages \in [Urls -> Page \cup {NoPage}] /\ crawls \in Nat
  BY DEF TypeOK
<1>4. n \in Nat
  BY <1>2, <1>3 DEF Page
<1>5. pages' = IF ok THEN [pages EXCEPT ![u] = new] ELSE pages
  BY DEF SaveRow
<1>6. crawl' = [crawl EXCEPT !.save = NoSave, !.clean = @ /\ ok]
  BY DEF SaveRow
<1>7. ok \in BOOLEAN
  OBVIOUS
<1> HIDE DEF ok, n, row
<1>8. new \in Page /\ new.doc = row.doc /\ new.hash = row.hash /\ new.gen = row.gen
      /\ new.seenGen = row.seenGen /\ new.missing = row.missing
  BY <1>2, <1>4 DEF Page
<1>9. new # NoPage
  BY <1>8, CrawlAssumption
<1> HIDE DEF new
<1>10. (crawl.clean /\ ok) \in BOOLEAN
  BY <1>1, <1>7
<1>11. crawl' \in Crawl
  BY <1>1, <1>6, <1>10 DEF Crawl
<1>12. /\ crawl'.save = NoSave /\ crawl'.on /\ crawl'.gen = crawl.gen
       /\ crawl'.prev = crawl.prev /\ crawl'.queue = crawl.queue
       /\ crawl'.found = crawl.found /\ crawl'.refresh = crawl.refresh
       /\ crawl'.quiet = crawl.quiet
  BY <1>1, <1>6 DEF Crawl
<1>13. crawl'.clean = (crawl.clean /\ ok)
  BY <1>1, <1>6, <1>10 DEF Crawl
<1>14. /\ pages' \in [Urls -> Page \cup {NoPage}]
       /\ \A v \in Urls \ {u} : pages'[v] = pages[v]
       /\ ok => pages'[u] = new
  BY <1>2, <1>3, <1>5, <1>8
<1> QED BY <1>1, <1>2, <1>5, <1>8, <1>9, <1>11, <1>12, <1>13, <1>14 DEF ok, row

LEMMA DocumentDeleted ==
  ASSUME TypeOK, NEW u \in Urls, DeleteDoc(u)
  PROVE  /\ docs' \in [Urls -> Doc \cup {NoDoc}] /\ pages' \in [Urls -> Page \cup {NoPage}]
         /\ docs'[u] = NoDoc
         /\ \A v \in Urls \ {u} : docs'[v] = docs[v] /\ pages'[v] = pages[v]
         /\ pages[u] = NoPage <=> pages'[u] = NoPage
         /\ pages[u] # NoPage => /\ pages'[u].doc = 0 /\ pages'[u].gen = pages[u].gen
                                 /\ pages'[u].missing = pages[u].missing
                                 /\ pages'[u].seenGen = pages[u].seenGen
                                 /\ pages'[u].hash = pages[u].hash
<1>1. docs \in [Urls -> Doc \cup {NoDoc}] /\ pages \in [Urls -> Page \cup {NoPage}]
  BY DEF TypeOK
<1>2. docs' = [docs EXCEPT ![u] = NoDoc]
  BY DEF DeleteDoc
<1>3. CASE pages[u] = NoPage
  BY <1>1, <1>2, <1>3 DEF DeleteDoc
<1>4. CASE pages[u] # NoPage
  <2> DEFINE new == [pages[u] EXCEPT !.doc = 0]
  <2>1. pages[u] \in Page
    BY <1>1, <1>4
  <2>2. /\ new \in Page /\ new.doc = 0 /\ new.gen = pages[u].gen
        /\ new.missing = pages[u].missing /\ new.seenGen = pages[u].seenGen
        /\ new.hash = pages[u].hash
    BY <2>1 DEF Page
  <2>3. pages' = [pages EXCEPT ![u] = new]
    BY <1>4 DEF DeleteDoc
  <2> HIDE DEF new
  <2>4. new # NoPage
    BY <2>2, CrawlAssumption
  <2>5. pages'[u] = new /\ \A v \in Urls \ {u} : pages'[v] = pages[v]
    BY <1>1, <2>3
  <2>6. pages' \in [Urls -> Page \cup {NoPage}]
    BY <1>1, <2>2, <2>3
  <2> QED BY <1>1, <1>2, <1>4, <2>2, <2>4, <2>5, <2>6
<1> QED BY <1>3, <1>4

\* MarkMissingWebPages counts, and touches nothing else.
LEMMA MissingCounted ==
  ASSUME TypeOK, EndCrawl
  PROVE  /\ pages' \in [Urls -> Page \cup {NoPage}]
         /\ \A u \in Urls :
              /\ pages[u] = NoPage <=> pages'[u] = NoPage
              /\ pages[u] # NoPage => /\ pages'[u].doc = pages[u].doc
                                      /\ pages'[u].hash = pages[u].hash
                                      /\ pages'[u].gen = pages[u].gen
              /\ pages[u] = NoPage \/ ~ (pages[u].seenGen < crawl.gen) => pages'[u] = pages[u]
<1>1. pages \in [Urls -> Page \cup {NoPage}]
  BY DEF TypeOK
<1>2. ASSUME NEW p \in Page
      PROVE  LET new == [p EXCEPT !.missing = @ + 1]
             IN  /\ new \in Page /\ new.doc = p.doc /\ new.hash = p.hash /\ new.gen = p.gen
                 /\ new # NoPage
  <2>1. [p EXCEPT !.missing = @ + 1] \in Page
    BY DEF Page
  <2>2. [p EXCEPT !.missing = @ + 1] # NoPage
    BY <2>1, CrawlAssumption
  <2> QED BY <2>1, <2>2 DEF Page
<1> DEFINE new(u) == [pages[u] EXCEPT !.missing = @ + 1]
           late(u) == pages[u] # NoPage /\ pages[u].seenGen < crawl.gen
<1>3. pages' = [u \in Urls |-> IF late(u) THEN new(u) ELSE pages[u]]
  BY DEF EndCrawl
<1>4. \A u \in Urls : late(u) =>
        /\ new(u) \in Page /\ new(u).doc = pages[u].doc /\ new(u).hash = pages[u].hash
        /\ new(u).gen = pages[u].gen /\ new(u) # NoPage
  BY <1>1, <1>2
<1> HIDE DEF new
<1>5. \A u \in Urls : pages'[u] = IF late(u) THEN new(u) ELSE pages[u]
  BY <1>3
<1> QED BY <1>1, <1>3, <1>4, <1>5

LEMMA TypeInit == Init => TypeOK
<1> SUFFICES ASSUME Init PROVE TypeOK
  OBVIOUS
<1>1. crawl \in Crawl
  BY OffIsCrawl DEF Init
<1> QED BY <1>1 DEF Init, TypeOK

LEMMA TypeStep == TypeOK /\ GensBounded /\ [Next]_vars => TypeOK'
<1> SUFFICES ASSUME TypeOK, GensBounded, [Next]_vars PROVE TypeOK'
  OBVIOUS
<1>1. ASSUME NEW refresh \in BOOLEAN, BeginCrawl(refresh) PROVE TypeOK'
  BY <1>1, CrawlBegins DEF BeginCrawl, TypeOK
<1>2. CASE FetchFails
  BY <1>2, FailedFetch DEF FetchFails, TypeOK
<1>3. CASE NothingStored
  BY <1>3, EmptyFetch DEF NothingStored, TypeOK
<1>4. CASE NotModified
  BY <1>4, UnmodifiedFetch DEF NotModified, TypeOK
<1>5. CASE FetchPage
  <2>1. docs' \in [Urls -> Doc \cup {NoDoc}]
    BY <1>5, PageFetch, ReadyTypes, StoredDocument DEF FetchPage
  <2> QED BY <1>5, <2>1, PageFetch DEF FetchPage, TypeOK
<1>6. CASE SaveRow
  <2>1. torn' \in SUBSET Urls
    BY <1>6 DEF SaveRow, TypeOK
  <2> QED BY <1>6, <2>1, RowSaved DEF SaveRow, TypeOK
<1>7. CASE EndCrawl
  BY <1>7, MissingCounted, OffIsCrawl DEF EndCrawl, TypeOK
<1>8. CASE StopCrawl
  <2>1. crawl.save # NoSave => crawl.save.url \in Urls
    BY DEF TypeOK, Crawl, Save
  <2> QED BY <1>8, <2>1, OffIsCrawl DEF StopCrawl, TypeOK
<1>9. [crawl EXCEPT !.quiet = FALSE] \in Crawl
      /\ [crawl EXCEPT !.clean = FALSE, !.quiet = FALSE] \in Crawl
  BY DEF TypeOK, Crawl
<1>10. ASSUME NEW u \in Urls, DeleteDocument(u) PROVE TypeOK'
  BY <1>9, <1>10, DocumentDeleted DEF DeleteDocument, TypeOK
<1>11. ASSUME NEW u \in Urls, EditSite(u) PROVE TypeOK'
  BY <1>9, <1>11 DEF EditSite, TypeOK
<1>12. CASE BeginPrune
  <2>1. \A u \in Rows : [url |-> u, row |-> pages[u].id, doc |-> pages[u].doc,
                         docDone |-> FALSE] \in Pair
    BY DEF Rows, TypeOK, Page, Pair
  <2>2. SelectMissing \in SUBSET Pair
    BY <2>1 DEF SelectMissing
  <2> QED BY <1>12, <2>2 DEF BeginPrune, TypeOK
<1>13. CASE PruneDocument
  <2>1. PICK p \in pruned :
          /\ IF HasDoc(p.url, p.doc) THEN DeleteDoc(p.url) ELSE UNCHANGED <<docs, pages>>
          /\ pruned' = (pruned \ {p}) \cup {[p EXCEPT !.docDone = TRUE]}
    BY <1>13 DEF PruneDocument
  <2>2. p \in Pair /\ p.url \in Urls
    BY DEF TypeOK, Pair
  <2>3. [p EXCEPT !.docDone = TRUE] \in Pair
    BY <2>2 DEF Pair
  <2>4. docs' \in [Urls -> Doc \cup {NoDoc}] /\ pages' \in [Urls -> Page \cup {NoPage}]
    BY <2>1, <2>2, DocumentDeleted DEF TypeOK
  <2>5. pruned' \in SUBSET Pair
    BY <2>1, <2>3 DEF TypeOK
  <2> QED BY <1>9, <1>13, <2>4, <2>5 DEF PruneDocument, TypeOK
<1>14. CASE PruneRow
  <2>1. pages' \in [Urls -> Page \cup {NoPage}]
    BY <1>14 DEF PruneRow, TypeOK
  <2>2. pruned' \in SUBSET Pair
    BY <1>14 DEF PruneRow, TypeOK
  <2> QED BY <1>9, <1>14, <2>1, <2>2 DEF PruneRow, TypeOK
<1>15. CASE AbortPrune
  BY <1>15 DEF AbortPrune, TypeOK
<1>16. CASE UNCHANGED vars
  BY <1>16 DEF vars, TypeOK
<1> QED BY <1>1, <1>2, <1>3, <1>4, <1>5, <1>6, <1>7, <1>8, <1>10, <1>11, <1>12, <1>13,
           <1>14, <1>15, <1>16 DEF Next, CrawlStep

\* The steps beside the crawl move none of its state but clean and quiet, and
\* take pages away or unlink them.
Beside ==
  \/ \E u \in Urls : DeleteDocument(u) \/ EditSite(u)
  \/ BeginPrune \/ PruneDocument \/ PruneRow \/ AbortPrune \/ UNCHANGED vars

LEMMA BesideCrawl ==
  ASSUME TypeOK, Beside
  PROVE  /\ crawl'.on = crawl.on /\ crawl'.gen = crawl.gen /\ crawl'.queue = crawl.queue
         /\ crawl'.found = crawl.found /\ crawl'.prev = crawl.prev /\ crawl'.save = crawl.save
         /\ crawl'.refresh = crawl.refresh
         /\ crawl'.clean => crawl.clean /\ site' = site
         /\ crawl'.quiet => crawl.quiet /\ pages' = pages
         /\ crawls' = crawls /\ torn' = torn
         /\ \A u \in Urls : docs'[u] = docs[u] \/ docs'[u] = NoDoc
         /\ \A u \in Urls :
              \/ pages'[u] = NoPage
              \/ /\ pages[u] # NoPage /\ pages'[u] # NoPage
                 /\ pages'[u].gen = pages[u].gen /\ pages'[u].seenGen = pages[u].seenGen
                 /\ pages'[u].hash = pages[u].hash /\ pages'[u].missing = pages[u].missing
                 /\ \/ pages'[u].doc = 0
                    \/ pages'[u].doc = pages[u].doc /\ docs'[u] = docs[u]
<1>1. crawl \in Crawl
  BY DEF TypeOK
<1> DEFINE Same == /\ crawl'.on = crawl.on /\ crawl'.gen = crawl.gen
                   /\ crawl'.queue = crawl.queue /\ crawl'.found = crawl.found
                   /\ crawl'.prev = crawl.prev /\ crawl'.save = crawl.save
                   /\ crawl'.refresh = crawl.refresh
           Rest == /\ \A u \in Urls : docs'[u] = docs[u] \/ docs'[u] = NoDoc
                   /\ \A u \in Urls :
                        \/ pages'[u] = NoPage
                        \/ /\ pages[u] # NoPage /\ pages'[u] # NoPage
                           /\ pages'[u].gen = pages[u].gen
                           /\ pages'[u].seenGen = pages[u].seenGen
                           /\ pages'[u].hash = pages[u].hash
                           /\ pages'[u].missing = pages[u].missing
                           /\ \/ pages'[u].doc = 0
                              \/ pages'[u].doc = pages[u].doc /\ docs'[u] = docs[u]
<1>2. ASSUME crawl' = [crawl EXCEPT !.quiet = FALSE]
      PROVE  Same /\ crawl'.clean = crawl.clean /\ ~ crawl'.quiet
  BY <1>1, <1>2 DEF Crawl
<1>3. ASSUME crawl' = [crawl EXCEPT !.clean = FALSE, !.quiet = FALSE]
      PROVE  Same /\ ~ crawl'.clean /\ ~ crawl'.quiet
  BY <1>1, <1>3 DEF Crawl
<1>4. ASSUME NEW u \in Urls, DeleteDoc(u) PROVE Rest
  BY <1>4, DocumentDeleted
<1>5. ASSUME UNCHANGED <<docs, pages>> PROVE Rest
  BY <1>5
<1>6. CASE \E u \in Urls : DeleteDocument(u)
  <2>1. Rest
    BY <1>4, <1>6 DEF DeleteDocument
  <2> QED BY <1>2, <1>6, <2>1 DEF DeleteDocument
<1>7. CASE \E u \in Urls : EditSite(u)
  <2>1. Rest
    BY <1>5, <1>7 DEF EditSite
  <2> QED BY <1>3, <1>7, <2>1 DEF EditSite
<1>8. CASE BeginPrune \/ AbortPrune \/ UNCHANGED vars
  <2>1. Rest
    BY <1>5, <1>8 DEF BeginPrune, AbortPrune, vars
  <2> QED BY <1>8, <2>1 DEF BeginPrune, AbortPrune, vars
<1>9. CASE PruneDocument
  <2>1. PICK p \in pruned :
          IF HasDoc(p.url, p.doc) THEN DeleteDoc(p.url) ELSE UNCHANGED <<docs, pages>>
    BY <1>9 DEF PruneDocument
  <2>2. p.url \in Urls
    BY DEF TypeOK, Pair
  <2>3. Rest
    BY <1>4, <1>5, <2>1, <2>2
  <2> QED BY <1>2, <1>9, <2>3 DEF PruneDocument
<1>10. CASE PruneRow
  <2>1. \A u \in Urls : pages'[u] = pages[u] \/ pages'[u] = NoPage
    BY <1>10 DEF PruneRow, TypeOK
  <2>2. Rest
    BY <1>10, <2>1 DEF PruneRow
  <2> QED BY <1>2, <1>10, <2>2 DEF PruneRow
<1> QED BY <1>6, <1>7, <1>8, <1>9, <1>10 DEF Beside

LEMMA GensStep == TypeOK /\ GensBounded /\ [Next]_vars => GensBounded'
<1> SUFFICES ASSUME TypeOK, GensBounded, [Next]_vars PROVE GensBounded'
  OBVIOUS
<1>1. crawls \in Nat /\ crawl.gen \in Nat
  BY DEF TypeOK, Crawl
<1>2. \A u \in Urls : /\ pages[u] # NoPage => pages[u].gen \in Nat
                      /\ crawl.prev[u] # NoPage => crawl.prev[u].gen \in Nat
  BY DEF TypeOK, Crawl, Page
<1>3. ASSUME NEW refresh \in BOOLEAN, BeginCrawl(refresh) PROVE GensBounded'
  <2>1. pages' = pages
    BY <1>3 DEF BeginCrawl
  <2>2. \A u \in Urls : pages[u] # NoPage => pages[u].gen <= crawls'
    BY <1>1, <1>2, <1>3, CrawlBegins DEF GensBounded
  <2> QED BY <1>3, <2>1, <2>2, CrawlBegins DEF GensBounded, Saving
<1>4. CASE FetchFails
  BY <1>4, FailedFetch DEF FetchFails, GensBounded, Saving
<1>5. CASE NothingStored
  BY <1>5, EmptyFetch DEF NothingStored, GensBounded, Saving
<1>6. CASE NotModified
  <2>1. Cur.url \in Urls
    BY <1>6, ReadyTypes DEF NotModified
  <2> QED BY <1>6, <2>1, UnmodifiedFetch DEF NotModified, GensBounded, Saving
<1>7. CASE FetchPage
  <2>1. /\ crawl'.save # NoSave /\ crawl'.gen = crawl.gen /\ crawl'.prev = crawl.prev
        /\ crawl'.save.row.gen = crawl.gen
    BY <1>7, PageFetch
  <2> QED BY <1>7, <2>1 DEF FetchPage, GensBounded, Saving
<1>8. CASE SaveRow
  <2>1. /\ crawl'.save = NoSave /\ crawl'.gen = crawl.gen /\ crawl'.prev = crawl.prev
        /\ \A v \in Urls : pages'[v] = pages[v] \/ pages'[v].gen = crawl.save.row.gen
    BY <1>8, RowSaved
  <2>2. Saving /\ crawls' = crawls
    BY <1>8 DEF SaveRow, Saving
  <2> QED BY <2>1, <2>2 DEF GensBounded, Saving
<1>9. CASE EndCrawl
  <2>1. crawl' = Off /\ crawls' = crawls
    BY <1>9 DEF EndCrawl
  <2> QED BY <1>1, <1>9, <2>1, OffIsCrawl, MissingCounted DEF GensBounded, Saving
<1>10. CASE StopCrawl
  <2>1. crawl' = Off /\ crawls' = crawls /\ pages' = pages
    BY <1>10 DEF StopCrawl
  <2> QED BY <1>1, <2>1, OffIsCrawl DEF GensBounded, Saving
<1>11. CASE Beside
  BY <1>11, BesideCrawl DEF GensBounded, Saving
<1> QED BY <1>3, <1>4, <1>5, <1>6, <1>7, <1>8, <1>9, <1>10, <1>11 DEF Next, CrawlStep, Beside

\* What taking a URL does to the URLs that are queued and fetched.
LEMMA TakenUrls ==
  ASSUME TypeOK, QueueShape, NEW links, Takes(links)
  PROVE  /\ Cur.url \in QueuedUrls /\ Cur.url \in crawl.found
         /\ QueuedUrls' = (QueuedUrls \ {Cur.url}) \cup links
         /\ Fetched' = Fetched \cup {Cur.url}
         /\ \A i, j \in 1..Len(crawl'.queue) :
              crawl'.queue[i].url = crawl'.queue[j].url => i = j
<1> DEFINE q == crawl.queue
           c == crawl'.queue
<1>1. /\ Len(q) \in Nat \ {0} /\ Cur = q[1] /\ Len(c) \in Nat /\ Len(c) >= Len(q) - 1
      /\ \A i \in 1..Len(q) - 1 : c[i] = q[i + 1]
      /\ \A i \in Len(q)..Len(c) : c[i].url \in links
      /\ \A i, j \in Len(q)..Len(c) : c[i].url = c[j].url => i = j
      /\ \A u \in links : \E i \in Len(q)..Len(c) : c[i].url = u
  BY NextQueue
<1>2. QueuedUrls = {q[i].url : i \in 1..Len(q)} /\ QueuedUrls' = {c[i].url : i \in 1..Len(c)}
  BY DEF QueuedUrls
<1>3. /\ \A i, j \in 1..Len(q) : q[i].url = q[j].url => i = j
      /\ QueuedUrls \subseteq crawl.found
  BY DEF QueueShape
<1>4. crawl'.found = crawl.found \cup links /\ links \cap crawl.found = {}
  BY DEF Takes
<1> HIDE DEF q, c
<1>5. Cur.url \in QueuedUrls
  BY <1>1, <1>2
<1>6. \A u \in QueuedUrls' : u \in (QueuedUrls \ {Cur.url}) \cup links
  <2> SUFFICES ASSUME NEW i \in 1..Len(c)
               PROVE  c[i].url \in (QueuedUrls \ {Cur.url}) \cup links
    BY <1>2
  <2>1. CASE i \in 1..Len(q) - 1
    <3>1. c[i].url = q[i + 1].url /\ i + 1 \in 1..Len(q) /\ i + 1 # 1 /\ 1 \in 1..Len(q)
      BY <1>1, <2>1
    <3> QED BY <1>1, <1>2, <1>3, <3>1
  <2>2. CASE i \in Len(q)..Len(c)
    BY <1>1, <2>2
  <2> QED BY <1>1, <2>1, <2>2
<1>7. \A u \in QueuedUrls \ {Cur.url} : u \in QueuedUrls'
  <2> SUFFICES ASSUME NEW i \in 1..Len(q), q[i].url # Cur.url
               PROVE  q[i].url \in QueuedUrls'
    BY <1>2
  <2>1. i - 1 \in 1..Len(q) - 1 /\ i - 1 \in 1..Len(c) /\ (i - 1) + 1 = i
    BY <1>1
  <2> QED BY <1>1, <1>2, <2>1
<1>8. links \subseteq QueuedUrls'
  <2> SUFFICES ASSUME NEW u \in links PROVE u \in QueuedUrls'
    OBVIOUS
  <2>1. PICK i \in Len(q)..Len(c) : c[i].url = u
    BY <1>1
  <2>2. i \in 1..Len(c)
    BY <1>1
  <2> QED BY <1>2, <2>1, <2>2
<1>9. QueuedUrls' = (QueuedUrls \ {Cur.url}) \cup links
  BY <1>6, <1>7, <1>8
<1>10. Fetched' = Fetched \cup {Cur.url}
  <2>1. Fetched' = (crawl.found \cup links) \ ((QueuedUrls \ {Cur.url}) \cup links)
    BY <1>4, <1>9 DEF Fetched
  <2> QED BY <1>3, <1>4, <1>5, <2>1 DEF Fetched
<1>11. \A i, j \in 1..Len(c) : c[i].url = c[j].url => i = j
  <2> SUFFICES ASSUME NEW i \in 1..Len(c), NEW j \in 1..Len(c), c[i].url = c[j].url
               PROVE  i = j
    OBVIOUS
  <2>1. \A k \in 1..Len(c) : \/ /\ k \in 1..Len(q) - 1 /\ k + 1 \in 1..Len(q)
                                /\ c[k] = q[k + 1] /\ c[k].url \notin links
                             \/ k \in Len(q)..Len(c) /\ c[k].url \in links
    <3> SUFFICES ASSUME NEW k \in 1..Len(c), k \in 1..Len(q) - 1
                 PROVE  k + 1 \in 1..Len(q) /\ c[k] = q[k + 1] /\ c[k].url \notin links
      BY <1>1
    <3>1. k + 1 \in 1..Len(q) /\ c[k] = q[k + 1]
      BY <1>1
    <3>2. c[k].url \in crawl.found
      BY <1>2, <1>3, <3>1
    <3> QED BY <1>4, <3>1, <3>2
  <2>2. CASE c[i].url \in links
    BY <1>1, <2>1, <2>2
  <2>3. CASE c[i].url \notin links
    <3>1. i + 1 \in 1..Len(q) /\ j + 1 \in 1..Len(q) /\ q[i + 1].url = q[j + 1].url
      BY <2>1, <2>3
    <3>2. i + 1 = j + 1
      BY <1>3, <3>1
    <3> QED BY <3>2
  <2> QED BY <2>2, <2>3
<1> QED BY <1>3, <1>5, <1>9, <1>10, <1>11 DEF c

\* Taking a URL keeps the queue sorted by depth.
LEMMA TakenDepths ==
  ASSUME TypeOK, DepthsSorted, NEW links, Takes(links)
  PROVE  DepthsSorted'
<1> DEFINE q == crawl.queue
           c == crawl'.queue
           d == Cur.depth
<1>1. /\ Len(q) \in Nat \ {0} /\ d = q[1].depth /\ Len(c) \in Nat /\ Len(c) >= Len(q) - 1
      /\ \A i \in 1..Len(q) - 1 : c[i].depth = q[i + 1].depth
      /\ \A i \in Len(q)..Len(c) : c[i].depth = d + 1 /\ links # {}
  BY NextQueue
<1>2. /\ \A i \in 1..Len(q) : q[i].depth \in Nat /\ q[i].depth <= MaxDepth /\ q[i].depth <= d + 1
      /\ \A i, j \in 1..Len(q) : i <= j => q[i].depth <= q[j].depth
      /\ MaxDepth \in Nat /\ (links # {} => d < MaxDepth)
  <2>1. \A i \in 1..Len(q) : q[i].depth \in Nat
    <3>1. q \in Seq(Item)
      BY NextQueue
    <3>2. \A i \in 1..Len(q) : q[i] \in Item
      BY <3>1, ElementOfSeq
    <3> QED BY <3>2 DEF Item
  <2> QED BY <1>1, <2>1, CrawlAssumption DEF DepthsSorted, Takes
<1> HIDE DEF q, c, d
<1>3. \A i \in 1..Len(c) : c[i].depth \in Nat /\ d <= c[i].depth /\ c[i].depth <= d + 1
                           /\ c[i].depth <= MaxDepth
  <2> SUFFICES ASSUME NEW i \in 1..Len(c)
               PROVE  c[i].depth \in Nat /\ d <= c[i].depth /\ c[i].depth <= d + 1
                      /\ c[i].depth <= MaxDepth
    OBVIOUS
  <2>1. d \in Nat
    BY <1>1, <1>2
  <2>2. CASE i \in 1..Len(q) - 1
    <3>1. i + 1 \in 1..Len(q) /\ 1 \in 1..Len(q) /\ 1 <= i + 1
      BY <1>1, <2>2
    <3> QED BY <1>1, <1>2, <2>2, <3>1
  <2>3. CASE i \in Len(q)..Len(c)
    BY <1>1, <1>2, <2>1, <2>3
  <2> QED BY <1>1, <2>2, <2>3
<1>4. \A i, j \in 1..Len(c) : i <= j => c[i].depth <= c[j].depth
  <2> SUFFICES ASSUME NEW i \in 1..Len(c), NEW j \in 1..Len(c), i <= j
               PROVE  c[i].depth <= c[j].depth
    OBVIOUS
  <2>1. CASE j \in 1..Len(q) - 1
    <3>1. i \in 1..Len(q) - 1 /\ i + 1 \in 1..Len(q) /\ j + 1 \in 1..Len(q) /\ i + 1 <= j + 1
      BY <1>1, <2>1
    <3> QED BY <1>1, <1>2, <2>1, <3>1
  <2>2. CASE j \in Len(q)..Len(c)
    BY <1>1, <1>3, <2>2
  <2> QED BY <1>1, <2>1, <2>2
<1>5. \A i \in 1..Len(c) : c[i].depth <= c[1].depth + 1
  <2> SUFFICES ASSUME NEW i \in 1..Len(c) PROVE c[i].depth <= c[1].depth + 1
    OBVIOUS
  <2>1. 1 \in 1..Len(c)
    BY <1>1
  <2> QED BY <1>1, <1>2, <1>3, <2>1
<1> QED BY <1>3, <1>4, <1>5 DEF DepthsSorted, c

LEMMA ShapeStep ==
  TypeOK /\ GensBounded /\ QueueShape /\ DepthsSorted /\ [Next]_vars
    => QueueShape' /\ DepthsSorted'
<1> SUFFICES ASSUME TypeOK, GensBounded, QueueShape, DepthsSorted, [Next]_vars
             PROVE  QueueShape' /\ DepthsSorted'
  OBVIOUS
<1>1. ASSUME NEW links, Takes(links), crawl'.on,
             crawl'.save = NoSave \/ crawl'.save.url = Cur.url
      PROVE  QueueShape' /\ DepthsSorted'
  <2>1. /\ QueuedUrls' = (QueuedUrls \ {Cur.url}) \cup links
        /\ Fetched' = Fetched \cup {Cur.url}
        /\ \A i, j \in 1..Len(crawl'.queue) :
             crawl'.queue[i].url = crawl'.queue[j].url => i = j
    BY <1>1, TakenUrls
  <2>2. crawl'.found = crawl.found \cup links
    BY <1>1 DEF Takes
  <2> QED BY <1>1, <2>1, <2>2, TakenDepths DEF QueueShape, Saving
<1>2. ASSUME crawl'.queue = crawl.queue, crawl'.found = crawl.found,
             crawl'.save = NoSave \/ (crawl'.save = crawl.save /\ crawl'.on = crawl.on)
      PROVE  QueueShape' /\ DepthsSorted'
  <2>1. QueuedUrls' = QueuedUrls /\ Fetched' = Fetched
    BY <1>2 DEF QueuedUrls, Fetched
  <2> QED BY <1>2, <2>1 DEF QueueShape, Saving, DepthsSorted
<1>3. ASSUME crawl' = Off PROVE QueueShape' /\ DepthsSorted'
  <2>1. crawl'.queue = <<>> /\ crawl'.save = NoSave /\ Len(crawl'.queue) = 0
    BY <1>3, OffIsCrawl
  <2> QED BY <2>1 DEF QueueShape, QueuedUrls, Saving, DepthsSorted
<1>4. ASSUME NEW refresh \in BOOLEAN, BeginCrawl(refresh)
      PROVE  QueueShape' /\ DepthsSorted'
  <2>1. /\ crawl'.queue = Queued(Seeds, 0) /\ crawl'.found = Elements(Seeds)
        /\ crawl'.save = NoSave /\ QueuedUrls' = Elements(Seeds)
    BY <1>4, CrawlBegins
  <2> DEFINE q == Queued(Seeds, 0)
  <2>2. /\ \A i, j \in 1..Len(q) : q[i].url = q[j].url => i = j
        /\ \A i \in 1..Len(q) : q[i].depth = 0
        /\ Len(q) \in Nat /\ MaxDepth \in Nat
    BY SeedsQueued, CrawlAssumption
  <2> HIDE DEF q
  <2>3. QueueShape'
    BY <2>1, <2>2 DEF QueueShape, Saving, q
  <2>4. crawl'.queue = q
    BY <2>1 DEF q
  <2>5. DepthsSorted'
    BY <2>2, <2>4 DEF DepthsSorted
  <2> QED BY <2>3, <2>5
<1>5. CASE FetchFails
  BY <1>1, <1>5, FailedFetch
<1>6. CASE NothingStored
  BY <1>1, <1>6, EmptyFetch
<1>7. CASE NotModified
  BY <1>1, <1>7, UnmodifiedFetch
<1>8. CASE FetchPage
  BY <1>1, <1>8, PageFetch
<1>9. CASE SaveRow
  BY <1>2, <1>9, RowSaved
<1>10. CASE EndCrawl \/ StopCrawl
  BY <1>3, <1>10 DEF EndCrawl, StopCrawl
<1>11. CASE Beside
  BY <1>2, <1>11, BesideCrawl
<1> QED BY <1>4, <1>5, <1>6, <1>7, <1>8, <1>9, <1>10, <1>11 DEF Next, CrawlStep, Beside

-----------------------------------------------------------------------------
(* Rows and documents.                                                     *)

LEMMA MatchingStep ==
  TypeOK /\ GensBounded /\ QueueShape /\ Matching /\ [Next]_vars => Matching'
<1> SUFFICES ASSUME TypeOK, GensBounded, QueueShape, Matching, [Next]_vars
             PROVE  Matching'
  OBVIOUS
<1>1. /\ \A u \in Urls : pages[u] # NoPage /\ pages[u].doc # 0 =>
           /\ docs[u] # NoDoc /\ docs[u].id = pages[u].doc
           /\ docs[u].hash = pages[u].hash \/ BetweenWrites(u) \/ u \in torn
      /\ crawl.on => \A u \in Urls \ Fetched : PageMatches(u, crawl.prev[u])
      /\ Saving => PageMatches(crawl.save.url, crawl.save.row)
  BY DEF Matching, RowMatchesDocument, Rows, HasDoc
<1>2. ASSUME
        \A u \in Urls : pages'[u] # NoPage /\ pages'[u].doc # 0 =>
             /\ docs'[u] # NoDoc /\ docs'[u].id = pages'[u].doc
             /\ docs'[u].hash = pages'[u].hash \/ BetweenWrites(u)' \/ u \in torn',
        crawl'.on => \A u \in Urls \ Fetched' : PageMatches(u, crawl.prev[u])',
        Saving' => PageMatches(crawl.save.url, crawl.save.row)'
      PROVE  Matching'
  <2>1. RowMatchesDocument'
    BY <1>2 DEF RowMatchesDocument, Rows, HasDoc
  <2> QED BY <1>2, <2>1 DEF Matching
<1>3. ASSUME NEW refresh \in BOOLEAN, BeginCrawl(refresh) PROVE Matching'
  <2>1. /\ crawl'.prev = pages /\ crawl'.save = NoSave /\ ~ crawl.on
        /\ UNCHANGED <<pages, docs, torn>>
    BY <1>3, CrawlBegins DEF BeginCrawl
  <2>2. \A u \in Urls : pages[u] # NoPage /\ pages[u].doc # 0 =>
          /\ docs[u] # NoDoc /\ docs[u].id = pages[u].doc
          /\ docs[u].hash = pages[u].hash \/ u \in torn
    BY <1>1, <2>1 DEF BetweenWrites
  <2>3. \A u \in Urls : PageMatches(u, crawl.prev[u])'
    BY <2>1, <2>2 DEF PageMatches
  <2> QED BY <1>2, <2>1, <2>2, <2>3 DEF Saving
\* A fetch that stores nothing saves what the crawl remembers, or no link.
<1>4. ASSUME Takes({}), UNCHANGED <<pages, docs, torn>>, crawl'.prev = crawl.prev,
             \/ crawl'.save = NoSave
             \/ /\ crawl'.save.url = Cur.url
                /\ \/ crawl'.save.row.doc = 0
                   \/ /\ crawl.prev[Cur.url] # NoPage
                      /\ crawl'.save.row.doc = crawl.prev[Cur.url].doc
                      /\ crawl'.save.row.hash = crawl.prev[Cur.url].hash
      PROVE  Matching'
  <2>1. Ready /\ crawl.save = NoSave /\ crawl.on /\ Cur.url \in Urls
    BY <1>4, ReadyTypes DEF Takes
  <2>2. Fetched' = Fetched \cup {Cur.url} /\ Cur.url \notin Fetched
    BY <1>4, TakenUrls DEF Fetched
  <2>3. \A u \in Urls : ~ BetweenWrites(u)
    BY <2>1 DEF BetweenWrites
  <2>4. \A u \in Urls \ Fetched' : PageMatches(u, crawl.prev[u])'
    BY <1>1, <1>4, <2>1, <2>2 DEF PageMatches
  <2>5. PageMatches(Cur.url, crawl.prev[Cur.url])
    BY <1>1, <2>1, <2>2
  <2>6. Saving' => PageMatches(crawl.save.url, crawl.save.row)'
    BY <1>4, <2>5 DEF PageMatches, Saving
  <2> QED BY <1>1, <1>2, <1>4, <2>3, <2>4, <2>6
<1>5. CASE FetchFails
  BY <1>4, <1>5, FailedFetch DEF FetchFails
<1>6. CASE NothingStored
  BY <1>4, <1>6, EmptyFetch DEF NothingStored
<1>7. CASE NotModified
  BY <1>4, <1>7, UnmodifiedFetch DEF NotModified
<1>8. CASE FetchPage
  <2>0. PICK u \in Urls : u = Cur.url
    BY <1>8, ReadyTypes DEF FetchPage
  <2> DEFINE body == site[u]
             links == NewLinks(u, Cur.depth, body)
             same == crawl.prev[u] # NoPage /\ crawl.prev[u].hash = body
  <2>1. /\ Takes(links) /\ crawl'.save # NoSave /\ crawl'.on /\ crawl'.prev = crawl.prev
        /\ crawl'.save.url = u /\ crawl'.save.row.hash = body
        /\ crawl'.save.row.doc = IF same THEN crawl.prev[u].doc ELSE docs'[u].id
        /\ docs' = Stored(u, body) /\ body \in Contents
    BY <1>8, <2>0, PageFetch
  <2>2. /\ Ready /\ crawl.save = NoSave /\ crawl.on
        /\ pages' = pages /\ torn' = torn
    BY <1>8, ReadyTypes DEF FetchPage
  <2>3. Fetched' = Fetched \cup {u} /\ u \notin Fetched
    BY <2>0, <2>1, TakenUrls DEF Fetched
  <2>4. /\ \A v \in Urls \ {u} : docs'[v] = docs[v]
        /\ docs[u] # NoDoc => docs'[u] # NoDoc /\ docs'[u].id = docs[u].id
        /\ same => docs' = docs
        /\ ~ same => docs'[u] \in Doc /\ docs'[u].hash = body
    BY <2>1, <2>2, StoredDocument
  <2> HIDE DEF body, links, same
  <2>5. BetweenWrites(u)' /\ \A v \in Urls : ~ BetweenWrites(v)
    BY <2>1, <2>2 DEF BetweenWrites
  <2>6. \A v \in Urls : pages'[v] # NoPage /\ pages'[v].doc # 0 =>
          /\ docs'[v] # NoDoc /\ docs'[v].id = pages'[v].doc
          /\ docs'[v].hash = pages'[v].hash \/ BetweenWrites(v)' \/ v \in torn'
    <3> SUFFICES ASSUME NEW v \in Urls, pages[v] # NoPage, pages[v].doc # 0
                 PROVE  /\ docs'[v] # NoDoc /\ docs'[v].id = pages[v].doc
                        /\ docs'[v].hash = pages[v].hash \/ BetweenWrites(v)' \/ v \in torn
      BY <2>2
    <3> QED BY <1>1, <2>4, <2>5
  <2>7. \A v \in Urls \ Fetched' : PageMatches(v, crawl.prev[v])'
    BY <1>1, <2>1, <2>2, <2>3, <2>4 DEF PageMatches
  <2>8. PageMatches(crawl.save.url, crawl.save.row)'
    <3>1. CASE same
      <4>1. PageMatches(u, crawl.prev[u])
        BY <1>1, <2>2, <2>3
      <4> QED BY <2>1, <2>2, <2>4, <3>1, <4>1 DEF PageMatches, same
    <3>2. CASE ~ same
      BY <2>1, <2>2, <2>4, <3>2 DEF PageMatches
    <3> QED BY <3>1, <3>2
  <2> QED BY <1>2, <2>6, <2>7, <2>8
<1>9. CASE SaveRow
  <2> DEFINE u == crawl.save.url
             row == crawl.save.row
             ok == row.doc = 0 \/ HasDoc(u, row.doc)
  <2>1. /\ u \in Urls /\ crawl'.save = NoSave /\ crawl.on /\ crawl'.prev = crawl.prev
        /\ crawl'.queue = crawl.queue /\ crawl'.found = crawl.found
        /\ \A v \in Urls \ {u} : pages'[v] = pages[v]
        /\ ~ ok => pages' = pages
        /\ ok => pages'[u].doc = row.doc /\ pages'[u].hash = row.hash
    BY <1>9, RowSaved
  <2>2. /\ Saving /\ docs' = docs
        /\ torn' = IF ok /\ docs[u] # NoDoc /\ docs[u].hash = row.hash
                     THEN torn \ {u} ELSE torn
    BY <1>9 DEF SaveRow, Saving
  <2>3. row \in Page /\ row # NoPage
    BY <1>9, RowSaved, CrawlAssumption
  <2>4. PageMatches(u, row) /\ u \in Fetched
    BY <1>1, <2>2 DEF QueueShape
  <2>5. Fetched' = Fetched
    BY <2>1 DEF Fetched, QueuedUrls
  <2>6. \A v \in Urls : BetweenWrites(v) => v = u
    BY DEF BetweenWrites
  <2> HIDE DEF u, row
  <2>7. \A v \in Urls : pages'[v] # NoPage /\ pages'[v].doc # 0 =>
          /\ docs'[v] # NoDoc /\ docs'[v].id = pages'[v].doc
          /\ docs'[v].hash = pages'[v].hash \/ BetweenWrites(v)' \/ v \in torn'
    <3> SUFFICES ASSUME NEW v \in Urls, pages'[v] # NoPage, pages'[v].doc # 0
                 PROVE  /\ docs[v] # NoDoc /\ docs[v].id = pages'[v].doc
                        /\ docs[v].hash = pages'[v].hash \/ v \in torn'
      BY <2>2
    <3>1. CASE v # u
      BY <1>1, <2>1, <2>2, <2>6, <3>1
    <3>2. CASE v = u /\ ok
      BY <2>1, <2>2, <2>3, <2>4, <3>2 DEF PageMatches, HasDoc
    <3>3. CASE v = u /\ ~ ok
      <4>1. docs[u] = NoDoc
        BY <2>3, <2>4, <3>3 DEF PageMatches, HasDoc
      <4> QED BY <1>1, <2>1, <3>3, <4>1
    <3> QED BY <3>1, <3>2, <3>3
  <2>8. \A v \in Urls \ Fetched' : PageMatches(v, crawl.prev[v])'
    BY <1>1, <2>1, <2>2, <2>4, <2>5 DEF PageMatches
  <2> QED BY <1>2, <2>1, <2>7, <2>8 DEF Saving
<1>10. CASE EndCrawl
  <2>1. /\ crawl' = Off /\ docs' = docs /\ torn' = torn /\ crawl.save = NoSave
    BY <1>10 DEF EndCrawl
  <2>2. \A u \in Urls : ~ BetweenWrites(u)
    BY <2>1 DEF BetweenWrites
  <2> QED BY <1>1, <1>2, <1>10, <2>1, <2>2, MissingCounted, OffIsCrawl DEF Saving
<1>11. CASE StopCrawl
  <2>1. /\ crawl' = Off /\ docs' = docs /\ pages' = pages
        /\ torn \subseteq torn' /\ (crawl.save # NoSave => crawl.save.url \in torn')
    BY <1>11 DEF StopCrawl
  <2>2. \A u \in Urls : BetweenWrites(u) => u \in torn'
    BY <2>1 DEF BetweenWrites
  <2> QED BY <1>1, <1>2, <2>1, <2>2, OffIsCrawl DEF Saving
<1>12. CASE Beside
  <2>1. /\ crawl'.on = crawl.on /\ crawl'.queue = crawl.queue /\ crawl'.found = crawl.found
        /\ crawl'.prev = crawl.prev /\ crawl'.save = crawl.save /\ torn' = torn
        /\ \A u \in Urls : docs'[u] = docs[u] \/ docs'[u] = NoDoc
        /\ \A u \in Urls :
             \/ pages'[u] = NoPage
             \/ /\ pages[u] # NoPage /\ pages'[u].hash = pages[u].hash
                /\ \/ pages'[u].doc = 0
                   \/ pages'[u].doc = pages[u].doc /\ docs'[u] = docs[u]
    BY <1>12, BesideCrawl
  <2>2. Fetched' = Fetched /\ Saving' = Saving
    BY <2>1 DEF Fetched, QueuedUrls, Saving
  <2>3. \A u \in Urls : BetweenWrites(u)' = BetweenWrites(u)
    BY <2>1 DEF BetweenWrites
  <2>4. \A u \in Urls \ Fetched' : crawl'.on => PageMatches(u, crawl.prev[u])'
    BY <1>1, <2>1, <2>2 DEF PageMatches
  <2>5. Saving => crawl.save.url \in Urls
    BY DEF Saving, TypeOK, Crawl, Save
  <2>6. Saving' => PageMatches(crawl.save.url, crawl.save.row)'
    BY <1>1, <2>1, <2>2, <2>5 DEF PageMatches
  <2> QED BY <1>1, <1>2, <2>1, <2>3, <2>4, <2>6
<1> QED BY <1>3, <1>5, <1>6, <1>7, <1>8, <1>9, <1>10, <1>11, <1>12 DEF Next, CrawlStep, Beside

-----------------------------------------------------------------------------
(* A full crawl finds the live pages.                                      *)

LEMMA WithinSeeds == Within(0) \subseteq Elements(Seeds)
BY DEF Within

LEMMA WithinGrows ==
  ASSUME NEW m \in Nat, NEW n \in Nat, m <= n
  PROVE  Within(m) \subseteq Within(n)
<1> SUFFICES ASSUME NEW u \in Within(m) PROVE u \in Within(n)
  OBVIOUS
<1>1. PICK k \in 0..m : \E path \in [0..k -> Urls] :
        /\ path[0] \in Elements(Seeds) /\ path[k] = u
        /\ \A i \in 1..k : /\ site[path[i - 1]] # Gone
                           /\ path[i] \in LinksOf[site[path[i - 1]]]
  BY DEF Within
<1>2. k \in 0..n /\ u \in Urls
  BY DEF Within
<1> QED BY <1>1, <1>2 DEF Within

\* What is one link farther is linked by a live page.
LEMMA WithinSplits ==
  ASSUME NEW n \in Nat, NEW u \in Within(n + 1), u \notin Within(n)
  PROVE  \E w \in Within(n) : site[w] # Gone /\ u \in LinksOf[site[w]]
<1>0. PICK k \in 0..n + 1 : \E path \in [0..k -> Urls] :
        /\ path[0] \in Elements(Seeds) /\ path[k] = u
        /\ \A i \in 1..k : /\ site[path[i - 1]] # Gone
                           /\ path[i] \in LinksOf[site[path[i - 1]]]
  BY DEF Within
<1>1. PICK path \in [0..k -> Urls] :
        /\ path[0] \in Elements(Seeds) /\ path[k] = u
        /\ \A i \in 1..k : /\ site[path[i - 1]] # Gone
                           /\ path[i] \in LinksOf[site[path[i - 1]]]
  BY <1>0
<1>2. u \in Urls
  BY DEF Within
<1>3. k = n + 1
  <2>1. SUFFICES ASSUME k \in 0..n PROVE FALSE
    OBVIOUS
  <2> QED BY <1>1, <1>2, <2>1 DEF Within
<1> DEFINE short == [i \in 0..n |-> path[i]]
           w == path[n]
<1>4. short \in [0..n -> Urls] /\ w \in Urls
  BY <1>3
<1>5. /\ short[0] \in Elements(Seeds) /\ short[n] = w
      /\ \A i \in 1..n : /\ site[short[i - 1]] # Gone
                         /\ short[i] \in LinksOf[site[short[i - 1]]]
  <2>1. \A i \in 1..n : i \in 1..k /\ i \in 0..n /\ i - 1 \in 0..n
    BY <1>3
  <2>2. 0 \in 0..n /\ n \in 0..n
    OBVIOUS
  <2> QED BY <1>1, <2>1, <2>2
<1> HIDE DEF short
<1>6. w \in Within(n)
  <2>1. n \in 0..n
    OBVIOUS
  <2> QED BY <1>4, <1>5, <2>1 DEF Within
<1>7. site[w] # Gone /\ u \in LinksOf[site[w]]
  <2>1. k \in 1..k /\ k - 1 = n
    BY <1>3
  <2> QED BY <1>1, <2>1
<1> QED BY <1>6, <1>7

LEMMA SameSite ==
  ASSUME site' = site
  PROVE  \A n : Within(n)' = Within(n)
BY DEF Within

\* A crawl that is full and clean after a step was so before it, and the site
\* stood still.
LEMMA FullStep ==
  ASSUME TypeOK, GensBounded, [Next]_vars, Full'
  PROVE  \/ \E refresh \in BOOLEAN : BeginCrawl(refresh)
         \/ Full /\ site' = site /\ (FetchPage \/ SaveRow \/ Beside)
<1> USE DEF Full
<1>1. CASE FetchFails
  BY <1>1, FailedFetch
<1>2. CASE NothingStored
  BY <1>2, EmptyFetch
<1>3. CASE NotModified
  BY <1>3, UnmodifiedFetch
<1>4. CASE FetchPage
  <2>1. Ready /\ site' = site
    BY <1>4 DEF FetchPage
  <2> QED BY <1>4, <2>1, PageFetch DEF Ready
<1>5. CASE SaveRow
  <2>1. site' = site
    BY <1>5 DEF SaveRow
  <2>2. crawl'.clean => crawl.clean
    BY <1>5, RowSaved
  <2> QED BY <1>5, <2>1, <2>2, RowSaved
<1>6. CASE EndCrawl \/ StopCrawl
  BY <1>6, OffIsCrawl DEF EndCrawl, StopCrawl
<1>7. CASE Beside
  BY <1>7, BesideCrawl
<1> QED BY <1>1, <1>2, <1>3, <1>4, <1>5, <1>6, <1>7 DEF Next, CrawlStep, Beside

LEMMA FollowedStep == IInv /\ [Next]_vars => Followed'
<1> SUFFICES ASSUME IInv, [Next]_vars, Full'
             PROVE  /\ Elements(Seeds) \subseteq crawl'.found
                    /\ \A v \in Fetched', n \in Nat :
                         n < MaxDepth /\ v \in Within(n)' /\ site'[v] # Gone
                           => LinksOf[site'[v]] \subseteq crawl'.found
  BY DEF Followed
<1>1. TypeOK /\ GensBounded /\ QueueShape
  BY DEF IInv
<1>2. CASE \E refresh \in BOOLEAN : BeginCrawl(refresh)
  <2>1. crawl'.found = Elements(Seeds) /\ Fetched' = {}
    BY <1>1, <1>2, CrawlBegins DEF Fetched
  <2> QED BY <2>1
<1>3. CASE Full /\ site' = site /\ (FetchPage \/ SaveRow \/ Beside)
  <2>1. /\ Elements(Seeds) \subseteq crawl.found
        /\ \A v \in Fetched, n \in Nat :
             n < MaxDepth /\ v \in Within(n) /\ site[v] # Gone
               => LinksOf[site[v]] \subseteq crawl.found
    BY <1>3 DEF IInv, Followed
  <2>2. \A n : Within(n)' = Within(n)
    BY <1>3, SameSite
  <2>3. CASE SaveRow \/ Beside
    <3>1. crawl'.queue = crawl.queue /\ crawl'.found = crawl.found
      BY <1>1, <2>3, RowSaved, BesideCrawl
    <3>2. Fetched' = Fetched
      BY <3>1 DEF Fetched, QueuedUrls
    <3> QED BY <1>3, <2>1, <2>2, <3>1, <3>2
  <2>4. CASE FetchPage
    <3> DEFINE links == NewLinks(Cur.url, Cur.depth, site[Cur.url])
    <3>1. Takes(links)
      BY <1>1, <2>4, PageFetch
    <3>2. crawl'.found = crawl.found \cup links /\ Fetched' = Fetched \cup {Cur.url}
      BY <1>1, <3>1, TakenUrls DEF Takes
    <3>3. ASSUME NEW n \in Nat, n < MaxDepth, Cur.url \in Within(n)
          PROVE  LinksOf[site[Cur.url]] \subseteq crawl'.found
      <4>1. CASE Cur.depth < MaxDepth
        BY <3>2, <4>1 DEF NewLinks
      <4>2. CASE ~ (Cur.depth < MaxDepth)
        <5>1. Len(crawl.queue) \in Nat \ {0} /\ Cur = crawl.queue[1]
          BY <1>1, <3>1, NextQueue
        <5>2. n < crawl.queue[1].depth
          BY <1>1, <2>4, <3>3, <4>2, <5>1, ReadyTypes, CrawlAssumption DEF FetchPage
        <5>3. 1 \in 1..Len(crawl.queue)
          BY <5>1
        <5>4. crawl.queue[1].url \notin Within(n)
          BY <1>3, <5>2, <5>3 DEF IInv, Frontier
        <5> QED BY <3>3, <5>1, <5>4
      <4> QED BY <4>1, <4>2
    <3> QED BY <1>3, <2>1, <2>2, <3>2, <3>3
  <2> QED BY <1>3, <2>3, <2>4
<1> QED BY <1>1, <1>2, <1>3, FullStep

LEMMA FrontierStep == IInv /\ [Next]_vars => Frontier'
<1> SUFFICES ASSUME IInv, [Next]_vars, Full'
             PROVE  /\ \A n \in Nat : Len(crawl'.queue) > 0 /\ n = crawl'.queue[1].depth
                                        => Within(n)' \subseteq crawl'.found
                    /\ \A i \in 1..Len(crawl'.queue), n \in Nat :
                         n < crawl'.queue[i].depth => crawl'.queue[i].url \notin Within(n)'
  BY DEF Frontier
<1>1. TypeOK /\ GensBounded /\ QueueShape /\ DepthsSorted
  BY DEF IInv
<1>2. CASE \E refresh \in BOOLEAN : BeginCrawl(refresh)
  <2> DEFINE q == Queued(Seeds, 0)
  <2>1. crawl'.found = Elements(Seeds) /\ crawl'.queue = q
    BY <1>1, <1>2, CrawlBegins
  <2>2. Len(q) \in Nat /\ \A i \in 1..Len(q) : q[i].depth = 0
    BY SeedsQueued
  <2>3. site' = site
    BY <1>2 DEF BeginCrawl
  <2>4. \A n : Within(n)' = Within(n)
    BY <2>3, SameSite
  <2> HIDE DEF q
  <2>5. Len(q) > 0 => q[1].depth = 0
    BY <2>2
  <2> QED BY <2>1, <2>2, <2>4, <2>5, WithinSeeds
<1>3. CASE Full /\ site' = site /\ (FetchPage \/ SaveRow \/ Beside)
  <2>1. /\ \A n \in Nat : Len(crawl.queue) > 0 /\ n = crawl.queue[1].depth
                            => Within(n) \subseteq crawl.found
        /\ \A i \in 1..Len(crawl.queue), n \in Nat :
             n < crawl.queue[i].depth => crawl.queue[i].url \notin Within(n)
    BY <1>3 DEF IInv, Frontier
  <2>2. \A n : Within(n)' = Within(n)
    BY <1>3, SameSite
  <2>3. CASE SaveRow \/ Beside
    <3>1. crawl'.queue = crawl.queue /\ crawl'.found = crawl.found
      BY <1>1, <2>3, RowSaved, BesideCrawl
    <3> QED BY <2>1, <2>2, <3>1
  <2>4. CASE FetchPage
    <3> DEFINE links == NewLinks(Cur.url, Cur.depth, site[Cur.url])
               q == crawl.queue
               c == crawl'.queue
               d == Cur.depth
    <3>1. Takes(links)
      BY <1>1, <2>4, PageFetch
    <3>2. /\ Len(q) \in Nat \ {0} /\ d = q[1].depth /\ d \in Nat
          /\ Len(c) \in Nat /\ Len(c) >= Len(q) - 1
          /\ \A i \in 1..Len(q) - 1 : c[i] = q[i + 1]
          /\ \A i \in Len(q)..Len(c) : c[i].url \in links /\ c[i].depth = d + 1
      BY <1>1, <2>4, <3>1, NextQueue, ReadyTypes DEF FetchPage
    <3>3. /\ crawl'.found = crawl.found \cup links /\ links \cap crawl.found = {}
          /\ links # {} => d < MaxDepth
      BY <3>1 DEF Takes
    <3>4. Within(d) \subseteq crawl.found
      BY <2>1, <3>2
    <3>5. DepthsSorted' /\ MaxDepth \in Nat
      BY <1>1, <3>1, TakenDepths, CrawlAssumption
    <3>6. \A i \in 1..Len(q) : q[i].depth \in {d, d + 1}
      <4>1. \A i \in 1..Len(q) : q[i].depth \in Nat
        <5>1. q \in Seq(Item)
          BY <1>1, <3>1, NextQueue
        <5>2. \A i \in 1..Len(q) : q[i] \in Item
          BY <5>1, ElementOfSeq
        <5> QED BY <5>2 DEF Item
      <4>2. \A i \in 1..Len(q) : q[1].depth <= q[i].depth /\ q[i].depth <= q[1].depth + 1
        <5>1. 1 \in 1..Len(q) /\ \A i \in 1..Len(q) : 1 <= i
          BY <3>2
        <5>2. \A i \in 1..Len(q) : q[i].depth <= q[1].depth + 1
          BY <1>1 DEF DepthsSorted
        <5>3. \A i, j \in 1..Len(q) : i <= j => q[i].depth <= q[j].depth
          BY <1>1 DEF DepthsSorted
        <5> QED BY <5>1, <5>2, <5>3
      <4>3. d = q[1].depth /\ d \in Nat
        BY <3>2
      <4> HIDE DEF q, d
      <4>4. SUFFICES ASSUME NEW i \in 1..Len(q) PROVE q[i].depth \in {d, d + 1}
        OBVIOUS
      <4>5. q[i].depth \in Nat /\ d <= q[i].depth /\ q[i].depth <= d + 1
        BY <4>1, <4>2, <4>3
      <4> QED BY <4>3, <4>5
    <3> HIDE DEF q, c, d, links
    <3>7. \A i \in 1..Len(c), n \in Nat : n < c[i].depth => c[i].url \notin Within(n)
      <4> SUFFICES ASSUME NEW i \in 1..Len(c), NEW n \in Nat, n < c[i].depth
                   PROVE  c[i].url \notin Within(n)
        OBVIOUS
      <4>1. CASE i \in 1..Len(q) - 1
        <5>1. i + 1 \in 1..Len(q) /\ c[i] = q[i + 1]
          BY <3>2, <4>1
        <5> QED BY <2>1, <5>1 DEF q
      <4>2. CASE i \in Len(q)..Len(c)
        <5>1. n <= d /\ c[i].url \notin crawl.found
          BY <3>2, <3>3, <4>2
        <5> QED BY <3>2, <3>4, <5>1, WithinGrows
      <4> QED BY <3>2, <4>1, <4>2
    <3>8. \A i \in 1..Len(c) : c[i].depth \in {d, d + 1}
      <4> SUFFICES ASSUME NEW i \in 1..Len(c) PROVE c[i].depth \in {d, d + 1}
        OBVIOUS
      <4>1. CASE i \in 1..Len(q) - 1
        <5>1. i + 1 \in 1..Len(q) /\ c[i] = q[i + 1]
          BY <3>2, <4>1
        <5> QED BY <3>6, <5>1
      <4>2. CASE i \in Len(q)..Len(c)
        BY <3>2, <4>2
      <4> QED BY <3>2, <4>1, <4>2
    <3>9. ASSUME Len(c) > 0, c[1].depth = d + 1
          PROVE  Within(d + 1) \subseteq crawl'.found
      <4> SUFFICES ASSUME NEW u \in Within(d + 1), u \notin Within(d)
                   PROVE  u \in crawl'.found
        BY <3>3, <3>4
      <4>1. PICK w \in Within(d) : site[w] # Gone /\ u \in LinksOf[site[w]]
        BY <3>2, WithinSplits
      <4>2. 1 \in 1..Len(c) /\ \A i \in 1..Len(c) : 1 <= i
        BY <3>2, <3>9
      <4>3. \A i \in 1..Len(c) : c[1].depth <= c[i].depth /\ c[1].depth <= MaxDepth
        BY <3>5, <4>2 DEF DepthsSorted, c
      <4>4. \A i \in 1..Len(c) : d < c[i].depth
        BY <3>2, <3>8, <3>9, <4>3
      <4>5. w \notin QueuedUrls'
        BY <3>2, <3>7, <4>4 DEF QueuedUrls, c
      <4>6. w \in Fetched'
        BY <3>3, <3>4, <4>5 DEF Fetched
      <4>7. d < MaxDepth
        BY <3>2, <3>5, <3>9, <4>2, <4>3
      <4>8. Followed'
        BY FollowedStep
      <4> QED BY <1>3, <2>2, <3>2, <4>1, <4>6, <4>7, <4>8 DEF Followed
    <3>10. \A n \in Nat : Len(c) > 0 /\ n = c[1].depth => Within(n) \subseteq crawl'.found
      <4> SUFFICES ASSUME Len(c) > 0 PROVE Within(c[1].depth) \subseteq crawl'.found
        OBVIOUS
      <4>1. c[1].depth = d \/ c[1].depth = d + 1
        BY <3>2, <3>8
      <4>2. CASE c[1].depth = d
        BY <3>3, <3>4, <4>2
      <4>3. CASE c[1].depth = d + 1
        BY <3>9, <4>3
      <4> QED BY <4>1, <4>2, <4>3
    <3> QED BY <2>2, <3>7, <3>10 DEF c
  <2> QED BY <1>3, <2>3, <2>4
<1> QED BY <1>1, <1>2, <1>3, FullStep

LEMMA RecordedStep == IInv /\ [Next]_vars => Recorded'
<1> SUFFICES ASSUME IInv, [Next]_vars, Full'
             PROVE  /\ Saving' => /\ crawl'.save.row.hash = site'[crawl'.save.url]
                                  /\ crawl'.save.row.seenGen = crawl'.gen
                                  /\ crawl'.save.row.missing = 0
                    /\ \A v \in Fetched' : \/ Saving' /\ crawl'.save.url = v
                                          \/ RowIsFresh(v)'
  BY DEF Recorded
<1>1. TypeOK /\ GensBounded /\ QueueShape
  BY DEF IInv
<1>2. CASE \E refresh \in BOOLEAN : BeginCrawl(refresh)
  BY <1>1, <1>2, CrawlBegins DEF Fetched, Saving
<1>3. CASE Full /\ site' = site /\ (FetchPage \/ SaveRow \/ Beside)
  <2>1. /\ Saving => /\ crawl.save.row.hash = site[crawl.save.url]
                     /\ crawl.save.row.seenGen = crawl.gen /\ crawl.save.row.missing = 0
        /\ \A v \in Fetched : (Saving /\ crawl.save.url = v) \/ RowIsFresh(v)
    BY <1>3 DEF IInv, Recorded
  <2>2. CASE FetchPage
    <3>1. Ready /\ pages' = pages
      BY <2>2 DEF FetchPage
    <3>2. /\ Takes(NewLinks(Cur.url, Cur.depth, site[Cur.url]))
          /\ crawl'.gen = crawl.gen /\ crawl'.quiet = crawl.quiet
          /\ crawl'.save.url = Cur.url /\ crawl'.save.row.hash = site[Cur.url]
          /\ crawl'.save.row.seenGen = crawl.gen /\ crawl'.save.row.missing = 0
          /\ crawl'.save # NoSave
      BY <1>1, <2>2, PageFetch
    <3>3. Fetched' = Fetched \cup {Cur.url}
      BY <1>1, <3>2, TakenUrls
    <3>4. \A v \in Fetched : RowIsFresh(v)
      BY <2>1, <3>1 DEF Ready, Saving
    <3>5. \A v \in Fetched : RowIsFresh(v)'
      BY <1>3, <3>1, <3>2, <3>4 DEF RowIsFresh
    <3> QED BY <1>3, <3>2, <3>3, <3>5 DEF Saving
  <2>3. CASE SaveRow
    <3>1. Saving /\ crawl'.save = NoSave
      BY <2>3, <1>1, RowSaved DEF SaveRow, Saving
    <3>2. Fetched' = Fetched /\ crawl'.gen = crawl.gen /\ crawl'.quiet = crawl.quiet
      BY <1>1, <2>3, RowSaved DEF Fetched, QueuedUrls
    <3>3. PICK u \in Urls : u = crawl.save.url
      BY <1>1, <2>3, RowSaved
    <3>4. crawl'.clean
      BY DEF Full
    <3>5. RowIsFresh(u)'
      <4>1. /\ pages'[u] # NoPage /\ pages'[u].hash = crawl.save.row.hash
            /\ pages'[u].seenGen = crawl.save.row.seenGen
            /\ pages'[u].missing = crawl.save.row.missing
        BY <1>1, <2>3, <3>3, <3>4, RowSaved DEF Full
      <4> QED BY <1>3, <2>1, <3>1, <3>2, <3>3, <4>1 DEF RowIsFresh
    <3>6. ASSUME NEW v \in Fetched, v # u
          PROVE  RowIsFresh(v)'
      <4>1. v \in Urls
        BY <1>1 DEF Fetched, TypeOK, Crawl
      <4>2. pages'[v] = pages[v]
        BY <1>1, <2>3, <3>3, <3>6, <4>1, RowSaved
      <4>3. RowIsFresh(v)
        BY <2>1, <3>3, <3>6
      <4> QED BY <1>3, <3>2, <4>2, <4>3 DEF RowIsFresh
    <3> QED BY <3>1, <3>2, <3>5, <3>6 DEF Saving
  <2>4. CASE Beside
    <3>1. /\ Fetched' = Fetched /\ Saving' = Saving /\ crawl'.save = crawl.save
          /\ crawl'.gen = crawl.gen
      BY <1>1, <2>4, BesideCrawl DEF Fetched, QueuedUrls, Saving
    <3>2. ASSUME NEW v \in Fetched, RowIsFresh(v)
          PROVE  RowIsFresh(v)'
      <4>1. v \in Urls
        BY <1>1 DEF Fetched, TypeOK, Crawl
      <4>2. pages'[v] # NoPage => pages[v] # NoPage /\ pages'[v].seenGen = pages[v].seenGen
        BY <1>1, <2>4, <4>1, BesideCrawl
      <4>3. crawl'.quiet => crawl.quiet /\ pages' = pages
        BY <1>1, <2>4, BesideCrawl
      <4> QED BY <1>3, <3>1, <3>2, <4>2, <4>3 DEF RowIsFresh
    <3> QED BY <1>3, <2>1, <3>1, <3>2
  <2> QED BY <1>3, <2>2, <2>3, <2>4
<1> QED BY <1>1, <1>2, <1>3, FullStep

LEMMA InductiveInit == Init => IInv
<1> SUFFICES ASSUME Init PROVE IInv
  OBVIOUS
<1>1. TypeOK
  BY TypeInit
<1>2. /\ crawl.queue = <<>> /\ crawl.found = {} /\ crawl.save = NoSave /\ ~ crawl.on
      /\ crawl.gen = 0 /\ crawls = 0
      /\ \A u \in Urls : pages[u] = NoPage /\ crawl.prev[u] = NoPage
  BY OffIsCrawl DEF Init
<1>3. Len(crawl.queue) = 0 /\ QueuedUrls = {}
  BY <1>2 DEF QueuedUrls
<1>4. GensBounded
  BY <1>2 DEF GensBounded, Saving
<1>5. QueueShape /\ DepthsSorted
  BY <1>2, <1>3 DEF QueueShape, DepthsSorted, Saving
<1>6. Matching
  BY <1>2 DEF Matching, RowMatchesDocument, Rows, Saving
<1>7. Frontier /\ Followed /\ Recorded
  BY <1>2 DEF Frontier, Followed, Recorded, Full
<1> QED BY <1>1, <1>4, <1>5, <1>6, <1>7 DEF IInv

LEMMA InductiveStep == IInv /\ [Next]_vars => IInv'
BY TypeStep, GensStep, ShapeStep, MatchingStep, FrontierStep, FollowedStep, RecordedStep
   DEF IInv

LEMMA Inductive == Spec => []IInv
BY InductiveInit, InductiveStep, PTL DEF Spec

\* A full crawl with an empty queue has found all that is within MaxDepth links.
LEMMA AllFound ==
  ASSUME IInv, Full, crawl.queue = <<>>
  PROVE  Reachable \subseteq crawl.found
<1>1. MaxDepth \in Nat
  BY CrawlAssumption
<1>2. Fetched = crawl.found
  BY DEF Fetched, QueuedUrls
<1>3. Followed
  BY DEF IInv
<1> DEFINE Covered == {n \in 0..MaxDepth : Within(n) \subseteq crawl.found}
<1>4. 0 \in Covered
  BY <1>1, <1>3, WithinSeeds DEF Followed
<1>5. Covered \in SUBSET Nat /\ Covered # {} /\ \A n \in Covered : n <= MaxDepth
  BY <1>1, <1>4
<1> HIDE DEF Covered
<1>6. PICK m \in Covered : \A n \in Covered : n <= m
  BY <1>1, <1>5, Greatest
<1>7. m \in 0..MaxDepth /\ Within(m) \subseteq crawl.found
  BY DEF Covered
<1>8. m = MaxDepth
  <2> SUFFICES ASSUME m < MaxDepth PROVE m + 1 \in Covered
    BY <1>1, <1>6, <1>7
  <2>1. ASSUME NEW u \in Within(m + 1), u \notin Within(m)
        PROVE  u \in crawl.found
    <3>1. PICK w \in Within(m) : site[w] # Gone /\ u \in LinksOf[site[w]]
      BY <1>7, <2>1, WithinSplits
    <3> QED BY <1>2, <1>3, <1>7, <3>1 DEF Followed
  <2>2. m + 1 \in 0..MaxDepth
    BY <1>1, <1>7
  <2> QED BY <1>7, <2>1, <2>2 DEF Covered
<1> QED BY <1>7, <1>8 DEF Reachable

\* The end of a full crawl leaves the rows of the live pages as they are.
LEMMA EndSparesLive ==
  ASSUME IInv, Full, EndCrawl, NEW u \in Live
  PROVE  RowIsFresh(u) /\ pages'[u] = pages[u]
<1>1. u \in Fetched /\ ~ Saving
  BY AllFound DEF EndCrawl, Live, Fetched, QueuedUrls, Saving
<1>2. RowIsFresh(u)
  BY <1>1 DEF IInv, Recorded
<1>3. TypeOK /\ u \in Urls /\ crawl.gen \in Nat
  BY DEF IInv, TypeOK, Crawl, Live, Reachable, Within
<1>4. pages[u] = NoPage \/ ~ (pages[u].seenGen < crawl.gen)
  BY <1>2, <1>3 DEF RowIsFresh
<1> QED BY <1>2, <1>3, <1>4, MissingCounted

\* Only a crawl that ends, or a row written with a greater count, misses a page.
LEMMA NoneMissed ==
  ASSUME IInv, [Next]_vars, Full \/ ~ crawl.on, ~ EndCrawl
  PROVE  Missed = {}
<1>1. TypeOK /\ GensBounded
  BY DEF IInv
<1>2. SUFFICES ASSUME NEW u \in Urls, pages[u] # NoPage, pages'[u] # NoPage
               PROVE  ~ (pages'[u].missing > pages[u].missing)
  BY DEF Missed, Rows
<1>3. pages[u].missing \in Nat
  BY <1>1, <1>2 DEF TypeOK, Page
<1>4. CASE pages' = pages
  BY <1>3, <1>4
<1>5. CASE Beside
  <2>1. pages'[u].missing = pages[u].missing
    BY <1>1, <1>2, <1>5, BesideCrawl
  <2> QED BY <1>3, <2>1
<1>6. CASE SaveRow
  <2>1. Full /\ Saving
    BY <1>6 DEF SaveRow, Saving
  <2>2. crawl.save.row.missing = 0
    BY <2>1 DEF IInv, Recorded
  <2>3. pages'[u] = pages[u] \/ pages'[u].missing = 0
    BY <1>1, <1>6, <2>2, RowSaved
  <2> QED BY <1>3, <2>3
<1> QED BY <1>4, <1>5, <1>6 DEF Next, CrawlStep, Beside, BeginCrawl, FetchFails, NothingStored,
                               NotModified, FetchPage, StopCrawl

LEMMA LiveStep ==
  ASSUME IInv, [Next]_vars, crawl.clean, ~ crawl.refresh
  PROVE  /\ Missed \cap Live = {}
         /\ EndCrawl /\ crawl.quiet =>
              \A u \in Live : /\ pages'[u] # NoPage /\ pages'[u].hash = site[u]
                              /\ pages'[u].missing = 0
<1>1. CASE EndCrawl
  <2>1. Full
    BY <1>1 DEF EndCrawl, Full
  <2>2. ASSUME NEW u \in Live
        PROVE  /\ u \notin Missed
               /\ crawl.quiet => /\ pages'[u] # NoPage /\ pages'[u].hash = site[u]
                                 /\ pages'[u].missing = 0
    <3>1. RowIsFresh(u) /\ pages'[u] = pages[u]
      BY <1>1, <2>1, <2>2, EndSparesLive
    <3>2. pages[u] # NoPage => pages[u].missing \in Nat
      BY DEF IInv, TypeOK, Page, Live, Reachable, Within
    <3> QED BY <3>1, <3>2 DEF RowIsFresh, Missed, Rows
  <2> QED BY <2>2
<1>2. CASE ~ EndCrawl
  <2>1. Full \/ ~ crawl.on
    BY DEF Full
  <2> QED BY <1>2, <2>1, NoneMissed
<1> QED BY <1>1, <1>2
-----------------------------------------------------------------------------
(* The state of the crawl, of the rows and of the prune always has the     *)
(* types of web/crawl.go and of the web_pages table.                       *)
THEOREM CrawlTypes == Spec => []TypeOK
<1>1. IInv => TypeOK
  BY DEF IInv
<1> QED BY <1>1, Inductive, PTL

(* A page's row claims the hash that its document holds, save between the  *)
(* crawl's two writes and where a stop fell between them: so a page that   *)
(* CrawlSite skips as unchanged is the page that search returns.           *)
THEOREM RowsMatchDocuments == Spec => []RowMatchesDocument
<1>1. IInv => RowMatchesDocument
  BY DEF IInv, Matching
<1> QED BY <1>1, Inductive, PTL

(* MarkMissingWebPages after a full crawl in which nothing failed counts   *)
(* no page as missing that the site links within MaxDepth and serves; and  *)
(* if nobody deleted anything meanwhile each of them has a current row.    *)
THEOREM FullCrawlsFindLive == Spec => FullCrawlFindsLive
<1>1. IInv /\ [Next]_vars =>
        [crawl.clean /\ ~ crawl.refresh =>
           /\ Missed \cap Live = {}
           /\ EndCrawl /\ crawl.quiet =>
                \A u \in Live : /\ pages'[u] # NoPage /\ pages'[u].hash = site[u]
                                /\ pages'[u].missing = 0]_vars
  BY LiveStep
<1> QED BY <1>1, Inductive, PTL DEF Spec, FullCrawlFindsLive
=============================================================================
