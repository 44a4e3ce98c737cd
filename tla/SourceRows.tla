----------------------------- MODULE SourceRows -----------------------------
(***************************************************************************)
(* The per-source tables web_pages and repo_files on top of DocumentStore. *)
(* A row links a page or file of a source to a document (ON DELETE SET     *)
(* NULL).  Two sweeps, PruneWebPages and DeleteRepoFilesNotSeen, read the  *)
(* stale rows and then delete each one's document and the row itself, one  *)
(* statement at a time, outside a transaction and without retracting the   *)
(* statistics; DeleteRepoFileByPath does the same for one row.             *)
(*                                                                         *)
(* "stale" stands for the sweep's WHERE clause: missing_count >= threshold *)
(* for a page, last_seen_generation < generation for a file.  WebCrawl and *)
(* RepoSync model how a row becomes stale.                                 *)
(***************************************************************************)
EXTENDS DocumentStore

CONSTANTS
  WebSources,   \* names in web_sources
  RepoSources,  \* names in repo_sources
  Keys,         \* page URLs, file paths
  Sweepers,     \* goroutines inside a sweep
  MaxRowId      \* bound on the AUTOINCREMENT row id

ASSUME RowsAssumption == MaxRowId \in Nat

VARIABLES
  rows,       \* rows of web_pages and repo_files
  nextRowId,  \* the next row id
  sweep       \* per sweeper: the captured rows still to delete

rowVars == <<rows, nextRowId, sweep>>

Sources == WebSources \cup RepoSources

Row == [id : Nat, source : Sources, key : Keys, doc : Nat, stale : BOOLEAN]
\* What the SELECT of a sweep returned for a row, and whether the statement
\* that deletes its document has run.
Captured == [id : Nat, doc : Nat, docDone : BOOLEAN]

RowsTypeOK ==
  /\ rows \in SUBSET Row
  /\ nextRowId \in Nat
  /\ sweep \in [Sweepers -> SUBSET Captured]

Init ==
  /\ StoreInit
  /\ rows = {}
  /\ nextRowId = 1
  /\ sweep = [k \in Sweepers |-> {}]
-----------------------------------------------------------------------------
\* ON DELETE SET NULL, for the documents that a step removes.
SetNull(rs) == {[r EXCEPT !.doc = IF @ \in Ids(documents') THEN @ ELSE 0] : r \in rs}

\* A step of the document tables.
DocumentStep ==
  /\ StoreNext
  /\ rows' = SetNull(rows)
  /\ UNCHANGED <<nextRowId, sweep>>

\* UpsertWebPage, UpsertRepoFile: the link is NULL or an existing document
\* (any other id is refused by the foreign key, and nothing changes).  The
\* SELECT and the INSERT or UPDATE are two statements, but what runs between
\* them shows only in a write that fails (UNIQUE) or hits no row.  Whether the
\* source still exists is not tracked.
UpsertRow(s, k, doc, stale) ==
  /\ doc \in Ids(documents) \cup {0}
  /\ \/ \E r \in rows :
          /\ r.source = s /\ r.key = k
          /\ rows' = (rows \ {r}) \cup {[r EXCEPT !.doc = doc, !.stale = stale]}
          /\ nextRowId' = nextRowId
     \/ /\ \A r \in rows : r.source # s \/ r.key # k
        /\ nextRowId <= MaxRowId
        /\ rows' = rows \cup
             {[id |-> nextRowId, source |-> s, key |-> k, doc |-> doc, stale |-> stale]}
        /\ nextRowId' = nextRowId + 1
  /\ UNCHANGED <<storeVars, sweep>>

\* MarkMissingWebPages, and the new generation of a repository refresh.
MarkStale(s, ks) ==
  /\ rows' = {IF r.source = s /\ r.key \in ks THEN [r EXCEPT !.stale = TRUE] ELSE r : r \in rows}
  /\ UNCHANGED <<storeVars, nextRowId, sweep>>

Capture(rs) == {[id |-> r.id, doc |-> r.doc, docDone |-> FALSE] : r \in rs}

\* The SELECT of PruneWebPages and of DeleteRepoFilesNotSeen.
BeginSweep(p, s) ==
  /\ sweep[p] = {}
  /\ sweep' = [sweep EXCEPT ![p] = Capture({r \in rows : r.source = s /\ r.stale})]
  /\ UNCHANGED <<storeVars, rows, nextRowId>>

\* The SELECT of DeleteRepoFileByPath.
BeginDeleteByPath(p, s, k) ==
  /\ sweep[p] = {}
  /\ sweep' = [sweep EXCEPT ![p] = Capture({r \in rows : r.source = s /\ r.key = k})]
  /\ UNCHANGED <<storeVars, rows, nextRowId>>

\* DELETE FROM documents WHERE id = ?, with its cascade and no retraction.
DeleteRowsDocument(id) ==
  /\ documents' = {d \in documents : d.id # id}
  /\ chunks' = chunks \ ChunksOf({id})
  /\ UNCHANGED <<df, chunkCount, nextId, pending>>

SweepDocument(p) ==
  \E c \in sweep[p] :
    /\ \A x \in sweep[p] : ~ x.docDone
    /\ DeleteRowsDocument(c.doc)
    /\ rows' = SetNull(rows)
    /\ sweep' = [sweep EXCEPT ![p] = (@ \ {c}) \cup {[c EXCEPT !.docDone = TRUE]}]
    /\ UNCHANGED nextRowId

SweepRow(p) ==
  \E c \in sweep[p] :
    /\ c.docDone
    /\ rows' = {r \in rows : r.id # c.id}
    /\ sweep' = [sweep EXCEPT ![p] = @ \ {c}]
    /\ UNCHANGED <<storeVars, nextRowId>>

\* An error or a crash leaves what the sweep has deleted so far.
AbortSweep(p) ==
  /\ sweep[p] # {}
  /\ sweep' = [sweep EXCEPT ![p] = {}]
  /\ UNCHANGED <<storeVars, rows, nextRowId>>

\* One transaction: retract, delete the linked documents, delete the source.
DeleteWebSource(s) ==
  /\ Retract({d \in documents : \E r \in rows : r.source = s /\ r.doc = d.id})
  /\ rows' = SetNull({r \in rows : r.source # s})
  /\ UNCHANGED <<nextRowId, sweep>>

\* The second statement of DeleteRepoSource; the first is the step
\* DeleteDocumentsByURIPrefix of the root's prefix.
DeleteRepoSource(s) ==
  /\ rows' = {r \in rows : r.source # s}
  /\ UNCHANGED <<storeVars, nextRowId, sweep>>

Next ==
  \/ DocumentStep
  \/ \E s \in Sources, k \in Keys, doc \in 0..MaxDocId, stale \in BOOLEAN :
       UpsertRow(s, k, doc, stale)
  \/ \E s \in Sources, ks \in SUBSET Keys : MarkStale(s, ks)
  \/ \E p \in Sweepers :
       \/ \E s \in Sources : BeginSweep(p, s)
       \/ \E s \in RepoSources, k \in Keys : BeginDeleteByPath(p, s, k)
       \/ SweepDocument(p)
       \/ SweepRow(p)
       \/ AbortSweep(p)
  \/ \E s \in WebSources : DeleteWebSource(s)
  \/ \E s \in RepoSources : DeleteRepoSource(s)

vars == <<storeVars, rowVars>>

Spec == Init /\ [][Next]_vars
-----------------------------------------------------------------------------
(* Properties *)

TypeOK == StoreTypeOK /\ RowsTypeOK

(* Whatever the sweeps and the deletes do in whatever order, a running     *)
(* counter is never below what a scan would count: a term that is indexed  *)
(* is never weighted, nor looked up, as rarer than it is.                  *)
NeverUndercounts ==
  \A r \in Roots :
    /\ chunkCount[r] >= Cardinality(InRoot(chunks, r))
    /\ \A t \in Terms : df[r][t] >= Cardinality(Postings(chunks, r, t))

(* df / N, which selectLookupTerms compares with maxLookupDFRatio, is a    *)
(* ratio: no term is counted in more chunks than the root is said to have. *)
DfWithinChunkCount ==
  \A r \in Roots, t \in Terms : df[r][t] <= chunkCount[r]

\* How far a running counter is above the scan.
DfExcess(r, t) == df[r][t] - Cardinality(Postings(chunks, r, t))
CountExcess(r) == chunkCount[r] - Cardinality(InRoot(chunks, r))

(* Ingests that race, replace or move a document, and every delete but one *)
(* change the counters by exactly what they do to the chunk rows; only the *)
(* delete of a sweep leaves some behind, and no later step repairs that.   *)
OnlySweepsDrift ==
  [][\/ \A r \in Roots :
          /\ CountExcess(r)' = CountExcess(r)
          /\ \A t \in Terms : DfExcess(r, t)' = DfExcess(r, t)
     \/ /\ \E p \in Sweepers : SweepDocument(p)
        /\ \A r \in Roots :
             /\ CountExcess(r)' >= CountExcess(r)
             /\ \A t \in Terms : DfExcess(r, t)' >= DfExcess(r, t)]_vars

\* What a search finds of chunks: their order, their root and their terms.
Shown(cs) == {[ord |-> c.ord, root |-> c.root, terms |-> c.terms] : c \in cs}

\* What is to be found of a content that is stored whole.
Whole(r, h) == Shown(NewChunks(0, r, h))

DocumentAt(docs, u) == CHOOSE d \in docs : d.uri = u

\* The refinement mapping: the document under a URI with its chunk rows.
Held ==
  [u \in {d.uri : d \in documents} |->
    LET id == DocumentAt(documents, u).id
    IN  [id |-> id, entry |-> Shown(ChunksOf({id}))]]

Readers == INSTANCE Corpus WITH
  Numbers <- 1 .. MaxDocId, Entries <- {Whole(r, h) : r \in Roots, h \in Contents},
  held <- Held, given <- 1 .. (nextId - 1)

(* Through racing ingests, replacements, moves, every delete and the       *)
(* two-step sweeps, each step changes what is found of one document as a   *)
(* whole, by the chunks of one content under one root, or takes documents  *)
(* away with all their chunks; none shows a part, a mixture or another     *)
(* document under the id that a row still holds.                           *)
ImplementsCorpus == Readers!Spec
=============================================================================
