--------------------------- MODULE DocumentStore ---------------------------
(***************************************************************************)
(* The corpus tables of store/: documents, their chunks with the semantic  *)
(* terms of each, and the two running statistics that query-time IDF reads *)
(* instead of the postings, term_df and root_chunk_stats.  A SQLite        *)
(* transaction is one action; what the code does outside a transaction is  *)
(* an action of its own.                                                   *)
(***************************************************************************)
EXTENDS Naturals, FiniteSets, Sequences

CONSTANTS
  Uris,        \* document URIs
  Roots,       \* knowledge roots (root_name)
  Terms,       \* semantic terms
  Contents,    \* file contents, each standing for its own hash
  ChunkTerms,  \* the chunks of a content: the set of terms of each, in order
  UriPrefixes, \* arguments of DeleteDocumentsByURIPrefix
  LikeMatch,   \* the URIs each prefix selects (LIKE ignores ASCII case)
  Writers,     \* goroutines inside UpsertDocument
  NoWrite,     \* a writer that holds no request
  MaxDocId     \* bound on the AUTOINCREMENT document id

ASSUME StoreAssumption ==
  /\ ChunkTerms \in [Contents -> Seq(SUBSET Terms)]
  /\ LikeMatch \in [UriPrefixes -> SUBSET Uris]
  /\ MaxDocId \in Nat

VARIABLES
  documents,   \* rows of documents
  chunks,      \* rows of chunks, each with its row of chunk_term_vectors
  df,          \* term_df, 0 for an absent row
  chunkCount,  \* root_chunk_stats, 0 for an absent row
  nextId,      \* the next document id
  pending      \* per writer: a request that missed the hash check

storeVars == <<documents, chunks, df, chunkCount, nextId, pending>>

Document == [id : Nat, uri : Uris, root : Roots, hash : Contents]
Chunk    == [doc : Nat, ord : Nat, root : Roots, terms : SUBSET Terms]
Request  == [uri : Uris, root : Roots, hash : Contents]

ASSUME NoWriteAssumption == NoWrite \notin Request

StoreTypeOK ==
  /\ documents \in SUBSET Document
  /\ chunks \in SUBSET Chunk
  /\ IsFiniteSet(chunks)
  /\ df \in [Roots -> [Terms -> Nat]]
  /\ chunkCount \in [Roots -> Nat]
  /\ nextId \in Nat
  /\ pending \in [Writers -> Request \cup {NoWrite}]

StoreInit ==
  /\ documents = {}
  /\ chunks = {}
  /\ df = [r \in Roots |-> [t \in Terms |-> 0]]
  /\ chunkCount = [r \in Roots |-> 0]
  /\ nextId = 1
  /\ pending = [w \in Writers |-> NoWrite]
-----------------------------------------------------------------------------
(* Helpers *)

Ids(docs) == {d.id : d \in docs}

ChunksOf(ids) == {c \in chunks : c.doc \in ids}

InRoot(cs, r) == {c \in cs : c.root = r}

\* The rows of chunk_term_postings of root r and term t.
Postings(cs, r, t) == {c \in cs : c.root = r /\ t \in c.terms}

\* The chunk rows that UpsertDocument inserts for document id.
NewChunks(id, root, hash) ==
  {[doc |-> id, ord |-> i, root |-> root, terms |-> ChunkTerms[hash][i]] :
     i \in 1..Len(ChunkTerms[hash])}

\* Mutated form: the floor compares the new count with half of the delta.
RetractedPastZero(count, n) == IF count >= n THEN count - 2 * n ELSE 0

\* A counter row after a negative delta: kept while positive, else deleted.
Retracted(count, n) == IF count > n THEN count - n ELSE 0

DfAfter(gone, new) ==
  [r \in Roots |-> [t \in Terms |->
     Retracted(df[r][t], Cardinality(Postings(gone, r, t)))
       + Cardinality(Postings(new, r, t))]]

\* Mutated form: one count per document instead of one per chunk.
ChunkCountPerDocument(gone, new) ==
  [r \in Roots |->
     Retracted(chunkCount[r], Cardinality({c.doc : c \in InRoot(gone, r)}))
       + Cardinality({c.doc : c \in InRoot(new, r)})]

ChunkCountAfter(gone, new) ==
  [r \in Roots |->
     Retracted(chunkCount[r], Cardinality(InRoot(gone, r)))
       + Cardinality(InRoot(new, r))]
-----------------------------------------------------------------------------
(* UpsertDocument: a hash check on its own connection turn, then one       *)
(* transaction.  Between the two, other writers and deletes may run.       *)

MissHash(w, u, r, h) ==
  /\ pending[w] = NoWrite
  /\ ~ \E d \in documents : d.uri = u /\ d.hash = h
  /\ pending' = [pending EXCEPT ![w] = [uri |-> u, root |-> r, hash |-> h]]
  /\ UNCHANGED <<documents, chunks, df, chunkCount, nextId>>

\* Mutated form: the old chunks are deleted without retracting them.
ReplaceWithoutRetracting(old, id, in) ==
  LET new == NewChunks(id, in.root, in.hash)
  IN  /\ documents' = (documents \ old) \cup
                        {[id |-> id, uri |-> in.uri, root |-> in.root, hash |-> in.hash]}
      /\ chunks' = (chunks \ ChunksOf(Ids(old))) \cup new
      /\ df' = DfAfter({}, new)
      /\ chunkCount' = ChunkCountAfter({}, new)

\* The body of the transaction, for a document row that is replaced (old =
\* {d}) or inserted (old = {}).
Replace(old, id, in) ==
  LET gone == ChunksOf(Ids(old))
      new  == NewChunks(id, in.root, in.hash)
  IN  /\ documents' = (documents \ old) \cup
                        {[id |-> id, uri |-> in.uri, root |-> in.root, hash |-> in.hash]}
      /\ chunks' = (chunks \ gone) \cup new
      /\ df' = DfAfter(gone, new)
      /\ chunkCount' = ChunkCountAfter(gone, new)

CommitUpsert(w) ==
  /\ pending[w] # NoWrite
  /\ \/ /\ \A d \in documents : d.uri # pending[w].uri
        /\ nextId <= MaxDocId
        /\ Replace({}, nextId, pending[w])
        /\ nextId' = nextId + 1
     \/ /\ \E d \in documents :
             /\ d.uri = pending[w].uri
             /\ Replace({d}, d.id, pending[w])
        /\ nextId' = nextId
  /\ pending' = [pending EXCEPT ![w] = NoWrite]

\* An error or a cancelled context rolls the transaction back.
AbortUpsert(w) ==
  /\ pending[w] # NoWrite
  /\ pending' = [pending EXCEPT ![w] = NoWrite]
  /\ UNCHANGED <<documents, chunks, df, chunkCount, nextId>>
-----------------------------------------------------------------------------
(* Deletes.  Retract is the transaction of store.go, librarian.go and      *)
(* DeleteWebSource: the statistics first, then the rows and their cascade. *)

\* Mutated form: the chunk rows of the deleted documents stay.
RetractWithoutCascade(gone) ==
  /\ documents' = documents \ gone
  /\ df' = DfAfter(ChunksOf(Ids(gone)), {})
  /\ chunkCount' = ChunkCountAfter(ChunksOf(Ids(gone)), {})
  /\ UNCHANGED <<chunks, nextId, pending>>

Retract(gone) ==
  /\ documents' = documents \ gone
  /\ chunks' = chunks \ ChunksOf(Ids(gone))
  /\ df' = DfAfter(ChunksOf(Ids(gone)), {})
  /\ chunkCount' = ChunkCountAfter(ChunksOf(Ids(gone)), {})
  /\ UNCHANGED <<nextId, pending>>

DeleteDocument(u) ==
  \E d \in documents : d.uri = u /\ Retract({d})

DeleteDocumentsByURIPrefix(p) ==
  Retract({d \in documents : d.uri \in LikeMatch[p]})

DeleteDocumentsWithoutChunks ==
  Retract({d \in documents : ChunksOf({d.id}) = {}})

StoreNext ==
  \/ \E w \in Writers :
       \/ \E u \in Uris, r \in Roots, h \in Contents : MissHash(w, u, r, h)
       \/ CommitUpsert(w)
       \/ AbortUpsert(w)
  \/ \E u \in Uris : DeleteDocument(u)
  \/ \E p \in UriPrefixes : DeleteDocumentsByURIPrefix(p)
  \/ DeleteDocumentsWithoutChunks

StoreSpec == StoreInit /\ [][StoreNext]_storeVars
-----------------------------------------------------------------------------
(* Properties *)

(* Every root's running counters equal what a scan of its chunk rows would *)
(* count: N and df of the IDF weights are those of the rows now indexed.   *)
StatsExact ==
  \A r \in Roots :
    /\ chunkCount[r] = Cardinality(InRoot(chunks, r))
    /\ \A t \in Terms : df[r][t] = Cardinality(Postings(chunks, r, t))

(* The URI is a key of documents and so is the id, and an id is used once: *)
(* concurrent ingests of one URI end in one row, and a link to a deleted   *)
(* document never comes to name another.                                   *)
DocumentKeys ==
  /\ \A d, e \in documents : d.uri = e.uri \/ d.id = e.id => d = e
  /\ \A d \in documents : d.id < nextId

(* What is indexed is what the stored hash says: a later ingest that skips *)
(* on an equal hash leaves exactly the chunks it would have written, and   *)
(* no chunk outlives its document.                                         *)
IndexMatchesHash ==
  chunks = UNION {NewChunks(d.id, d.root, d.hash) : d \in documents}
=============================================================================
