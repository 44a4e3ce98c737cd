------------------------ MODULE RowsAndReportsProofs ------------------------
(***************************************************************************)
(* Proofs about DocumentStore (the running statistics and the chunk rows   *)
(* follow the documents through every interleaving of its transactions),   *)
(* about SourceRows (what is left of that once the sweeps delete           *)
(* documents without retracting them), about Corpus, which SourceRows      *)
(* implements, and about UsageReports (the sections of a report add up,    *)
(* and agree with each other as far as the tables stayed the same while    *)
(* they were read).                                                        *)
(***************************************************************************)
EXTENDS SourceRows, UsageReports, FiniteSetTheorems, SequenceTheorems,
        WellFoundedInduction, TLAPS

\* A with its part B replaced by N, and when that makes sense.
Swap(A, B, N) == (A \ B) \cup N

Swappable(A, B, N) ==
  /\ IsFiniteSet(A) /\ IsFiniteSet(N)
  /\ B \subseteq A
  /\ \A x \in N : x \notin A \ B

(* Replacing the part B of A by the disjoint N changes the size of A by    *)
(* the difference of their sizes.                                          *)
LEMMA CardinalitySwap ==
  ASSUME NEW A, NEW B, NEW N,
         Swappable(A, B, N)
  PROVE  /\ IsFiniteSet(Swap(A, B, N))
         /\ Cardinality(A) \in Nat /\ Cardinality(B) \in Nat /\ Cardinality(N) \in Nat
         /\ Cardinality(B) <= Cardinality(A)
         /\ Cardinality(Swap(A, B, N)) = Cardinality(A) - Cardinality(B) + Cardinality(N)
<1> DEFINE R == A \ B
<1> USE DEF Swappable
<1>1. IsFiniteSet(B) /\ Cardinality(B) <= Cardinality(A)
  BY FS_Subset
<1>2. IsFiniteSet(R)
  BY FS_Subset
<1>3. /\ Cardinality(A) \in Nat /\ Cardinality(B) \in Nat
      /\ Cardinality(N) \in Nat /\ Cardinality(R) \in Nat
  BY <1>1, <1>2, FS_CardinalityType
<1>4. R \cup B = A /\ R \cap B = {} /\ R \cap N = {} /\ R \cup N = Swap(A, B, N)
  BY DEF Swap
<1>5. Cardinality({}) = 0
  BY FS_EmptySet
<1>6. /\ Cardinality(R \cup B) = Cardinality(R) + Cardinality(B) - Cardinality(R \cap B)
      /\ IsFiniteSet(R \cup N)
      /\ Cardinality(R \cup N) = Cardinality(R) + Cardinality(N) - Cardinality(R \cap N)
  BY <1>1, <1>2, FS_Union
<1>7. /\ Cardinality(R \cup B) = Cardinality(A)
      /\ Cardinality(R \cap B) = 0
      /\ Cardinality(R \cap N) = 0
      /\ Cardinality(R \cup N) = Cardinality(Swap(A, B, N))
      /\ IsFiniteSet(R \cup N) => IsFiniteSet(Swap(A, B, N))
  BY <1>4, <1>5, Zenon
<1> HIDE DEF R
<1>8. /\ Cardinality(A) = Cardinality(R) + Cardinality(B)
      /\ Cardinality(Swap(A, B, N)) = Cardinality(R) + Cardinality(N)
  BY <1>3, <1>6, <1>7
<1> QED
  BY <1>1, <1>3, <1>6, <1>7, <1>8

(* A counter that is at least the count of the old rows keeps its excess   *)
(* when B is retracted from it and N added: the floor of Retracted, which  *)
(* deletes the row, never loses anything.                                  *)
LEMMA ExcessKept ==
  ASSUME NEW A, NEW B, NEW N, Swappable(A, B, N),
         NEW v, v \in Nat, v >= Cardinality(A),
         NEW w, w = Retracted(v, Cardinality(B)) + Cardinality(N),
         NEW S, S = Swap(A, B, N)
  PROVE  /\ w \in Nat /\ Cardinality(S) \in Nat
         /\ w - Cardinality(S) = v - Cardinality(A)
<1>1. /\ Cardinality(A) \in Nat /\ Cardinality(B) \in Nat /\ Cardinality(N) \in Nat
      /\ Cardinality(B) <= Cardinality(A)
      /\ Cardinality(Swap(A, B, N)) = Cardinality(A) - Cardinality(B) + Cardinality(N)
  BY CardinalitySwap
<1>2. Retracted(v, Cardinality(B)) = v - Cardinality(B)
  BY <1>1 DEF Retracted
<1>3. Cardinality(S) = Cardinality(Swap(A, B, N))
  BY Zenon
<1> QED
  BY <1>1, <1>2, <1>3

(* The chunk rows of one content are finitely many, well typed, and belong *)
(* to the one document and root they are inserted for.                     *)
LEMMA NewChunksFacts ==
  ASSUME NEW id \in Nat, NEW r \in Roots, NEW h \in Contents
  PROVE  /\ IsFiniteSet(NewChunks(id, r, h))
         /\ NewChunks(id, r, h) \in SUBSET Chunk
         /\ \A c \in NewChunks(id, r, h) : c.doc = id /\ c.root = r
<1> DEFINE n    == Len(ChunkTerms[h])
           S    == NewChunks(id, r, h)
           F(i) == [doc |-> id, ord |-> i, root |-> r, terms |-> ChunkTerms[h][i]]
           f    == [i \in 1..n |-> F(i)]
<1>1. ChunkTerms[h] \in Seq(SUBSET Terms)
  BY StoreAssumption
<1>2. n \in Nat /\ \A i \in 1..n : ChunkTerms[h][i] \in SUBSET Terms
  BY <1>1
<1>3. S = {F(i) : i \in 1..n}
  BY DEF NewChunks
<1>4. f \in Surjection(1..n, S)
  BY <1>3 DEF Surjection
<1>5. IsFiniteSet(1..n)
  BY <1>2, FS_Interval
<1>6. IsFiniteSet(S)
  BY <1>4, <1>5, FS_Surjection
<1>7. \A i \in 1..n : F(i) \in Chunk
  BY <1>2 DEF Chunk
<1> QED
  BY <1>3, <1>6, <1>7
-----------------------------------------------------------------------------
\* The part of the inductive invariant that does not speak of statistics.
StoreBase == StoreTypeOK /\ DocumentKeys /\ IndexMatchesHash

\* A step that swaps chunk rows and moves the counters with them.
StatStep(gone, new) ==
  /\ Swappable(chunks, gone, new)
  /\ new \in SUBSET Chunk
  /\ chunks' = Swap(chunks, gone, new)
  /\ df' = DfAfter(gone, new)
  /\ chunkCount' = ChunkCountAfter(gone, new)

(* Under such a step every counter keeps its excess over the scan.         *)
LEMMA StatStepKeepsExcess ==
  ASSUME StoreTypeOK, NEW gone, NEW new, StatStep(gone, new), NEW r \in Roots
  PROVE  /\ chunkCount[r] >= Cardinality(InRoot(chunks, r)) =>
              /\ chunkCount'[r] \in Nat
              /\ Cardinality(InRoot(chunks', r)) \in Nat
              /\ chunkCount'[r] - Cardinality(InRoot(chunks', r))
                   = chunkCount[r] - Cardinality(InRoot(chunks, r))
         /\ \A t \in Terms : df[r][t] >= Cardinality(Postings(chunks, r, t)) =>
              /\ df'[r][t] \in Nat
              /\ Cardinality(Postings(chunks', r, t)) \in Nat
              /\ df'[r][t] - Cardinality(Postings(chunks', r, t))
                   = df[r][t] - Cardinality(Postings(chunks, r, t))
<1>1. ASSUME chunkCount[r] >= Cardinality(InRoot(chunks, r))
      PROVE  /\ chunkCount'[r] \in Nat
             /\ Cardinality(InRoot(chunks', r)) \in Nat
             /\ chunkCount'[r] - Cardinality(InRoot(chunks', r))
                  = chunkCount[r] - Cardinality(InRoot(chunks, r))
  <2> DEFINE A == InRoot(chunks, r)
             B == InRoot(gone, r)
             N == InRoot(new, r)
  <2>1. IsFiniteSet(A) /\ IsFiniteSet(N)
    <3>1. A \in SUBSET chunks /\ N \in SUBSET new /\ IsFiniteSet(chunks) /\ IsFiniteSet(new)
      BY DEF InRoot, StatStep, Swappable
    <3> QED
      BY <3>1, FS_Subset
  <2>2. Swappable(A, B, N)
    BY <2>1 DEF Swappable, StatStep, InRoot
  <2>3. InRoot(chunks', r) = Swap(A, B, N)
    BY DEF InRoot, StatStep, Swap
  <2>4. /\ chunkCount[r] \in Nat
        /\ chunkCount'[r] = Retracted(chunkCount[r], Cardinality(B)) + Cardinality(N)
    BY DEF StoreTypeOK, StatStep, ChunkCountAfter
  <2> HIDE DEF A, B, N
  <2>5. chunkCount[r] >= Cardinality(A)
    BY <1>1 DEF A
  <2>6. /\ chunkCount'[r] \in Nat /\ Cardinality(InRoot(chunks', r)) \in Nat
        /\ chunkCount'[r] - Cardinality(InRoot(chunks', r)) = chunkCount[r] - Cardinality(A)
    BY <2>2, <2>3, <2>4, <2>5, ExcessKept, SMTT(20)
  <2> QED
    BY <2>6 DEF A
<1>2. ASSUME NEW t \in Terms, df[r][t] >= Cardinality(Postings(chunks, r, t))
      PROVE  /\ df'[r][t] \in Nat
             /\ Cardinality(Postings(chunks', r, t)) \in Nat
             /\ df'[r][t] - Cardinality(Postings(chunks', r, t))
                  = df[r][t] - Cardinality(Postings(chunks, r, t))
  <2> DEFINE A == Postings(chunks, r, t)
             B == Postings(gone, r, t)
             N == Postings(new, r, t)
  <2>1. IsFiniteSet(A) /\ IsFiniteSet(N)
    <3>1. A \in SUBSET chunks /\ N \in SUBSET new /\ IsFiniteSet(chunks) /\ IsFiniteSet(new)
      BY DEF Postings, StatStep, Swappable
    <3> QED
      BY <3>1, FS_Subset
  <2>2. Swappable(A, B, N)
    BY <2>1 DEF Swappable, StatStep, Postings
  <2>3. Postings(chunks', r, t) = Swap(A, B, N)
    BY DEF Postings, StatStep, Swap
  <2>4. /\ df[r][t] \in Nat
        /\ df'[r][t] = Retracted(df[r][t], Cardinality(B)) + Cardinality(N)
    BY DEF StoreTypeOK, StatStep, DfAfter
  <2> HIDE DEF A, B, N
  <2>5. df[r][t] >= Cardinality(A)
    BY <1>2 DEF A
  <2>6. /\ df'[r][t] \in Nat /\ Cardinality(Postings(chunks', r, t)) \in Nat
        /\ df'[r][t] - Cardinality(Postings(chunks', r, t)) = df[r][t] - Cardinality(A)
    BY <2>2, <2>3, <2>4, <2>5, ExcessKept, SMTT(20)
  <2> QED
    BY <2>6 DEF A
<1> QED
  BY <1>1, <1>2
-----------------------------------------------------------------------------
(* Such a step keeps the types of the chunk rows and of the counters.      *)
LEMMA StatStepTypes ==
  ASSUME StoreTypeOK, NEW gone, NEW new, StatStep(gone, new)
  PROVE  /\ IsFiniteSet(chunks') /\ chunks' \in SUBSET Chunk
         /\ df' \in [Roots -> [Terms -> Nat]]
         /\ chunkCount' \in [Roots -> Nat]
<1>1. IsFiniteSet(chunks')
  BY CardinalitySwap DEF StatStep
<1>2. chunks' \in SUBSET Chunk
  BY DEF StoreTypeOK, StatStep, Swap
<1>3. IsFiniteSet(gone) /\ IsFiniteSet(new)
  BY FS_Subset DEF StatStep, Swappable
<1>4. ASSUME NEW r \in Roots, NEW t \in Terms
      PROVE  /\ Cardinality(InRoot(gone, r)) \in Nat /\ Cardinality(InRoot(new, r)) \in Nat
             /\ Cardinality(Postings(gone, r, t)) \in Nat
             /\ Cardinality(Postings(new, r, t)) \in Nat
  <2>1. /\ InRoot(gone, r) \in SUBSET gone /\ InRoot(new, r) \in SUBSET new
        /\ Postings(gone, r, t) \in SUBSET gone /\ Postings(new, r, t) \in SUBSET new
    BY DEF InRoot, Postings
  <2>2. /\ IsFiniteSet(InRoot(gone, r)) /\ IsFiniteSet(InRoot(new, r))
        /\ IsFiniteSet(Postings(gone, r, t)) /\ IsFiniteSet(Postings(new, r, t))
    BY <1>3, <2>1, FS_Subset
  <2> QED
    BY <2>2, FS_CardinalityType
<1>5. ASSUME NEW r \in Roots
      PROVE  Cardinality(InRoot(gone, r)) \in Nat /\ Cardinality(InRoot(new, r)) \in Nat
  <2>1. InRoot(gone, r) \in SUBSET gone /\ InRoot(new, r) \in SUBSET new
    BY DEF InRoot
  <2>2. IsFiniteSet(InRoot(gone, r)) /\ IsFiniteSet(InRoot(new, r))
    BY <1>3, <2>1, FS_Subset
  <2> QED
    BY <2>2, FS_CardinalityType
<1> DEFINE N(r)    == Retracted(chunkCount[r], Cardinality(InRoot(gone, r)))
                        + Cardinality(InRoot(new, r))
           D(r, t) == Retracted(df[r][t], Cardinality(Postings(gone, r, t)))
                        + Cardinality(Postings(new, r, t))
<1>6. /\ \A r \in Roots : N(r) \in Nat
      /\ \A r \in Roots, t \in Terms : D(r, t) \in Nat
  <2>1. \A v, m, n \in Nat : Retracted(v, m) + n \in Nat
    BY DEF Retracted
  <2>2. /\ \A r \in Roots : chunkCount[r] \in Nat
        /\ \A r \in Roots, t \in Terms : df[r][t] \in Nat
    BY DEF StoreTypeOK
  <2> QED
    BY <1>4, <1>5, <2>1, <2>2, Zenon
<1>7. /\ chunkCount' = [r \in Roots |-> N(r)]
      /\ df' = [r \in Roots |-> [t \in Terms |-> D(r, t)]]
  BY DEF StatStep, ChunkCountAfter, DfAfter
<1> HIDE DEF N, D
<1>8. chunkCount' \in [Roots -> Nat] /\ df' \in [Roots -> [Terms -> Nat]]
  BY <1>6, <1>7
<1> QED
  BY <1>1, <1>2, <1>8

(* Chunk rows are those of the documents, so each has the id of one.       *)
LEMMA ChunksBelong ==
  ASSUME StoreBase
  PROVE  /\ \A c \in chunks : c.doc \in Ids(documents) /\ c.doc < nextId
         /\ \A d \in documents : ChunksOf({d.id}) = NewChunks(d.id, d.root, d.hash)
<1>1. \A d \in documents : d.id \in Nat /\ d.root \in Roots /\ d.hash \in Contents
  BY DEF StoreBase, StoreTypeOK, Document
<1>2. \A d \in documents : \A c \in NewChunks(d.id, d.root, d.hash) : c.doc = d.id
  BY <1>1, NewChunksFacts
<1>3. \A c \in chunks : \E d \in documents : c \in NewChunks(d.id, d.root, d.hash)
  BY DEF StoreBase, IndexMatchesHash
<1>4. \A d \in documents : NewChunks(d.id, d.root, d.hash) \subseteq chunks
  BY DEF StoreBase, IndexMatchesHash
<1>5. \A d, e \in documents : d.id = e.id => d = e
  BY DEF StoreBase, DocumentKeys
<1>6. \A d \in documents : d.id < nextId
  BY DEF StoreBase, DocumentKeys
<1>7. \A c \in chunks : c.doc \in Ids(documents) /\ c.doc < nextId
  BY <1>2, <1>3, <1>6 DEF Ids
<1>8. ASSUME NEW d \in documents
      PROVE  ChunksOf({d.id}) = NewChunks(d.id, d.root, d.hash)
  BY <1>2, <1>3, <1>4, <1>5 DEF ChunksOf
<1> QED
  BY <1>7, <1>8

(* The transaction of UpsertDocument, for an insert (old = {}) and for a   *)
(* replacement (old = {d}).                                                *)
LEMMA ReplaceStep ==
  ASSUME StoreBase, NEW old \in SUBSET documents, NEW id \in Nat, NEW in \in Request,
         \/ old = {} /\ id = nextId
         \/ \E d \in documents : old = {d} /\ id = d.id,
         \A e \in documents \ old : e.uri # in.uri,
         Replace(old, id, in),
         nextId' \in Nat, nextId' >= nextId, id < nextId',
         pending' \in [Writers -> Request \cup {NoWrite}]
  PROVE  /\ StoreBase'
         /\ \E gone, new : StatStep(gone, new)
<1> DEFINE gone == ChunksOf(Ids(old))
           new  == NewChunks(id, in.root, in.hash)
           row  == [id |-> id, uri |-> in.uri, root |-> in.root, hash |-> in.hash]
<1>1. in.uri \in Uris /\ in.root \in Roots /\ in.hash \in Contents
  BY DEF Request
<1>2. /\ IsFiniteSet(new) /\ new \in SUBSET Chunk
      /\ \A c \in new : c.doc = id
  BY <1>1, NewChunksFacts
<1>3. \A e \in documents \ old : e.id # id
  BY DEF StoreBase, DocumentKeys, StoreTypeOK, Document
<1>4. gone = {c \in chunks : c.doc = id}
  <2>1. CASE old = {} /\ id = nextId
    BY <2>1, ChunksBelong DEF ChunksOf, Ids, StoreBase, StoreTypeOK, Chunk
  <2>2. CASE \E d \in documents : old = {d} /\ id = d.id
    BY <2>2 DEF ChunksOf, Ids
  <2> QED
    BY <2>1, <2>2
<1>5. /\ documents' = (documents \ old) \cup {row}
      /\ chunks' = (chunks \ gone) \cup new
      /\ df' = DfAfter(gone, new)
      /\ chunkCount' = ChunkCountAfter(gone, new)
  BY DEF Replace
<1> HIDE DEF gone, new
<1>6. Swappable(chunks, gone, new)
  BY <1>2, <1>4 DEF Swappable, StoreBase, StoreTypeOK
<1>7. StatStep(gone, new)
  BY <1>2, <1>5, <1>6 DEF StatStep, Swap
<1>8. StoreTypeOK'
  <2>1. documents' \in SUBSET Document
    BY <1>1, <1>5 DEF StoreBase, StoreTypeOK, Document
  <2> QED
    BY <2>1, <1>7, StatStepTypes DEF StoreBase, StoreTypeOK
<1>9. DocumentKeys'
  <2>1. \A d \in documents : d.id < nextId /\ d.id \in Nat
    BY DEF StoreBase, DocumentKeys, StoreTypeOK, Document
  <2>2. nextId \in Nat
    BY DEF StoreBase, StoreTypeOK
  <2>3. \A d \in documents' : d.id < nextId'
    BY <1>5, <2>1, <2>2
  <2>4. \A d, e \in documents' : d.uri = e.uri \/ d.id = e.id => d = e
    BY <1>3, <1>5 DEF StoreBase, DocumentKeys
  <2> QED
    BY <2>3, <2>4 DEF DocumentKeys
<1>10. IndexMatchesHash'
  <2>1. ASSUME NEW c
        PROVE  c \in chunks' <=>
                 \E d \in documents' : c \in NewChunks(d.id, d.root, d.hash)
    <3>1. \A d \in documents : \A x \in NewChunks(d.id, d.root, d.hash) :
            x \in chunks /\ x.doc = d.id
      BY ChunksBelong DEF ChunksOf
    <3>2. c \in chunks <=> \E d \in documents : c \in NewChunks(d.id, d.root, d.hash)
      BY DEF StoreBase, IndexMatchesHash
    <3>3. c \in chunks' <=> c \in new \/ (c \in chunks /\ c.doc # id)
      BY <1>4, <1>5
    <3>4. c \in new <=> c \in NewChunks(row.id, row.root, row.hash)
      BY DEF new
    <3>5. \A d \in old : d.id = id
      OBVIOUS
    <3>6. row \in documents' /\ \A d \in documents' : d = row \/ (d \in documents /\ d \notin old)
      BY <1>5
    <3>7. \A d \in documents : d \notin old => d \in documents'
      BY <1>5
    <3> HIDE DEF row
    <3> QED
      BY <1>3, <3>1, <3>2, <3>3, <3>4, <3>5, <3>6, <3>7
  <2> QED
    BY <2>1 DEF IndexMatchesHash
<1> QED
  BY <1>7, <1>8, <1>9, <1>10 DEF StoreBase
-----------------------------------------------------------------------------
(* The transaction of the deletes.                                         *)
LEMMA RetractStep ==
  ASSUME StoreBase, NEW gone \in SUBSET documents, Retract(gone)
  PROVE  /\ StoreBase'
         /\ \E old, new : StatStep(old, new)
<1> DEFINE old == ChunksOf(Ids(gone))
<1>1. /\ documents' = documents \ gone
      /\ chunks' = chunks \ old
      /\ df' = DfAfter(old, {})
      /\ chunkCount' = ChunkCountAfter(old, {})
      /\ nextId' = nextId /\ pending' = pending
  BY DEF Retract
<1>2. \A c : c \in old <=> c \in chunks /\ \E d \in gone : c.doc = d.id
  BY DEF ChunksOf, Ids
<1> HIDE DEF old
<1>3. IsFiniteSet({})
  BY FS_EmptySet
<1>4. Swappable(chunks, old, {})
  BY <1>2, <1>3 DEF Swappable, StoreBase, StoreTypeOK
<1>5. StatStep(old, {})
  BY <1>1, <1>4 DEF StatStep, Swap
<1>6. StoreTypeOK'
  <2>1. documents' \in SUBSET Document
    BY <1>1 DEF StoreBase, StoreTypeOK
  <2>2. nextId' \in Nat /\ pending' \in [Writers -> Request \cup {NoWrite}]
    BY <1>1 DEF StoreBase, StoreTypeOK
  <2> QED
    BY <2>1, <2>2, <1>5, StatStepTypes DEF StoreBase, StoreTypeOK
<1>7. DocumentKeys'
  BY <1>1 DEF StoreBase, DocumentKeys
<1>8. IndexMatchesHash'
  <2>1. ASSUME NEW c
        PROVE  c \in chunks' <=>
                 \E d \in documents' : c \in NewChunks(d.id, d.root, d.hash)
    <3>1. \A d \in documents : \A x \in NewChunks(d.id, d.root, d.hash) :
            x \in chunks /\ x.doc = d.id
      BY ChunksBelong DEF ChunksOf
    <3>2. c \in chunks <=> \E d \in documents : c \in NewChunks(d.id, d.root, d.hash)
      BY DEF StoreBase, IndexMatchesHash
    <3>3. \A d, e \in documents : d.id = e.id => d = e
      BY DEF StoreBase, DocumentKeys
    <3> QED
      BY <1>1, <1>2, <3>1, <3>2, <3>3
  <2> QED
    BY <2>1 DEF IndexMatchesHash
<1> QED
  BY <1>5, <1>6, <1>7, <1>8 DEF StoreBase

(* Every step of the document tables keeps the base invariant, and moves   *)
(* chunk rows and counters together or not at all.                         *)
LEMMA StoreStep ==
  ASSUME StoreBase, [StoreNext]_storeVars
  PROVE  /\ StoreBase'
         /\ \/ UNCHANGED <<chunks, df, chunkCount>>
            \/ \E gone, new : StatStep(gone, new)
<1>1. ASSUME NEW w \in Writers, NEW u \in Uris, NEW r \in Roots, NEW h \in Contents,
             MissHash(w, u, r, h)
      PROVE  StoreBase' /\ UNCHANGED <<chunks, df, chunkCount>>
  <2>1. UNCHANGED <<documents, chunks, df, chunkCount, nextId>>
    BY <1>1 DEF MissHash
  <2>2. pending' \in [Writers -> Request \cup {NoWrite}]
    BY <1>1 DEF MissHash, StoreBase, StoreTypeOK, Request
  <2> QED
    BY <2>1, <2>2 DEF StoreBase, StoreTypeOK, DocumentKeys, IndexMatchesHash
<1>2. ASSUME NEW w \in Writers, CommitUpsert(w)
      PROVE  StoreBase' /\ \E gone, new : StatStep(gone, new)
  <2>1. pending[w] \in Request
    BY <1>2 DEF CommitUpsert, StoreBase, StoreTypeOK
  <2>2. pending' \in [Writers -> Request \cup {NoWrite}]
    BY <1>2 DEF CommitUpsert, StoreBase, StoreTypeOK
  <2>3. nextId \in Nat
    BY DEF StoreBase, StoreTypeOK
  <2>4. CASE /\ \A d \in documents : d.uri # pending[w].uri
             /\ Replace({}, nextId, pending[w])
             /\ nextId' = nextId + 1
    <3>1. {} \in SUBSET documents
      OBVIOUS
    <3>2. \A e \in documents \ {} : e.uri # pending[w].uri
      BY <2>4
    <3>3. nextId' \in Nat /\ nextId' >= nextId /\ nextId < nextId'
      BY <2>3, <2>4
    <3> QED
      BY <2>1, <2>2, <2>3, <2>4, <3>1, <3>2, <3>3, ReplaceStep
  <2>5. ASSUME NEW d \in documents, d.uri = pending[w].uri,
               Replace({d}, d.id, pending[w]), nextId' = nextId
        PROVE  StoreBase' /\ \E gone, new : StatStep(gone, new)
    <3>1. {d} \in SUBSET documents
      OBVIOUS
    <3>2. \A e \in documents \ {d} : e.uri # pending[w].uri
      BY <2>5 DEF StoreBase, DocumentKeys
    <3>3. d.id \in Nat
      BY DEF StoreBase, StoreTypeOK, Document
    <3>4. nextId' \in Nat /\ nextId' >= nextId /\ d.id < nextId'
      BY <2>3, <2>5 DEF StoreBase, DocumentKeys
    <3> QED
      BY <2>1, <2>2, <2>5, <3>1, <3>2, <3>3, <3>4, ReplaceStep
  <2> QED
    BY <1>2, <2>4, <2>5 DEF CommitUpsert
<1>3. ASSUME NEW w \in Writers, AbortUpsert(w)
      PROVE  StoreBase' /\ UNCHANGED <<chunks, df, chunkCount>>
  <2>1. UNCHANGED <<documents, chunks, df, chunkCount, nextId>>
    BY <1>3 DEF AbortUpsert
  <2>2. pending' \in [Writers -> Request \cup {NoWrite}]
    BY <1>3 DEF AbortUpsert, StoreBase, StoreTypeOK
  <2> QED
    BY <2>1, <2>2 DEF StoreBase, StoreTypeOK, DocumentKeys, IndexMatchesHash
<1>4. ASSUME NEW u \in Uris, DeleteDocument(u)
      PROVE  StoreBase' /\ \E gone, new : StatStep(gone, new)
  <2>1. PICK d \in documents : Retract({d})
    BY <1>4 DEF DeleteDocument
  <2>2. {d} \in SUBSET documents
    OBVIOUS
  <2> QED
    BY <2>1, <2>2, RetractStep
<1>5. ASSUME NEW p \in UriPrefixes, DeleteDocumentsByURIPrefix(p)
      PROVE  StoreBase' /\ \E gone, new : StatStep(gone, new)
  BY <1>5, RetractStep DEF DeleteDocumentsByURIPrefix
<1>6. ASSUME DeleteDocumentsWithoutChunks
      PROVE  StoreBase' /\ \E gone, new : StatStep(gone, new)
  BY <1>6, RetractStep DEF DeleteDocumentsWithoutChunks
<1>7. ASSUME UNCHANGED storeVars
      PROVE  StoreBase' /\ UNCHANGED <<chunks, df, chunkCount>>
  BY <1>7 DEF storeVars, StoreBase, StoreTypeOK, DocumentKeys, IndexMatchesHash
<1> QED
  BY <1>1, <1>2, <1>3, <1>4, <1>5, <1>6, <1>7 DEF StoreNext
-----------------------------------------------------------------------------
LEMMA StoreBaseInit ==
  ASSUME StoreInit
  PROVE  StoreBase /\ StatsExact
<1>1. IsFiniteSet({}) /\ Cardinality({}) = 0
  BY FS_EmptySet
<1>2. StoreTypeOK
  BY <1>1 DEF StoreInit, StoreTypeOK
<1>3. DocumentKeys /\ IndexMatchesHash
  BY DEF StoreInit, DocumentKeys, IndexMatchesHash
<1>4. \A r \in Roots : InRoot(chunks, r) = {} /\ chunkCount[r] = 0
  BY DEF StoreInit, InRoot
<1>5. \A r \in Roots, t \in Terms : Postings(chunks, r, t) = {} /\ df[r][t] = 0
  BY DEF StoreInit, Postings
<1>6. StatsExact
  BY <1>1, <1>4, <1>5, Zenon DEF StatsExact
<1> QED
  BY <1>2, <1>3, <1>6 DEF StoreBase

(* Exactness is inductive: a counter with no excess keeps none.            *)
LEMMA StatsExactStep ==
  ASSUME StoreBase, StatsExact, [StoreNext]_storeVars
  PROVE  StatsExact'
<1>1. CASE UNCHANGED <<chunks, df, chunkCount>>
  BY <1>1 DEF StatsExact
<1>2. ASSUME NEW gone, NEW new, StatStep(gone, new)
      PROVE  StatsExact'
  <2>1. StoreTypeOK
    BY DEF StoreBase
  <2>2. ASSUME NEW r \in Roots
        PROVE  chunkCount'[r] = Cardinality(InRoot(chunks', r))
    <3>1. chunkCount[r] \in Nat /\ chunkCount[r] = Cardinality(InRoot(chunks, r))
      BY DEF StatsExact, StoreBase, StoreTypeOK
    <3> QED
      BY <1>2, <2>1, <3>1, StatStepKeepsExcess
  <2>3. ASSUME NEW r \in Roots, NEW t \in Terms
        PROVE  df'[r][t] = Cardinality(Postings(chunks', r, t))
    <3>1. df[r][t] \in Nat /\ df[r][t] = Cardinality(Postings(chunks, r, t))
      BY DEF StatsExact, StoreBase, StoreTypeOK
    <3> QED
      BY <1>2, <2>1, <3>1, StatStepKeepsExcess
  <2> QED
    BY <2>2, <2>3 DEF StatsExact
<1> QED
  BY <1>1, <1>2, StoreStep

(* Through every interleaving of ingests and deletes the statistics equal  *)
(* a scan of the chunk rows, for any corpus, roots and writers.            *)
THEOREM StatisticsAreExact == StoreSpec => []StatsExact
<1>1. StoreInit => StoreBase /\ StatsExact
  BY StoreBaseInit
<1>2. StoreBase /\ StatsExact /\ [StoreNext]_storeVars => StoreBase' /\ StatsExact'
  BY StoreStep, StatsExactStep
<1> QED
  BY <1>1, <1>2, PTL DEF StoreSpec

(* The tables stay well typed, URI and id stay keys and ids are used once, *)
(* and the chunk rows are those that the stored hashes stand for.          *)
THEOREM StoreIsConsistent ==
  StoreSpec => [](StoreTypeOK /\ DocumentKeys /\ IndexMatchesHash)
<1>1. StoreInit => StoreBase
  BY StoreBaseInit
<1>2. StoreBase /\ [StoreNext]_storeVars => StoreBase'
  BY StoreStep
<1>3. StoreBase => StoreTypeOK /\ DocumentKeys /\ IndexMatchesHash
  BY DEF StoreBase
<1> QED
  BY <1>1, <1>2, <1>3, PTL DEF StoreSpec
-----------------------------------------------------------------------------
(* With the sweeps.                                                        *)

\* A dropped chunk row leaves at most as much behind in df as in chunkCount.
ExcessOrdered ==
  \A r \in Roots, t \in Terms : DfExcess(r, t) <= CountExcess(r)

IInv == StoreBase /\ RowsTypeOK /\ NeverUndercounts /\ ExcessOrdered

Swept == \E p \in Sweepers : SweepDocument(p)

\* A step that drops chunk rows behind the statistics' back.
DropStep(gone) ==
  /\ Swappable(chunks, gone, {})
  /\ chunks' = Swap(chunks, gone, {})
  /\ UNCHANGED <<df, chunkCount>>

(* The counts before and after each of the kinds of step, for one root and *)
(* one term.                                                               *)
LEMMA ScanTypes ==
  ASSUME StoreTypeOK, NEW r \in Roots, NEW t \in Terms
  PROVE  /\ df[r][t] \in Nat /\ chunkCount[r] \in Nat
         /\ Cardinality(InRoot(chunks, r)) \in Nat
         /\ Cardinality(Postings(chunks, r, t)) \in Nat
         /\ Cardinality(Postings(chunks, r, t)) <= Cardinality(InRoot(chunks, r))
<1>1. df[r][t] \in Nat /\ chunkCount[r] \in Nat /\ IsFiniteSet(chunks)
  BY DEF StoreTypeOK
<1>2. /\ InRoot(chunks, r) \in SUBSET chunks
      /\ Postings(chunks, r, t) \in SUBSET InRoot(chunks, r)
  BY DEF InRoot, Postings
<1>3. IsFiniteSet(InRoot(chunks, r))
  BY <1>1, <1>2, FS_Subset
<1>4. /\ IsFiniteSet(Postings(chunks, r, t))
      /\ Cardinality(Postings(chunks, r, t)) <= Cardinality(InRoot(chunks, r))
  BY <1>2, <1>3, FS_Subset
<1> QED
  BY <1>1, <1>3, <1>4, FS_CardinalityType

(* Dropped rows raise the excess of chunkCount by at least as much as that *)
(* of any df, and neither falls.                                           *)
LEMMA DropRaisesExcess ==
  ASSUME StoreTypeOK, NEW gone, DropStep(gone), NEW r \in Roots, NEW t \in Terms
  PROVE  \E p, c \in Nat :
           /\ p <= c
           /\ Cardinality(Postings(chunks', r, t)) = Cardinality(Postings(chunks, r, t)) - p
           /\ Cardinality(InRoot(chunks', r)) = Cardinality(InRoot(chunks, r)) - c
<1> DEFINE P  == Postings(chunks, r, t)
           I  == InRoot(chunks, r)
           GP == Postings(gone, r, t)
           GI == InRoot(gone, r)
<1>1. IsFiniteSet({}) /\ Cardinality({}) = 0
  BY FS_EmptySet
<1>2. IsFiniteSet(chunks) /\ gone \in SUBSET chunks
  BY DEF DropStep, Swappable
<1>3. I \in SUBSET chunks /\ P \in SUBSET chunks /\ GI \in SUBSET I /\ GP \in SUBSET GI
  BY <1>2 DEF InRoot, Postings
<1>4. IsFiniteSet(I) /\ IsFiniteSet(P)
  BY <1>2, <1>3, FS_Subset
<1>5. IsFiniteSet(GI)
  BY <1>3, <1>4, FS_Subset
<1>6. Cardinality(GP) <= Cardinality(GI)
  BY <1>3, <1>5, FS_Subset
<1>7. Swappable(P, GP, {}) /\ Swappable(I, GI, {})
  BY <1>1, <1>2, <1>4 DEF Swappable, InRoot, Postings
<1>8. /\ Postings(chunks', r, t) = Swap(P, GP, {})
      /\ InRoot(chunks', r) = Swap(I, GI, {})
  BY DEF DropStep, Swap, InRoot, Postings
<1>9. /\ Cardinality(Postings(chunks', r, t)) = Cardinality(Swap(P, GP, {}))
      /\ Cardinality(InRoot(chunks', r)) = Cardinality(Swap(I, GI, {}))
  BY <1>8, Zenon
<1> HIDE DEF P, I, GP, GI
<1>10. /\ Cardinality(P) \in Nat /\ Cardinality(GP) \in Nat
       /\ Cardinality(Swap(P, GP, {})) = Cardinality(P) - Cardinality(GP) + Cardinality({})
  BY <1>7, CardinalitySwap
<1>11. /\ Cardinality(I) \in Nat /\ Cardinality(GI) \in Nat
       /\ Cardinality(Swap(I, GI, {})) = Cardinality(I) - Cardinality(GI) + Cardinality({})
  BY <1>7, CardinalitySwap
<1>12. /\ Cardinality(Postings(chunks', r, t)) = Cardinality(P) - Cardinality(GP)
       /\ Cardinality(InRoot(chunks', r)) = Cardinality(I) - Cardinality(GI)
  BY <1>1, <1>9, <1>10, <1>11
<1> QED
  BY <1>6, <1>10, <1>11, <1>12 DEF P, I
-----------------------------------------------------------------------------
(* The delete of a sweep keeps the base invariant of the tables.           *)
LEMMA RowsDocumentStep ==
  ASSUME StoreBase, NEW id, DeleteRowsDocument(id)
  PROVE  StoreBase' /\ DropStep(ChunksOf({id}))
<1>1. /\ documents' = {d \in documents : d.id # id}
      /\ chunks' = {c \in chunks : c.doc # id}
      /\ UNCHANGED <<df, chunkCount, nextId, pending>>
  BY DEF DeleteRowsDocument, ChunksOf
<1>2. IsFiniteSet({})
  BY FS_EmptySet
<1>3. DropStep(ChunksOf({id}))
  BY <1>2 DEF DropStep, DeleteRowsDocument, Swappable, Swap, ChunksOf, StoreBase, StoreTypeOK
<1>4. StoreTypeOK'
  <2>1. chunks' \in SUBSET chunks
    BY <1>1
  <2>2. IsFiniteSet(chunks')
    BY <2>1, FS_Subset DEF StoreBase, StoreTypeOK
  <2> QED
    BY <1>1, <2>1, <2>2 DEF StoreBase, StoreTypeOK
<1>5. DocumentKeys'
  BY <1>1 DEF StoreBase, DocumentKeys
<1>6. IndexMatchesHash'
  <2>1. ASSUME NEW c
        PROVE  c \in chunks' <=>
                 \E d \in documents' : c \in NewChunks(d.id, d.root, d.hash)
    <3>1. \A d \in documents : \A x \in NewChunks(d.id, d.root, d.hash) :
            x \in chunks /\ x.doc = d.id
      BY ChunksBelong DEF ChunksOf
    <3>2. c \in chunks <=> \E d \in documents : c \in NewChunks(d.id, d.root, d.hash)
      BY DEF StoreBase, IndexMatchesHash
    <3> QED
      BY <1>1, <3>1, <3>2
  <2> QED
    BY <2>1 DEF IndexMatchesHash
<1> QED
  BY <1>3, <1>4, <1>5, <1>6 DEF StoreBase

(* The tables' side of every step: the statistics stay, follow the chunk   *)
(* rows, or are left behind by a sweep.                                    *)
LEMMA TableStep ==
  ASSUME StoreBase, [Next]_vars
  PROVE  /\ StoreBase'
         /\ \/ UNCHANGED <<chunks, df, chunkCount>>
            \/ \E gone, new : StatStep(gone, new)
            \/ (\E gone : DropStep(gone)) /\ Swept
<1>1. CASE DocumentStep
  BY <1>1, StoreStep DEF DocumentStep
<1>2. ASSUME NEW p \in Sweepers, SweepDocument(p)
      PROVE  StoreBase' /\ \E gone : DropStep(gone)
  BY <1>2, RowsDocumentStep DEF SweepDocument
<1>3. ASSUME NEW s \in WebSources, DeleteWebSource(s)
      PROVE  StoreBase' /\ \E gone, new : StatStep(gone, new)
  <2>1. PICK gone \in SUBSET documents : Retract(gone)
    BY <1>3 DEF DeleteWebSource
  <2> QED
    BY <2>1, RetractStep
<1>4. CASE UNCHANGED storeVars
  BY <1>4, StoreStep
<1> QED
  BY <1>1, <1>2, <1>3, <1>4
  DEF Next, vars, Swept, UpsertRow, MarkStale, BeginSweep, BeginDeleteByPath, SweepRow,
      AbortSweep, DeleteRepoSource

(* The rows and the captured sweeps keep their types.                      *)
LEMMA RowsStep ==
  ASSUME RowsTypeOK, [Next]_vars
  PROVE  RowsTypeOK'
<1>1. \A rs \in SUBSET Row : SetNull(rs) \in SUBSET Row
  BY DEF SetNull, Row
<1>2. \A rs \in SUBSET Row : Capture(rs) \in SUBSET Captured
  <2>1. \A r \in Row : [id |-> r.id, doc |-> r.doc, docDone |-> FALSE] \in Captured
    BY DEF Row, Captured
  <2> QED
    BY <2>1, Zenon DEF Capture
<1>3. CASE DocumentStep
  BY <1>1, <1>3 DEF DocumentStep, RowsTypeOK
<1>4. ASSUME NEW s \in Sources, NEW k \in Keys, NEW doc \in 0..MaxDocId, NEW stale \in BOOLEAN,
             UpsertRow(s, k, doc, stale)
      PROVE  RowsTypeOK'
  <2>1. doc \in Nat
    BY StoreAssumption
  <2>2. nextRowId' \in Nat /\ sweep' = sweep
    <3>1. nextRowId' = nextRowId \/ nextRowId' = nextRowId + 1
      BY <1>4, Zenon DEF UpsertRow
    <3>2. sweep' = sweep
      BY <1>4 DEF UpsertRow
    <3> QED
      BY <3>1, <3>2 DEF RowsTypeOK
  <2>3. ASSUME NEW r \in rows PROVE [r EXCEPT !.doc = doc, !.stale = stale] \in Row
    BY <2>1 DEF RowsTypeOK, Row
  <2>4. [id |-> nextRowId, source |-> s, key |-> k, doc |-> doc, stale |-> stale] \in Row
    BY <2>1 DEF RowsTypeOK, Row
  <2>5. rows' \in SUBSET Row
    BY <1>4, <2>3, <2>4 DEF UpsertRow, RowsTypeOK
  <2> QED
    BY <2>2, <2>5 DEF RowsTypeOK
<1>5. ASSUME NEW s \in Sources, NEW ks \in SUBSET Keys, MarkStale(s, ks)
      PROVE  RowsTypeOK'
  BY <1>5 DEF MarkStale, RowsTypeOK, Row
<1>6. ASSUME NEW p \in Sweepers, NEW s \in Sources, BeginSweep(p, s)
      PROVE  RowsTypeOK'
  <2>1. {r \in rows : r.source = s /\ r.stale} \in SUBSET Row
    BY DEF RowsTypeOK
  <2> QED
    BY <1>2, <1>6, <2>1 DEF BeginSweep, RowsTypeOK
<1>7. ASSUME NEW p \in Sweepers, NEW s \in RepoSources, NEW k \in Keys, BeginDeleteByPath(p, s, k)
      PROVE  RowsTypeOK'
  <2>1. {r \in rows : r.source = s /\ r.key = k} \in SUBSET Row
    BY DEF RowsTypeOK
  <2> QED
    BY <1>2, <1>7, <2>1 DEF BeginDeleteByPath, RowsTypeOK
<1>8. ASSUME NEW p \in Sweepers, SweepDocument(p)
      PROVE  RowsTypeOK'
  <2>1. PICK c \in sweep[p] :
          /\ rows' = SetNull(rows)
          /\ sweep' = [sweep EXCEPT ![p] = (@ \ {c}) \cup {[c EXCEPT !.docDone = TRUE]}]
          /\ nextRowId' = nextRowId
    BY <1>8 DEF SweepDocument
  <2>2. c \in Captured
    BY DEF RowsTypeOK
  <2>3. [c EXCEPT !.docDone = TRUE] \in Captured
    BY <2>2 DEF Captured
  <2> QED
    BY <1>1, <2>1, <2>3 DEF RowsTypeOK
<1>9. ASSUME NEW p \in Sweepers, SweepRow(p)
      PROVE  RowsTypeOK'
  BY <1>9 DEF SweepRow, RowsTypeOK
<1>10. ASSUME NEW p \in Sweepers, AbortSweep(p)
       PROVE  RowsTypeOK'
  BY <1>10 DEF AbortSweep, RowsTypeOK
<1>11. ASSUME NEW s \in WebSources, DeleteWebSource(s)
       PROVE  RowsTypeOK'
  <2>1. {r \in rows : r.source # s} \in SUBSET Row
    BY DEF RowsTypeOK
  <2> QED
    BY <1>1, <1>11, <2>1 DEF DeleteWebSource, RowsTypeOK
<1>12. ASSUME NEW s \in RepoSources, DeleteRepoSource(s)
       PROVE  RowsTypeOK'
  BY <1>12 DEF DeleteRepoSource, RowsTypeOK
<1>13. CASE UNCHANGED vars
  BY <1>13 DEF vars, rowVars, RowsTypeOK
<1> QED
  BY <1>3, <1>4, <1>5, <1>6, <1>7, <1>8, <1>9, <1>10, <1>11, <1>12, <1>13 DEF Next
-----------------------------------------------------------------------------
LEMMA IInvInit == ASSUME Init PROVE IInv
<1>1. StoreBase /\ StatsExact
  BY StoreBaseInit DEF Init
<1>2. RowsTypeOK
  BY DEF Init, RowsTypeOK
<1>3. StoreTypeOK
  BY <1>1 DEF StoreBase
<1>4. \A r \in Roots :
        /\ chunkCount[r] \in Nat
        /\ chunkCount[r] = Cardinality(InRoot(chunks, r))
        /\ \A t \in Terms : df[r][t] \in Nat /\ df[r][t] = Cardinality(Postings(chunks, r, t))
  BY <1>1, <1>3 DEF StatsExact, StoreTypeOK
<1>5. NeverUndercounts
  BY <1>4 DEF NeverUndercounts
<1>6. ExcessOrdered
  BY <1>4 DEF ExcessOrdered, DfExcess, CountExcess
<1> QED
  BY <1>1, <1>2, <1>5, <1>6 DEF IInv

(* What one step may do to the excess of one df and of its chunkCount: the *)
(* same constant of both, or at least as much more for chunkCount.         *)
LEMMA ExcessStep ==
  ASSUME IInv, [Next]_vars, NEW r \in Roots, NEW t \in Terms
  PROVE  /\ df'[r][t] \in Nat /\ chunkCount'[r] \in Nat
         /\ Cardinality(Postings(chunks', r, t)) \in Nat
         /\ Cardinality(InRoot(chunks', r)) \in Nat
         /\ \E p, c \in Nat :
              /\ p <= c /\ (~ Swept => p = 0 /\ c = 0)
              /\ df'[r][t] - Cardinality(Postings(chunks', r, t))
                   = df[r][t] - Cardinality(Postings(chunks, r, t)) + p
              /\ chunkCount'[r] - Cardinality(InRoot(chunks', r))
                   = chunkCount[r] - Cardinality(InRoot(chunks, r)) + c
<1>1. StoreBase /\ StoreTypeOK
  BY DEF IInv, StoreBase
<1>2. StoreTypeOK'
  BY <1>1, TableStep DEF StoreBase
<1>3. /\ df'[r][t] \in Nat /\ chunkCount'[r] \in Nat
      /\ Cardinality(Postings(chunks', r, t)) \in Nat
      /\ Cardinality(InRoot(chunks', r)) \in Nat
  <2>1. (df[r][t] \in Nat /\ chunkCount[r] \in Nat)'
    BY <1>2 DEF StoreTypeOK
  <2>2. /\ InRoot(chunks', r) \in SUBSET chunks'
        /\ Postings(chunks', r, t) \in SUBSET chunks'
    BY DEF InRoot, Postings
  <2>3. IsFiniteSet(chunks')
    BY <1>2 DEF StoreTypeOK
  <2>4. IsFiniteSet(InRoot(chunks', r)) /\ IsFiniteSet(Postings(chunks', r, t))
    BY <2>2, <2>3, FS_Subset
  <2> QED
    BY <2>1, <2>4, FS_CardinalityType
<1>4. /\ df[r][t] \in Nat /\ chunkCount[r] \in Nat
      /\ Cardinality(InRoot(chunks, r)) \in Nat
      /\ Cardinality(Postings(chunks, r, t)) \in Nat
  BY <1>1, ScanTypes
<1> DEFINE Goal(p, c) ==
             /\ p <= c /\ (~ Swept => p = 0 /\ c = 0)
             /\ df'[r][t] - Cardinality(Postings(chunks', r, t))
                  = df[r][t] - Cardinality(Postings(chunks, r, t)) + p
             /\ chunkCount'[r] - Cardinality(InRoot(chunks', r))
                  = chunkCount[r] - Cardinality(InRoot(chunks, r)) + c
<1>5. CASE UNCHANGED <<chunks, df, chunkCount>>
  <2>1. /\ df'[r][t] = df[r][t] /\ chunkCount'[r] = chunkCount[r]
        /\ Cardinality(Postings(chunks', r, t)) = Cardinality(Postings(chunks, r, t))
        /\ Cardinality(InRoot(chunks', r)) = Cardinality(InRoot(chunks, r))
    BY <1>5, Zenon
  <2>2. Goal(0, 0)
    BY <1>4, <2>1
  <2> QED
    BY <1>3, <2>2
<1>6. ASSUME NEW gone, NEW new, StatStep(gone, new)
      PROVE  Goal(0, 0)
  <2>1. /\ chunkCount[r] >= Cardinality(InRoot(chunks, r))
        /\ df[r][t] >= Cardinality(Postings(chunks, r, t))
    BY DEF IInv, NeverUndercounts
  <2>2. /\ chunkCount'[r] - Cardinality(InRoot(chunks', r))
             = chunkCount[r] - Cardinality(InRoot(chunks, r))
        /\ df'[r][t] - Cardinality(Postings(chunks', r, t))
             = df[r][t] - Cardinality(Postings(chunks, r, t))
    BY <1>1, <1>6, <2>1, StatStepKeepsExcess
  <2> QED
    BY <1>4, <2>2
<1>7. ASSUME NEW gone, DropStep(gone), Swept
      PROVE  \E p, c \in Nat : Goal(p, c)
  <2>1. PICK p, c \in Nat :
          /\ p <= c
          /\ Cardinality(Postings(chunks', r, t)) = Cardinality(Postings(chunks, r, t)) - p
          /\ Cardinality(InRoot(chunks', r)) = Cardinality(InRoot(chunks, r)) - c
    BY <1>1, <1>7, DropRaisesExcess
  <2>2. df'[r][t] = df[r][t] /\ chunkCount'[r] = chunkCount[r]
    BY <1>7 DEF DropStep
  <2>3. Goal(p, c)
    BY <1>4, <1>7, <2>1, <2>2
  <2> QED
    BY <2>3
<1> HIDE DEF Goal
<1>8. \E p, c \in Nat : Goal(p, c)
  BY <1>1, <1>5, <1>6, <1>7, TableStep DEF Goal
<1> QED
  BY <1>3, <1>8 DEF Goal
-----------------------------------------------------------------------------
(* A root's chunk count needs no term to be compared with.                 *)
LEMMA CountStep ==
  ASSUME IInv, [Next]_vars, NEW r \in Roots
  PROVE  /\ chunkCount[r] \in Nat /\ Cardinality(InRoot(chunks, r)) \in Nat
         /\ chunkCount'[r] \in Nat /\ Cardinality(InRoot(chunks', r)) \in Nat
         /\ CountExcess(r)' >= CountExcess(r)
         /\ Swept \/ CountExcess(r)' = CountExcess(r)
<1>1. /\ StoreTypeOK /\ StoreTypeOK'
      /\ chunkCount[r] >= Cardinality(InRoot(chunks, r))
  BY TableStep DEF IInv, StoreBase, NeverUndercounts
<1>2. /\ InRoot(chunks, r) \in SUBSET chunks /\ InRoot(chunks', r) \in SUBSET chunks'
      /\ IsFiniteSet(chunks) /\ IsFiniteSet(chunks')
      /\ chunkCount[r] \in Nat /\ chunkCount'[r] \in Nat
  BY <1>1 DEF InRoot, StoreTypeOK
<1>3. /\ IsFiniteSet(InRoot(chunks, r)) /\ IsFiniteSet(InRoot(chunks', r))
      /\ Cardinality(InRoot(chunks, r)) \in Nat /\ Cardinality(InRoot(chunks', r)) \in Nat
  BY <1>2, FS_Subset, FS_CardinalityType
<1>4. CASE UNCHANGED <<chunks, df, chunkCount>>
  <2>1. /\ chunkCount'[r] = chunkCount[r]
        /\ Cardinality(InRoot(chunks', r)) = Cardinality(InRoot(chunks, r))
    BY <1>4, Zenon
  <2> QED
    BY <1>2, <1>3, <2>1 DEF CountExcess
<1>5. ASSUME NEW gone, NEW new, StatStep(gone, new)
      PROVE  CountExcess(r)' = CountExcess(r)
  BY <1>1, <1>5, StatStepKeepsExcess DEF CountExcess
<1>6. ASSUME NEW gone, DropStep(gone)
      PROVE  CountExcess(r)' >= CountExcess(r)
  <2>1. InRoot(chunks', r) \in SUBSET InRoot(chunks, r) /\ chunkCount' = chunkCount
    BY <1>6 DEF DropStep, Swap, InRoot
  <2>2. Cardinality(InRoot(chunks', r)) <= Cardinality(InRoot(chunks, r))
    BY <1>3, <2>1, FS_Subset
  <2>3. chunkCount'[r] = chunkCount[r]
    BY <2>1, Zenon
  <2> QED
    BY <1>2, <1>3, <2>2, <2>3 DEF CountExcess
<1>7. CountExcess(r) \in Int
  BY <1>2, <1>3 DEF CountExcess
<1> QED
  BY <1>2, <1>3, <1>4, <1>5, <1>6, <1>7, TableStep DEF IInv

LEMMA IInvStep ==
  ASSUME IInv, [Next]_vars
  PROVE  IInv'
<1>1. StoreBase'
  BY TableStep DEF IInv
<1>2. RowsTypeOK'
  BY RowsStep DEF IInv
<1>3. ASSUME NEW r \in Roots, NEW t \in Terms
      PROVE  /\ chunkCount'[r] >= Cardinality(InRoot(chunks', r))
             /\ df'[r][t] >= Cardinality(Postings(chunks', r, t))
             /\ df'[r][t] - Cardinality(Postings(chunks', r, t))
                  <= chunkCount'[r] - Cardinality(InRoot(chunks', r))
  <2>1. /\ df[r][t] \in Nat /\ chunkCount[r] \in Nat
        /\ Cardinality(InRoot(chunks, r)) \in Nat
        /\ Cardinality(Postings(chunks, r, t)) \in Nat
    BY ScanTypes DEF IInv, StoreBase
  <2>2. /\ chunkCount[r] >= Cardinality(InRoot(chunks, r))
        /\ df[r][t] >= Cardinality(Postings(chunks, r, t))
        /\ df[r][t] - Cardinality(Postings(chunks, r, t))
             <= chunkCount[r] - Cardinality(InRoot(chunks, r))
    BY DEF IInv, NeverUndercounts, ExcessOrdered, DfExcess, CountExcess
  <2> QED
    BY <2>1, <2>2, ExcessStep
<1>4. ExcessOrdered'
  BY <1>3 DEF ExcessOrdered, DfExcess, CountExcess
<1>5. \A r \in Roots, t \in Terms : df'[r][t] >= Cardinality(Postings(chunks', r, t))
  BY <1>3
<1>6. ASSUME NEW r \in Roots
      PROVE  chunkCount'[r] >= Cardinality(InRoot(chunks', r))
  <2>1. /\ chunkCount[r] >= Cardinality(InRoot(chunks, r))
        /\ chunkCount[r] \in Nat
        /\ Cardinality(InRoot(chunks, r)) \in Nat
    BY CountStep DEF IInv, NeverUndercounts
  <2> QED
    BY <2>1, CountStep DEF CountExcess
<1> QED
  BY <1>1, <1>2, <1>4, <1>5, <1>6 DEF IInv, NeverUndercounts

(* The tables, the source rows and the captured sweeps stay well typed.    *)
THEOREM RowsTypes == Spec => []TypeOK
<1>1. IInv => TypeOK
  BY DEF IInv, StoreBase, TypeOK
<1> QED
  BY <1>1, IInvInit, IInvStep, PTL DEF Spec

(* However sweeps, deletes and ingests interleave, no counter ever falls   *)
(* below the scan.                                                         *)
THEOREM CountersNeverUndercount == Spec => []NeverUndercounts
<1>1. IInv => NeverUndercounts
  BY DEF IInv
<1> QED
  BY <1>1, IInvInit, IInvStep, PTL DEF Spec

(* A root's df never exceeds its chunk count, drift or not: the excess of  *)
(* df is at most that of the count (ExcessOrdered), and the scan of one    *)
(* term counts a part of the root's rows.                                  *)
THEOREM DfIsARatio == Spec => []DfWithinChunkCount
<1>1. IInv => DfWithinChunkCount
  <2> SUFFICES ASSUME IInv, NEW r \in Roots, NEW t \in Terms
               PROVE  df[r][t] <= chunkCount[r]
    BY DEF DfWithinChunkCount
  <2>1. /\ df[r][t] \in Nat /\ chunkCount[r] \in Nat
        /\ Cardinality(InRoot(chunks, r)) \in Nat
        /\ Cardinality(Postings(chunks, r, t)) \in Nat
        /\ Cardinality(Postings(chunks, r, t)) <= Cardinality(InRoot(chunks, r))
    BY ScanTypes DEF IInv, StoreBase
  <2>2. df[r][t] - Cardinality(Postings(chunks, r, t))
          <= chunkCount[r] - Cardinality(InRoot(chunks, r))
    BY DEF IInv, ExcessOrdered, DfExcess, CountExcess
  <2> QED
    BY <2>1, <2>2
<1> QED
  BY <1>1, IInvInit, IInvStep, PTL DEF Spec

(* What a later ingest skips on an equal hash is indexed as it would index *)
(* it, whatever the ingests, deletes and sweeps in between were.           *)
THEOREM IndexFollowsHash == Spec => []IndexMatchesHash
<1>1. IInv => IndexMatchesHash
  BY DEF IInv, StoreBase
<1> QED
  BY <1>1, IInvInit, IInvStep, PTL DEF Spec

(* No step but that of a sweep moves a counter away from the scan, and no  *)
(* step moves it back.                                                     *)
THEOREM DriftIsPermanent == Spec => OnlySweepsDrift
<1> DEFINE Step ==
      \/ \A r \in Roots :
           /\ CountExcess(r)' = CountExcess(r)
           /\ \A t \in Terms : DfExcess(r, t)' = DfExcess(r, t)
      \/ /\ \E p \in Sweepers : SweepDocument(p)
         /\ \A r \in Roots :
              /\ CountExcess(r)' >= CountExcess(r)
              /\ \A t \in Terms : DfExcess(r, t)' >= DfExcess(r, t)
<1>1. IInv /\ [Next]_vars => Step
  <2> SUFFICES ASSUME IInv, [Next]_vars
               PROVE  Step
    OBVIOUS
  <2>1. ASSUME NEW r \in Roots, NEW t \in Terms
        PROVE  /\ DfExcess(r, t)' >= DfExcess(r, t)
               /\ Swept \/ DfExcess(r, t)' = DfExcess(r, t)
    <3>1. df[r][t] \in Nat /\ Cardinality(Postings(chunks, r, t)) \in Nat
      BY <2>1, ScanTypes DEF IInv, StoreBase
    <3> QED
      BY <2>1, <3>1, ExcessStep DEF DfExcess
  <2> QED
    BY <2>1, CountStep DEF Swept
<1>2. IInv /\ [Next]_vars => [Step]_vars
  BY <1>1
<1> QED
  BY <1>2, IInvInit, IInvStep, PTL DEF Spec, OnlySweepsDrift
-----------------------------------------------------------------------------
(* The corpus that readers see: the refinement of Corpus.                  *)

\* The documents alone say what is held, as long as the chunks are theirs.
HeldBy(docs) ==
  [u \in {d.uri : d \in docs} |->
    [id |-> DocumentAt(docs, u).id,
     entry |-> Whole(DocumentAt(docs, u).root, DocumentAt(docs, u).hash)]]

HeldIn(docs, cs) ==
  [u \in {d.uri : d \in docs} |->
    LET id == DocumentAt(docs, u).id
    IN  [id |-> id, entry |-> Shown({c \in cs : c.doc \in {id}})]]

OneEach(docs) == \A d, e \in docs : d.uri = e.uri \/ d.id = e.id => d = e

\* The document of a URI is the one that has it.
LEMMA TheDocument ==
  ASSUME NEW docs, OneEach(docs), NEW d \in docs
  PROVE  DocumentAt(docs, d.uri) = d
<1> DEFINE e == DocumentAt(docs, d.uri)
<1>1. e \in docs /\ e.uri = d.uri
  BY DEF DocumentAt
<1> QED
  BY <1>1 DEF OneEach

\* What is found of stored chunks does not depend on the id.
LEMMA ShownIsWhole ==
  ASSUME NEW i, NEW r, NEW h
  PROVE  Shown(NewChunks(i, r, h)) = Whole(r, h)
<1> DEFINE at(n, k) == [doc |-> n, ord |-> k, root |-> r, terms |-> ChunkTerms[h][k]]
           all == {[ord |-> k, root |-> r, terms |-> ChunkTerms[h][k]] : k \in 1 .. Len(ChunkTerms[h])}
<1>1. ASSUME NEW n PROVE Shown(NewChunks(n, r, h)) = all
  <2>1. NewChunks(n, r, h) = {at(n, k) : k \in 1 .. Len(ChunkTerms[h])}
    BY DEF NewChunks
  <2>2. \A k : /\ at(n, k).ord = k /\ at(n, k).root = r /\ at(n, k).terms = ChunkTerms[h][k]
    OBVIOUS
  <2> HIDE DEF at
  <2>3. Shown(NewChunks(n, r, h))
        = {[ord |-> at(n, k).ord, root |-> at(n, k).root, terms |-> at(n, k).terms] :
             k \in 1 .. Len(ChunkTerms[h])}
    BY <2>1 DEF Shown
  <2> QED
    BY <2>2, <2>3
<1> QED
  BY <1>1 DEF Whole

\* When the chunks are those of the stored hashes, each document is found whole.
LEMMA HeldWhole ==
  ASSUME NEW docs, NEW cs, OneEach(docs),
         cs = UNION {NewChunks(d.id, d.root, d.hash) : d \in docs}
  PROVE  HeldIn(docs, cs) = HeldBy(docs)
<1>1. ASSUME NEW d \in docs
      PROVE  {c \in cs : c.doc \in {d.id}} = NewChunks(d.id, d.root, d.hash)
  <2>1. \A e \in docs : \A c \in NewChunks(e.id, e.root, e.hash) : c.doc = e.id
    BY DEF NewChunks
  <2>2. \A c : c \in cs <=> \E e \in docs : c \in NewChunks(e.id, e.root, e.hash)
    OBVIOUS
  <2> QED
    BY <2>1, <2>2 DEF OneEach
<1>2. ASSUME NEW u \in {d.uri : d \in docs}
      PROVE  Shown({c \in cs : c.doc \in {DocumentAt(docs, u).id}})
             = Whole(DocumentAt(docs, u).root, DocumentAt(docs, u).hash)
  <2>1. PICK d \in docs : d.uri = u
    BY <1>2
  <2>2. DocumentAt(docs, u) = d
    BY <2>1, TheDocument
  <2>3. {c \in cs : c.doc \in {d.id}} = NewChunks(d.id, d.root, d.hash)
    BY <1>1
  <2>4. Shown(NewChunks(d.id, d.root, d.hash)) = Whole(d.root, d.hash)
    BY ShownIsWhole
  <2> QED
    BY <2>2, <2>3, <2>4
<1> QED
  BY <1>2 DEF HeldIn, HeldBy

\* So it is in every state that keeps the base.
LEMMA HeldNow ==
  ASSUME StoreBase PROVE Held = HeldBy(documents)
<1>1. Held = HeldIn(documents, chunks)
  BY DEF Held, HeldIn, ChunksOf
<1>2. OneEach(documents) /\ chunks = UNION {NewChunks(d.id, d.root, d.hash) : d \in documents}
  BY DEF StoreBase, DocumentKeys, IndexMatchesHash, OneEach
<1> QED
  BY <1>1, <1>2, HeldWhole

\* The same of the state after it.
LEMMA HeldNext ==
  ASSUME StoreBase' PROVE Held' = HeldBy(documents')
<1>1. Held' = HeldIn(documents', chunks')
  BY DEF Held, HeldIn, ChunksOf
<1>2. /\ OneEach(documents')
      /\ chunks' = UNION {NewChunks(d.id, d.root, d.hash) : d \in documents'}
  BY DEF StoreBase, DocumentKeys, IndexMatchesHash, OneEach
<1> QED
  BY <1>1, <1>2, HeldWhole

\* What a step does to the documents: one is added, one is replaced, or some go.
Added(d) ==
  /\ d \in Document /\ d.id = nextId /\ nextId <= MaxDocId /\ nextId' = nextId + 1
  /\ \A e \in documents : e.uri # d.uri
  /\ documents' = documents \cup {d}

Changed(d, e) ==
  /\ d \in documents /\ e \in Document /\ e.id = d.id /\ e.uri = d.uri
  /\ documents' = (documents \ {d}) \cup {e}
  /\ nextId' = nextId

Fewer == documents' \subseteq documents /\ nextId' = nextId

DocumentsChange ==
  (\E d : Added(d)) \/ (\E d, e : Changed(d, e)) \/ Fewer

\* No step of the store, of the rows or of a sweep does anything else.
LEMMA DocumentSteps ==
  ASSUME StoreBase, [Next]_vars
  PROVE  DocumentsChange
<1>1. documents \subseteq Document /\ pending \in [Writers -> Request \cup {NoWrite}] /\ nextId \in Nat
  BY DEF StoreBase, StoreTypeOK
<1>2. ASSUME NEW gone, Retract(gone) PROVE Fewer
  BY <1>2 DEF Retract, Fewer
<1>3. ASSUME NEW w \in Writers, CommitUpsert(w) PROVE DocumentsChange
  <2> DEFINE in == pending[w]
             row(id) == [id |-> id, uri |-> in.uri, root |-> in.root, hash |-> in.hash]
  <2>1. in \in Request
    BY <1>1, <1>3 DEF CommitUpsert
  <2>2. in.uri \in Uris /\ in.root \in Roots /\ in.hash \in Contents
    BY <2>1 DEF Request
  <2>3. CASE /\ \A d \in documents : d.uri # in.uri
             /\ nextId <= MaxDocId /\ Replace({}, nextId, in) /\ nextId' = nextId + 1
    <3>1. documents' = documents \cup {row(nextId)}
      BY <2>3 DEF Replace
    <3>2. row(nextId) \in Document
      BY <1>1, <2>2 DEF Document
    <3>3. Added(row(nextId))
      BY <2>3, <3>1, <3>2 DEF Added
    <3> QED
      BY <3>3 DEF DocumentsChange
  <2>4. CASE /\ \E d \in documents : d.uri = in.uri /\ Replace({d}, d.id, in)
             /\ nextId' = nextId
    <3>1. PICK d \in documents : d.uri = in.uri /\ Replace({d}, d.id, in)
      BY <2>4
    <3>2. documents' = (documents \ {d}) \cup {row(d.id)}
      BY <3>1 DEF Replace
    <3>3. d.id \in Nat
      BY <1>1 DEF Document
    <3>4. row(d.id) \in Document
      BY <2>2, <3>3 DEF Document
    <3>5. Changed(d, row(d.id))
      BY <2>4, <3>1, <3>2, <3>4 DEF Changed
    <3> QED
      BY <3>5 DEF DocumentsChange
  <2> QED
    BY <1>3, <2>3, <2>4 DEF CommitUpsert
<1>4. ASSUME StoreNext PROVE DocumentsChange
  <2>1. ASSUME NEW w \in Writers, NEW u \in Uris, NEW r \in Roots, NEW h \in Contents,
               MissHash(w, u, r, h)
        PROVE  Fewer
    BY <2>1 DEF MissHash, Fewer
  <2>2. ASSUME NEW w \in Writers, AbortUpsert(w) PROVE Fewer
    BY <2>2 DEF AbortUpsert, Fewer
  <2>3. ASSUME NEW u \in Uris, DeleteDocument(u) PROVE Fewer
    BY <1>2, <2>3 DEF DeleteDocument
  <2>4. ASSUME NEW p \in UriPrefixes, DeleteDocumentsByURIPrefix(p) PROVE Fewer
    BY <1>2, <2>4 DEF DeleteDocumentsByURIPrefix
  <2>5. ASSUME DeleteDocumentsWithoutChunks PROVE Fewer
    BY <1>2, <2>5 DEF DeleteDocumentsWithoutChunks
  <2> QED
    BY <1>3, <1>4, <2>1, <2>2, <2>3, <2>4, <2>5 DEF StoreNext, DocumentsChange
<1>5. ASSUME UNCHANGED storeVars PROVE Fewer
  BY <1>5 DEF storeVars, Fewer
<1>6. ASSUME NEW p \in Sweepers, SweepDocument(p) PROVE Fewer
  BY <1>6 DEF SweepDocument, DeleteRowsDocument, Fewer
<1>7. ASSUME NEW s \in WebSources, DeleteWebSource(s) PROVE Fewer
  BY <1>2, <1>7 DEF DeleteWebSource
<1> QED
  BY <1>4, <1>5, <1>6, <1>7
  DEF Next, vars, DocumentStep, UpsertRow, MarkStale, BeginSweep, BeginDeleteByPath, SweepRow,
      AbortSweep, DeleteRepoSource, DocumentsChange

\* Each of these is a step of Corpus, or changes nothing that readers see.
LEMMA CorpusStep ==
  ASSUME StoreBase, StoreBase', nextId >= 1, DocumentsChange
  PROVE  [Readers!Next]_Readers!vars
<1>1. /\ documents \subseteq Document /\ OneEach(documents) /\ nextId \in Nat
      /\ OneEach(documents') /\ \A d \in documents : d.id < nextId
  BY DEF StoreBase, StoreTypeOK, DocumentKeys, OneEach
<1>2. Held = HeldBy(documents) /\ Held' = HeldBy(documents')
  BY HeldNow, HeldNext
<1>3. \A d \in documents : Held[d.uri] = [id |-> d.id, entry |-> Whole(d.root, d.hash)]
  BY <1>1, <1>2, TheDocument DEF HeldBy
<1>4. \A d \in documents' : Held'[d.uri] = [id |-> d.id, entry |-> Whole(d.root, d.hash)]
  BY <1>1, <1>2, TheDocument DEF HeldBy
<1>5. /\ DOMAIN Held = {d.uri : d \in documents} /\ Held = [u \in DOMAIN Held |-> Held[u]]
      /\ DOMAIN Held' = {d.uri : d \in documents'} /\ Held' = [u \in DOMAIN Held' |-> Held'[u]]
  BY <1>2 DEF HeldBy
<1> DEFINE Numbered == 1 .. (nextId - 1)
<1>6. ASSUME NEW d, Added(d)
      PROVE  Readers!Add(d.uri, Whole(d.root, d.hash))
  <2> DEFINE entry == Whole(d.root, d.hash)
  <2>1. d.uri \notin DOMAIN Held
    BY <1>5, <1>6 DEF Added
  <2>2. nextId \in (1 .. MaxDocId) \ Numbered /\ Numbered' = Numbered \cup {nextId}
    BY <1>1, <1>6, StoreAssumption DEF Added
  <2>3. Held' = [v \in DOMAIN Held \cup {d.uri} |->
                  IF v = d.uri THEN [id |-> nextId, entry |-> entry] ELSE Held[v]]
    <3>1. DOMAIN Held' = DOMAIN Held \cup {d.uri}
      BY <1>5, <1>6 DEF Added
    <3>2. Held'[d.uri] = [id |-> nextId, entry |-> entry]
      BY <1>4, <1>6 DEF Added
    <3>3. \A e \in documents : e.uri # d.uri /\ Held'[e.uri] = Held[e.uri]
      BY <1>3, <1>4, <1>6 DEF Added
    <3>4. \A v \in DOMAIN Held : v # d.uri /\ Held'[v] = Held[v]
      BY <1>5, <3>3
    <3> HIDE DEF entry
    <3> QED
      BY <1>5, <3>1, <3>2, <3>4
  <2> QED
    BY <2>1, <2>2, <2>3 DEF Readers!Add, Readers!Holding
<1>7. ASSUME NEW d, NEW e, Changed(d, e)
      PROVE  Readers!Change(e.uri, Whole(e.root, e.hash))
  <2> DEFINE entry == Whole(e.root, e.hash)
  <2>1. e.uri \in DOMAIN Held /\ Held[e.uri].id = e.id
    <3>1. Held[d.uri] = [id |-> d.id, entry |-> Whole(d.root, d.hash)]
      BY <1>3, <1>7 DEF Changed
    <3> QED
      BY <1>5, <1>7, <3>1 DEF Changed
  <2>2. Held' = [v \in DOMAIN Held \cup {e.uri} |->
                  IF v = e.uri THEN [id |-> e.id, entry |-> entry] ELSE Held[v]]
    <3>1. DOMAIN Held' = DOMAIN Held \cup {e.uri}
      BY <1>5, <1>7 DEF Changed
    <3>2. Held'[e.uri] = [id |-> e.id, entry |-> entry]
      BY <1>4, <1>7 DEF Changed
    <3>3. ASSUME NEW x \in documents, x.uri # e.uri PROVE Held'[x.uri] = Held[x.uri]
      BY <1>3, <1>4, <1>7, <3>3 DEF Changed
    <3>4. \A v \in DOMAIN Held : v # e.uri => Held'[v] = Held[v]
      BY <1>5, <3>3
    <3> HIDE DEF entry
    <3> QED
      BY <1>5, <3>1, <3>2, <3>4
  <2>3. nextId' = nextId
    BY <1>7 DEF Changed
  <2> QED
    BY <2>1, <2>2, <2>3 DEF Readers!Change, Readers!Holding
<1>8. ASSUME Fewer
      PROVE  Readers!Remove({d.uri : d \in documents \ documents'})
  <2> DEFINE us == {d.uri : d \in documents \ documents'}
  <2>1. DOMAIN Held' = DOMAIN Held \ us
    BY <1>1, <1>5, <1>8 DEF Fewer, OneEach
  <2>2. \A v \in DOMAIN Held' : Held'[v] = Held[v]
    <3>1. \A d \in documents' : Held'[d.uri] = Held[d.uri]
      <4>1. ASSUME NEW d \in documents' PROVE Held'[d.uri] = Held[d.uri]
        <5>1. Held[d.uri] = [id |-> d.id, entry |-> Whole(d.root, d.hash)]
          BY <1>3, <1>8 DEF Fewer
        <5>2. Held'[d.uri] = [id |-> d.id, entry |-> Whole(d.root, d.hash)]
          BY <1>4
        <5> QED
          BY <5>1, <5>2
      <4> QED
        BY <4>1
    <3> QED
      BY <1>5, <3>1
  <2>3. Held' = [u \in DOMAIN Held \ us |-> Held[u]]
    <3> HIDE DEF us
    <3> QED
      BY <1>5, <2>1, <2>2
  <2>4. nextId' = nextId
    BY <1>8 DEF Fewer
  <2> QED
    BY <2>3, <2>4 DEF Readers!Remove
<1>9. CASE \E d : Added(d)
  <2>1. PICK d : Added(d)
    BY <1>9
  <2>2. d.uri \in Uris /\ d.root \in Roots /\ d.hash \in Contents
    BY <2>1 DEF Added, Document
  <2> QED
    BY <1>6, <2>1, <2>2 DEF Readers!Next
<1>10. CASE \E d, e : Changed(d, e)
  <2>1. PICK d, e : Changed(d, e)
    BY <1>10
  <2>2. e.uri \in Uris /\ e.root \in Roots /\ e.hash \in Contents
    BY <2>1 DEF Changed, Document
  <2> QED
    BY <1>7, <2>1, <2>2 DEF Readers!Next
<1>11. CASE Fewer
  <2> DEFINE us == {d.uri : d \in documents \ documents'}
  <2>1. us \in SUBSET Uris
    BY <1>1 DEF Document
  <2>2. Readers!Remove(us)
    BY <1>8, <1>11
  <2> HIDE DEF us
  <2> QED
    BY <2>1, <2>2 DEF Readers!Next
<1> QED
  BY <1>9, <1>10, <1>11 DEF DocumentsChange

(* Whatever ingests, deletes and sweeps interleave, a reader finds under a *)
(* URI the whole of one content or nothing, a replaced document keeps its  *)
(* id, and no id given once names another document.                        *)
THEOREM RowsImplementCorpus == Spec => ImplementsCorpus
<1> DEFINE CInv == IInv /\ nextId >= 1
<1>1. Init => CInv /\ Readers!Init
  <2>1. SUFFICES ASSUME Init PROVE CInv /\ Readers!Init
    OBVIOUS
  <2>2. documents = {} /\ nextId = 1
    BY <2>1 DEF Init, StoreInit
  <2>3. Held = [u \in {} |-> {}]
    BY <2>2 DEF Held
  <2>4. 1 .. (nextId - 1) = {}
    BY <2>2
  <2> QED
    BY <2>1, <2>2, <2>3, <2>4, IInvInit DEF Readers!Init
<1>2. CInv /\ [Next]_vars => CInv' /\ [Readers!Next]_Readers!vars
  <2>1. SUFFICES ASSUME CInv, [Next]_vars PROVE CInv' /\ [Readers!Next]_Readers!vars
    OBVIOUS
  <2>2. IInv' /\ StoreBase /\ StoreBase'
    BY <2>1, IInvStep DEF IInv
  <2>3. DocumentsChange
    BY <2>1, <2>2, DocumentSteps
  <2>4. nextId' >= 1
    BY <2>1, <2>2, <2>3 DEF DocumentsChange, Added, Changed, Fewer, StoreBase, StoreTypeOK
  <2> QED
    BY <2>1, <2>2, <2>3, <2>4, CorpusStep
<1> QED
  BY <1>1, <1>2, PTL DEF Spec, ImplementsCorpus, Readers!Spec
-----------------------------------------------------------------------------
(* Sums of amounts over finite sets.  SumFunction is a fold; that it adds  *)
(* is proved from Sums, a table of the sums over all subsets, which exists *)
(* and is determined because the sets of subsets that have {} and every    *)
(* extension by an element have all of them.                               *)

\* A set with 0 and every successor has all the numbers.
LEMMA AllNumbers ==
  ASSUME NEW S, 0 \in S, \A n \in Nat : n \in S => n + 1 \in S
  PROVE  Nat \subseteq S
<1> DEFINE T == Nat \ S
<1>1. SUFFICES ASSUME T # {} PROVE FALSE
  OBVIOUS
<1>2. PICK m \in T : \A k \in T : ~ (<<k, m>> \in OpToRel(<, Nat))
  BY <1>1, NatLessThanWellFounded, WFMin, Zenon
<1>3. m \in Nat /\ m # 0 /\ m - 1 \in Nat
  OBVIOUS
<1>4. m - 1 \in T
  BY <1>3
<1>5. <<m - 1, m>> \in Nat \X Nat /\ <<m - 1, m>>[1] < <<m - 1, m>>[2]
  BY <1>3
<1>6. <<m - 1, m>> \in OpToRel(<, Nat)
  BY <1>5 DEF OpToRel
<1> QED
  BY <1>2, <1>4, <1>6

\* A set without one of its elements.
LEMMA OneLess ==
  ASSUME NEW s, IsFiniteSet(s), NEW x \in s, NEW n \in Nat, Cardinality(s) = n + 1
  PROVE  Cardinality(s \ {x}) = n
<1>1. IsFiniteSet(s \ {x}) /\ Cardinality(s \ {x}) = Cardinality(s) - 1
  BY FS_RemoveElement
<1> QED
  BY <1>1

\* A set with {} and every extension by an element has all subsets of a finite set.
LEMMA AllSubsets ==
  ASSUME NEW D, IsFiniteSet(D), NEW Q, {} \in Q,
         \A s \in SUBSET D : \A x \in D \ s : s \in Q => s \cup {x} \in Q
  PROVE  SUBSET D \subseteq Q
<1> DEFINE S == {n \in Nat : \A s \in SUBSET D : Cardinality(s) = n => s \in Q}
<1>1. \A s \in SUBSET D : IsFiniteSet(s) /\ Cardinality(s) \in Nat
  BY FS_Subset, FS_CardinalityType
<1>2. 0 \in S
  BY <1>1, FS_EmptySet
<1>3. ASSUME NEW n \in Nat, n \in S PROVE n + 1 \in S
  <2>1. SUFFICES ASSUME NEW s \in SUBSET D, Cardinality(s) = n + 1 PROVE s \in Q
    OBVIOUS
  <2>2. IsFiniteSet(s) /\ s # {}
    BY <1>1, <2>1, FS_EmptySet
  <2>3. PICK x : x \in s
    BY <2>2
  <2>4. Cardinality(s \ {x}) = n
    BY <2>1, <2>2, <2>3, OneLess
  <2>5. s \ {x} \in Q
    BY <1>3, <2>4
  <2>6. (s \ {x}) \cup {x} = s /\ x \in D \ (s \ {x}) /\ s \ {x} \in SUBSET D
    BY <2>3
  <2> QED
    BY <2>5, <2>6
<1>4. Nat \subseteq S
  <2> HIDE DEF S
  <2> QED
    BY <1>2, <1>3, AllNumbers
<1> QED
  BY <1>1, <1>4

\* t has the sum of f over every subset of D.
Sums(t, f, D) ==
  /\ t \in [SUBSET D -> Nat] /\ t[{}] = 0
  /\ \A s \in SUBSET D : \A x \in s : t[s] = f[x] + t[s \ {x}]

\* The sums of all parts of a finite set exist.
LEMMA SumsExist ==
  ASSUME NEW D, IsFiniteSet(D), NEW f \in [D -> Nat]
  PROVE  \E t : Sums(t, f, D)
<1> DEFINE Q == {s \in SUBSET D : \E t : Sums(t, f, s)}
<1>1. {} \in Q
  <2> DEFINE t == [s \in SUBSET {} |-> 0]
  <2>1. Sums(t, f, {})
    BY DEF Sums
  <2> QED
    BY <2>1
<1>2. ASSUME NEW s \in SUBSET D, NEW x \in D \ s, s \in Q PROVE s \cup {x} \in Q
  <2>1. PICK t : Sums(t, f, s)
    BY <1>2
  <2> DEFINE w == s \cup {x}
             n == [u \in SUBSET w |-> IF x \in u THEN f[x] + t[u \ {x}] ELSE t[u]]
  <2>2. f[x] \in Nat /\ \A u \in SUBSET s : t[u] \in Nat
    BY <2>1 DEF Sums
  <2>3. \A u \in SUBSET w : (x \in u => u \ {x} \in SUBSET s) /\ (x \notin u => u \in SUBSET s)
    OBVIOUS
  <2>4. n \in [SUBSET w -> Nat]
    BY <2>2, <2>3
  <2>5. n[{}] = 0
    BY <2>1 DEF Sums
  <2>6. ASSUME NEW u \in SUBSET w, NEW y \in u PROVE n[u] = f[y] + n[u \ {y}]
    <3>1. u \ {y} \in SUBSET w /\ f[y] \in Nat
      OBVIOUS
    <3>2. CASE x \notin u
      <4>1. u \in SUBSET s /\ n[u] = t[u] /\ n[u \ {y}] = t[u \ {y}]
        BY <3>1, <3>2
      <4> QED
        BY <2>1, <4>1 DEF Sums
    <3>3. CASE y = x
      <4>1. n[u] = f[x] + t[u \ {x}] /\ n[u \ {x}] = t[u \ {x}]
        BY <3>1, <3>3
      <4> QED
        BY <3>3, <4>1
    <3>4. CASE x \in u /\ y # x
      <4>1. n[u] = f[x] + t[u \ {x}] /\ n[u \ {y}] = f[x] + t[(u \ {y}) \ {x}]
        BY <3>1, <3>4
      <4>2. u \ {x} \in SUBSET s /\ y \in u \ {x} /\ (u \ {y}) \ {x} = (u \ {x}) \ {y}
        BY <3>4
      <4>3. t[u \ {x}] = f[y] + t[(u \ {x}) \ {y}]
        BY <2>1, <4>2 DEF Sums
      <4>4. t[(u \ {x}) \ {y}] \in Nat
        BY <2>2, <4>2
      <4> DEFINE a == t[(u \ {x}) \ {y}]
      <4>5. n[u] = f[x] + (f[y] + a) /\ n[u \ {y}] = f[x] + a
        BY <4>1, <4>2, <4>3
      <4>6. a \in Nat
        BY <4>4
      <4> HIDE DEF a, n
      <4> QED
        BY <2>2, <3>1, <4>5, <4>6
    <3> QED
      BY <3>2, <3>3, <3>4
  <2>7. Sums(n, f, w)
    <3> HIDE DEF n, w
    <3> QED
      BY <2>4, <2>5, <2>6 DEF Sums
  <2> HIDE DEF n
  <2> QED
    BY <2>7
<1>3. SUBSET D \subseteq Q
  <2> HIDE DEF Q
  <2> QED
    BY <1>1, <1>2, AllSubsets
<1> QED
  BY <1>3

\* SumFunction is one of them.
LEMMA SumIsSums ==
  ASSUME NEW D, IsFiniteSet(D), NEW f \in [D -> Nat]
  PROVE  \E t : Sums(t, f, D) /\ SumFunction(f) = t[D]
<1>1. PICK t : Sums(t, f, D)
  BY SumsExist
<1> DEFINE F(i) == [s \in SUBSET D |-> IF s = {} THEN 0
                     ELSE f[CHOOSE x \in s : TRUE] + i[s \ {CHOOSE x \in s : TRUE}]]
           iter == CHOOSE i : i = F(i)
<1>2. t = F(t)
  <2>1. t \in [SUBSET D -> Nat]
    BY <1>1 DEF Sums
  <2>2. \A s \in SUBSET D : t[s] = F(t)[s]
    <3>1. SUFFICES ASSUME NEW s \in SUBSET D, s # {} PROVE t[s] = F(t)[s]
      BY <1>1 DEF Sums
    <3>2. PICK x : x = (CHOOSE y \in s : TRUE)
      OBVIOUS
    <3>3. x \in s
      BY <3>1, <3>2
    <3>4. t[s] = f[x] + t[s \ {x}]
      BY <1>1, <3>3 DEF Sums
    <3> QED
      BY <3>1, <3>2, <3>4
  <2> QED
    BY <2>1, <2>2
<1>3. iter = F(iter)
  <2> HIDE DEF F
  <2> QED
    BY <1>2, Zenon
<1>4. SumFunction(f) = iter[D]
  BY DEF SumFunction, SumFunctionOnSet, FoldFunctionOnSet, MapThenFoldSet
<1> HIDE DEF iter
<1>5. iter[{}] = 0
  BY <1>3
<1>6. \A s \in SUBSET D : s # {} =>
        LET x == CHOOSE x \in s : TRUE IN iter[s] = f[x] + iter[s \ {x}]
  BY <1>3
<1>7. iter[D] = t[D]
  <2> DEFINE S == {n \in Nat : \A s \in SUBSET D : Cardinality(s) = n => iter[s] = t[s]}
  <2>1. \A s \in SUBSET D : IsFiniteSet(s) /\ Cardinality(s) \in Nat
    BY FS_Subset, FS_CardinalityType
  <2>2. 0 \in S
    BY <1>1, <1>5, <2>1, FS_EmptySet DEF Sums
  <2>3. ASSUME NEW n \in Nat, n \in S PROVE n + 1 \in S
    <3>1. SUFFICES ASSUME NEW s \in SUBSET D, Cardinality(s) = n + 1 PROVE iter[s] = t[s]
      OBVIOUS
    <3>2. IsFiniteSet(s) /\ s # {}
      BY <2>1, <3>1, FS_EmptySet
    <3>3. PICK x : x = (CHOOSE y \in s : TRUE)
      OBVIOUS
    <3>4. x \in s
      BY <3>2, <3>3
    <3>5. Cardinality(s \ {x}) = n
      BY <3>1, <3>2, <3>4, OneLess
    <3>6. iter[s \ {x}] = t[s \ {x}]
      BY <2>3, <3>5
    <3>7. t[s] = f[x] + t[s \ {x}]
      BY <1>1, <3>4 DEF Sums
    <3>8. iter[s] = f[x] + iter[s \ {x}]
      BY <1>6, <3>2, <3>3
    <3> QED
      BY <3>6, <3>7, <3>8
  <2>4. Nat \subseteq S
    <3> HIDE DEF S
    <3> QED
      BY <2>2, <2>3, AllNumbers
  <2> QED
    BY <2>1, <2>4
<1> QED
  BY <1>1, <1>4, <1>7

\* Every part has one sum.
LEMMA OneSum ==
  ASSUME NEW D, IsFiniteSet(D), NEW f, NEW t, NEW u, Sums(t, f, D), Sums(u, f, D)
  PROVE  \A s \in SUBSET D : t[s] = u[s]
<1> DEFINE Q == {s \in SUBSET D : t[s] = u[s]}
<1>1. {} \in Q
  BY DEF Sums
<1>2. ASSUME NEW s \in SUBSET D, NEW x \in D \ s, s \in Q PROVE s \cup {x} \in Q
  <2>1. (s \cup {x}) \ {x} = s /\ s \cup {x} \in SUBSET D
    OBVIOUS
  <2> QED
    BY <1>2, <2>1 DEF Sums
<1> HIDE DEF Q
<1>3. SUBSET D \subseteq Q
  BY <1>1, <1>2, AllSubsets
<1> QED
  BY <1>3 DEF Q

\* What one more element adds.
LEMMA OneMore ==
  ASSUME NEW D, NEW f, NEW t, Sums(t, f, D), NEW s \in SUBSET D, NEW x \in D \ s
  PROVE  t[s \cup {x}] = f[x] + t[s] /\ t[s] \in Nat
<1>1. (s \cup {x}) \ {x} = s /\ s \cup {x} \in SUBSET D
  OBVIOUS
<1> QED
  BY <1>1 DEF Sums

\* A sum of numbers is a number.
LEMMA SumType ==
  ASSUME NEW D, IsFiniteSet(D), NEW f \in [D -> Nat]
  PROVE  SumFunction(f) \in Nat
<1>1. PICK t : Sums(t, f, D) /\ SumFunction(f) = t[D]
  BY SumIsSums
<1>2. D \in SUBSET D
  OBVIOUS
<1> QED
  BY <1>1, <1>2 DEF Sums

\* The sum over a part of at most as much.
LEMMA SumGrows ==
  ASSUME NEW D, IsFiniteSet(D), NEW E, E \in SUBSET D, NEW f \in [D -> Nat], NEW g \in [E -> Nat],
         \A x \in E : g[x] <= f[x]
  PROVE  SumFunction(g) <= SumFunction(f)
<1>1. IsFiniteSet(E)
  BY FS_Subset
<1>2. PICK t : Sums(t, f, D) /\ SumFunction(f) = t[D]
  BY SumIsSums
<1>3. PICK u : Sums(u, g, E) /\ SumFunction(g) = u[E]
  BY <1>1, SumIsSums
<1> DEFINE Q == {s \in SUBSET D : u[s \cap E] <= t[s]}
<1>4. {} \in Q
  <2>1. u[{}] = 0 /\ t[{}] = 0 /\ {} \cap E = {}
    BY <1>2, <1>3 DEF Sums
  <2> QED
    BY <2>1
<1>5. ASSUME NEW s \in SUBSET D, NEW x \in D \ s, s \in Q PROVE s \cup {x} \in Q
  <2>1. t[s \cup {x}] = f[x] + t[s] /\ t[s] \in Nat
    BY <1>2, OneMore
  <2>2. f[x] \in Nat /\ u[s \cap E] \in Nat /\ u[s \cap E] <= t[s]
    BY <1>3, <1>5 DEF Sums
  <2>3. CASE x \in E
    <3>1. x \in E \ (s \cap E) /\ s \cap E \in SUBSET E /\ (s \cup {x}) \cap E = (s \cap E) \cup {x}
      BY <2>3
    <3>2. u[(s \cap E) \cup {x}] = g[x] + u[s \cap E]
      BY <1>3, <3>1, OneMore
    <3>3. g[x] \in Nat /\ g[x] <= f[x]
      BY <2>3
    <3>4. u[(s \cup {x}) \cap E] = g[x] + u[s \cap E]
      BY <3>1, <3>2
    <3>5. g[x] + u[s \cap E] <= f[x] + t[s]
      BY <2>1, <2>2, <3>3
    <3> QED
      BY <2>1, <3>4, <3>5
  <2>4. CASE x \notin E
    <3>1. (s \cup {x}) \cap E = s \cap E
      BY <2>4
    <3> QED
      BY <2>1, <2>2, <3>1
  <2> QED
    BY <2>3, <2>4
<1>6. D \in Q
  <2> HIDE DEF Q
  <2>1. SUBSET D \subseteq Q
    BY <1>4, <1>5, AllSubsets
  <2> QED
    BY <2>1
<1>7. D \cap E = E
  OBVIOUS
<1> QED
  BY <1>2, <1>3, <1>6, <1>7

\* What is 0 outside a part adds up to the sum over the part.
LEMMA SumOfPart ==
  ASSUME NEW D, IsFiniteSet(D), NEW E, E \in SUBSET D, NEW f \in [D -> Nat], NEW g \in [E -> Nat],
         \A x \in E : g[x] = f[x], \A x \in D \ E : f[x] = 0
  PROVE  SumFunction(g) = SumFunction(f)
<1>1. IsFiniteSet(E)
  BY FS_Subset
<1>2. PICK t : Sums(t, f, D) /\ SumFunction(f) = t[D]
  BY SumIsSums
<1>3. PICK u : Sums(u, g, E) /\ SumFunction(g) = u[E]
  BY <1>1, SumIsSums
<1> DEFINE Q == {s \in SUBSET D : u[s \cap E] = t[s]}
<1>4. {} \in Q
  <2>1. u[{}] = 0 /\ t[{}] = 0 /\ {} \cap E = {}
    BY <1>2, <1>3 DEF Sums
  <2> QED
    BY <2>1
<1>5. ASSUME NEW s \in SUBSET D, NEW x \in D \ s, s \in Q PROVE s \cup {x} \in Q
  <2>1. t[s \cup {x}] = f[x] + t[s] /\ t[s] \in Nat
    BY <1>2, OneMore
  <2>2. u[s \cap E] = t[s]
    BY <1>5
  <2>3. CASE x \in E
    <3>1. x \in E \ (s \cap E) /\ s \cap E \in SUBSET E /\ (s \cup {x}) \cap E = (s \cap E) \cup {x}
      BY <2>3
    <3>2. u[(s \cap E) \cup {x}] = g[x] + u[s \cap E]
      <4> DEFINE r == s \cap E
      <4>1. r \in SUBSET E /\ x \in E \ r
        BY <3>1
      <4> HIDE DEF r, Q
      <4>2. u[r \cup {x}] = g[x] + u[r]
        BY <1>3, <4>1, OneMore
      <4> QED
        BY <4>2 DEF r
    <3>3. g[x] = f[x]
      BY <2>3
    <3> QED
      BY <2>1, <2>2, <3>1, <3>2, <3>3
  <2>4. CASE x \notin E
    <3>1. (s \cup {x}) \cap E = s \cap E /\ f[x] = 0
      BY <2>4
    <3> QED
      BY <2>1, <2>2, <3>1
  <2> QED
    BY <2>3, <2>4
<1>6. D \in Q
  <2> HIDE DEF Q
  <2>1. SUBSET D \subseteq Q
    BY <1>4, <1>5, AllSubsets
  <2> QED
    BY <2>1
<1>7. D \cap E = E
  OBVIOUS
<1> QED
  BY <1>2, <1>3, <1>6, <1>7

\* Sums are added element by element.
LEMMA SumAdded ==
  ASSUME NEW D, IsFiniteSet(D), NEW f \in [D -> Nat], NEW g \in [D -> Nat], NEW h \in [D -> Nat],
         \A x \in D : h[x] = f[x] + g[x]
  PROVE  SumFunction(h) = SumFunction(f) + SumFunction(g)
<1>1. PICK t : Sums(t, f, D) /\ SumFunction(f) = t[D]
  BY SumIsSums
<1>2. PICK u : Sums(u, g, D) /\ SumFunction(g) = u[D]
  BY SumIsSums
<1>3. PICK v : Sums(v, h, D) /\ SumFunction(h) = v[D]
  BY SumIsSums
<1> DEFINE Q == {s \in SUBSET D : v[s] = t[s] + u[s]}
<1>4. {} \in Q
  BY <1>1, <1>2, <1>3 DEF Sums
<1>5. ASSUME NEW s \in SUBSET D, NEW x \in D \ s, s \in Q PROVE s \cup {x} \in Q
  <2>1. t[s \cup {x}] = f[x] + t[s] /\ t[s] \in Nat
    BY <1>1, OneMore
  <2>2. u[s \cup {x}] = g[x] + u[s] /\ u[s] \in Nat
    BY <1>2, OneMore
  <2>3. v[s \cup {x}] = h[x] + v[s] /\ v[s] \in Nat
    BY <1>3, OneMore
  <2>4. h[x] = f[x] + g[x] /\ f[x] \in Nat /\ g[x] \in Nat /\ v[s] = t[s] + u[s]
    BY <1>5
  <2>5. v[s \cup {x}] = t[s \cup {x}] + u[s \cup {x}]
    BY <2>1, <2>2, <2>3, <2>4
  <2> QED
    BY <2>5
<1>6. D \in Q
  <2> HIDE DEF Q
  <2>1. SUBSET D \subseteq Q
    BY <1>4, <1>5, AllSubsets
  <2> QED
    BY <2>1
<1> QED
  BY <1>1, <1>2, <1>3, <1>6

\* A sum of ones counts.
LEMMA SumOfOnes ==
  ASSUME NEW D, IsFiniteSet(D), NEW f \in [D -> Nat], \A x \in D : f[x] = 1
  PROVE  SumFunction(f) = Cardinality(D)
<1>1. PICK t : Sums(t, f, D) /\ SumFunction(f) = t[D]
  BY SumIsSums
<1> DEFINE Q == {s \in SUBSET D : t[s] = Cardinality(s)}
<1>2. {} \in Q
  BY <1>1, FS_EmptySet DEF Sums
<1>3. ASSUME NEW s \in SUBSET D, NEW x \in D \ s, s \in Q PROVE s \cup {x} \in Q
  <2>1. t[s \cup {x}] = f[x] + t[s] /\ t[s] \in Nat /\ f[x] = 1
    BY <1>1, OneMore
  <2>2. IsFiniteSet(s)
    BY FS_Subset
  <2>3. Cardinality(s \cup {x}) = Cardinality(s) + 1
    BY <2>2, FS_AddElement
  <2> QED
    BY <1>3, <2>1, <2>3
<1>4. D \in Q
  <2> HIDE DEF Q
  <2>1. SUBSET D \subseteq Q
    BY <1>2, <1>3, AllSubsets
  <2> QED
    BY <2>1
<1> QED
  BY <1>1, <1>4

\* Two parts without a common element.
LEMMA TwoParts ==
  ASSUME NEW D, IsFiniteSet(D), NEW f, NEW t, Sums(t, f, D), NEW c \in SUBSET D,
         NEW e \in SUBSET D, c \cap e = {}, \A x \in D : f[x] \in Nat
  PROVE  t[c \cup e] = t[c] + t[e]
<1> DEFINE Q == {s \in SUBSET e : t[c \cup s] = t[c] + t[s]}
<1>1. t[c] \in Nat /\ t[{}] = 0 /\ IsFiniteSet(e)
  BY FS_Subset DEF Sums
<1>2. {} \in Q
  <2>1. c \cup {} = c
    OBVIOUS
  <2> QED
    BY <1>1, <2>1
<1>3. ASSUME NEW s \in SUBSET e, NEW x \in e \ s, s \in Q PROVE s \cup {x} \in Q
  <2>1. s \in SUBSET D /\ x \in D \ s /\ c \cup s \in SUBSET D /\ x \in D \ (c \cup s)
    OBVIOUS
  <2>2. t[s \cup {x}] = f[x] + t[s] /\ t[s] \in Nat
    BY <2>1, OneMore
  <2>3. t[(c \cup s) \cup {x}] = f[x] + t[c \cup s] /\ t[c \cup s] \in Nat
    BY <2>1, OneMore
  <2>4. c \cup (s \cup {x}) = (c \cup s) \cup {x} /\ f[x] \in Nat /\ t[c \cup s] = t[c] + t[s]
    BY <1>3
  <2>5. t[(c \cup s) \cup {x}] = t[c] + t[s \cup {x}]
    BY <1>1, <2>2, <2>3, <2>4
  <2>6. t[c \cup (s \cup {x})] = t[c] + t[s \cup {x}]
    BY <2>4, <2>5
  <2> QED
    BY <2>6
<1>4. e \in Q
  <2> HIDE DEF Q
  <2>1. \A s \in SUBSET e : \A x \in e \ s : s \in Q => s \cup {x} \in Q
    BY <1>3
  <2>2. IsFiniteSet(e)
    BY <1>1
  <2>3. SUBSET e \subseteq Q
    BY ONLY <1>2, <2>1, <2>2, AllSubsets
  <2> QED
    BY <2>3
<1> QED
  BY <1>4

\* The sums of a part are those of its own function.
LEMMA SumOver ==
  ASSUME NEW D, IsFiniteSet(D), NEW f \in [D -> Nat], NEW t, Sums(t, f, D), NEW e \in SUBSET D,
         NEW g \in [e -> Nat], \A x \in e : g[x] = f[x]
  PROVE  SumFunction(g) = t[e]
<1>1. IsFiniteSet(e)
  BY FS_Subset
<1>2. PICK u : Sums(u, g, e) /\ SumFunction(g) = u[e]
  BY <1>1, SumIsSums
<1> DEFINE w == [s \in SUBSET e |-> t[s]]
<1>3. Sums(w, g, e)
  <2>1. w \in [SUBSET e -> Nat] /\ w[{}] = 0
    BY DEF Sums
  <2>2. ASSUME NEW s \in SUBSET e, NEW x \in s PROVE w[s] = g[x] + w[s \ {x}]
    <3>1. s \in SUBSET D /\ s \ {x} \in SUBSET e /\ g[x] = f[x]
      OBVIOUS
    <3> QED
      BY <3>1 DEF Sums
  <2> HIDE DEF w
  <2> QED
    BY <2>1, <2>2 DEF Sums
<1>4. u[e] = w[e]
  <2> HIDE DEF w
  <2> QED
    BY <1>1, <1>2, <1>3, OneSum
<1> QED
  BY <1>2, <1>4

\* The sum of the sums by key is the sum.
LEMMA SumByKey ==
  ASSUME NEW D, IsFiniteSet(D), NEW f \in [D -> Nat], NEW B, IsFiniteSet(B), NEW key \in [D -> B],
         NEW p \in [B -> Nat],
         \A b \in B : p[b] = SumFunction([x \in {y \in D : key[y] = b} |-> f[x]])
  PROVE  SumFunction(p) = SumFunction(f)
<1> DEFINE Of(c) == {x \in D : key[x] \in c}
<1>1. PICK t : Sums(t, f, D) /\ SumFunction(f) = t[D]
  BY SumIsSums
<1>2. PICK u : Sums(u, p, B) /\ SumFunction(p) = u[B]
  BY SumIsSums
<1> DEFINE Q == {c \in SUBSET B : u[c] = t[Of(c)]}
<1>3. {} \in Q
  <2>1. Of({}) = {}
    OBVIOUS
  <2> HIDE DEF Of
  <2> QED
    BY <1>1, <1>2, <2>1 DEF Sums
<1>4. ASSUME NEW c \in SUBSET B, NEW b \in B \ c, c \in Q PROVE c \cup {b} \in Q
  <2> DEFINE e == {y \in D : key[y] = b}
             g == [x \in e |-> f[x]]
  <2>1. u[c \cup {b}] = p[b] + u[c]
    BY <1>2, OneMore
  <2>2. Of(c) \in SUBSET D /\ e \in SUBSET D /\ Of(c) \cap e = {} /\ Of(c \cup {b}) = Of(c) \cup e
    OBVIOUS
  <2>3. g \in [e -> Nat] /\ \A x \in e : g[x] = f[x]
    OBVIOUS
  <2>4. p[b] = SumFunction(g)
    OBVIOUS
  <2> HIDE DEF Of, e, g
  <2>5. SumFunction(g) = t[e]
    BY <1>1, <2>2, <2>3, SumOver
  <2>6. t[Of(c) \cup e] = t[Of(c)] + t[e]
    <3>1. \A x \in D : f[x] \in Nat
      OBVIOUS
    <3> QED
      BY <1>1, <2>2, <3>1, TwoParts
  <2>7. t[Of(c)] \in Nat /\ t[e] \in Nat
    BY <1>1, <2>2 DEF Sums
  <2>8. u[c \cup {b}] = t[Of(c \cup {b})]
    <3>1. u[c] = t[Of(c)]
      BY <1>4
    <3>2. t[Of(c \cup {b})] = t[Of(c)] + t[e]
      BY <2>2, <2>6
    <3>3. u[c \cup {b}] = t[e] + t[Of(c)]
      BY <2>1, <2>4, <2>5, <3>1
    <3> QED
      BY <2>7, <3>2, <3>3
  <2> QED
    BY <2>8
<1>5. B \in Q
  <2> HIDE DEF Q
  <2>1. SUBSET B \subseteq Q
    BY <1>3, <1>4, AllSubsets
  <2> QED
    BY <2>1
<1>6. Of(B) = D
  OBVIOUS
<1> HIDE DEF Of
<1> QED
  BY <1>1, <1>2, <1>5, <1>6
-----------------------------------------------------------------------------
(* The larger and the smaller of two numbers.                              *)

\* The larger of two numbers.
LEMMA GreaterOfTwo ==
  ASSUME NEW a \in Int, NEW b \in Int
  PROVE  /\ Max({a, b}) \in {a, b} /\ Max({a, b}) \in Int
         /\ Max({a, b}) >= a /\ Max({a, b}) >= b
<1> DEFINE S == {a, b}
<1>1. \E x \in S : \A y \in S : x >= y
  OBVIOUS
<1> HIDE DEF S
<1>2. Max(S) \in S /\ \A y \in S : Max(S) >= y
  BY <1>1, Zenon DEF Max
<1> QED
  BY <1>2 DEF S

\* The smaller of two numbers.
LEMMA LesserOfTwo ==
  ASSUME NEW a \in Int, NEW b \in Int
  PROVE  /\ Min({a, b}) \in {a, b} /\ Min({a, b}) \in Int
         /\ Min({a, b}) <= a /\ Min({a, b}) <= b
<1> DEFINE S == {a, b}
<1>1. \E x \in S : \A y \in S : x <= y
  OBVIOUS
<1> HIDE DEF S
<1>2. Min(S) \in S /\ \A y \in S : Min(S) <= y
  BY <1>1, Zenon DEF Min
<1> QED
  BY <1>2 DEF S
-----------------------------------------------------------------------------
(* What the handlers build.                                                *)

Columns == {"tool", "status", "roots", "class", "coverage", "applicable", "choice", "returned",
            "structured", "raw", "source", "avoided", "citations", "curated", "recipes",
            "symbols", "sources", "evidence", "at"}

\* What the reports rely on: a status, amounts that agree with it, and the
\* parts of the tokens that make up the whole.
SoundOutcome(e) ==
  /\ e.status \in Grounded \cup Ungrounded
  /\ e.choice \in BOOLEAN /\ (e.choice => e.status = "root_selection_required")
  /\ e.curated \in Nat /\ (e.curated > 0 => IsGrounded(e))
  /\ IsFiniteSet(e.roots)

SoundAmounts(e) ==
  /\ e.returned \in Nat /\ e.structured \in Nat /\ e.raw \in Nat
  /\ e.source \in Nat /\ e.avoided \in Nat
  /\ e.structured + e.raw = e.returned

SoundEvent(e) ==
  /\ DOMAIN e = Columns
  /\ SoundOutcome(e) /\ SoundAmounts(e)

\* A row has the columns of the event, and a time.
LEMMA RowColumns ==
  ASSUME NEW call, NEW at, SoundEvent(EventOf(call))
  PROVE  LET e == EventRow(call, at) IN SoundOutcome(e) /\ SoundAmounts(e) /\ e.at = at
<1> DEFINE d == EventOf(call)
           e == EventRow(call, at)
<1>1. DOMAIN d = Columns
  BY DEF SoundEvent
<1> HIDE DEF d
<1>2. e = [d EXCEPT !.at = at]
  BY DEF EventRow, d
<1>3. e.at = at
  BY <1>1, <1>2 DEF Columns
<1>4. \A x \in Columns \ {"at"} : e[x] = d[x]
  BY <1>1, <1>2
<1> HIDE DEF e
<1>5. /\ e.status = d.status /\ e.choice = d.choice /\ e.curated = d.curated /\ e.roots = d.roots
      /\ e.returned = d.returned /\ e.structured = d.structured /\ e.raw = d.raw
      /\ e.source = d.source /\ e.avoided = d.avoided
  BY <1>4 DEF Columns
<1>6. SoundOutcome(d) /\ SoundAmounts(d)
  BY DEF SoundEvent, d
<1>7. SoundOutcome(e)
  BY <1>5, <1>6 DEF SoundOutcome, IsGrounded
<1>8. SoundAmounts(e)
  BY <1>5, <1>6 DEF SoundAmounts
<1> QED
  BY <1>3, <1>7, <1>8 DEF e

\* The handlers that fill in an event themselves.
LEMMA PlainEvents ==
  ASSUME NEW call \in Calls, CallAssumption
  PROVE  /\ call.outcome = "choice" => SoundEvent(RootSelectionEvent(call))
         /\ call.outcome = "error" => SoundEvent(ErrorEvent(call))
         /\ call.outcome = "hits" => /\ SoundEvent(SymbolsEvent(call))
                                     /\ SoundEvent(SearchEvent(call))
                                     /\ SoundEvent(DocumentEvent(call))
<1>1. IsFiniteSet(call.roots) /\ IsFiniteSet({})
  BY FS_EmptySet DEF CallAssumption
<1>2. SoundEvent(RootSelectionEvent(call))
  BY <1>1 DEF RootSelectionEvent, Classified, Event, SoundEvent, SoundOutcome, SoundAmounts,
              Grounded, Ungrounded, IsGrounded, Columns
<1>3. SoundEvent(ErrorEvent(call))
  BY <1>1 DEF ErrorEvent, Classified, Event, SoundEvent, SoundOutcome, SoundAmounts,
              Grounded, Ungrounded, IsGrounded, Columns
<1>4. SoundEvent(SymbolsEvent(call))
  BY <1>1 DEF SymbolsEvent, Event, SoundEvent, SoundOutcome, SoundAmounts,
              Grounded, Ungrounded, IsGrounded, Columns
<1>5. SoundEvent(SearchEvent(call))
  BY <1>1 DEF SearchEvent, Event, SoundEvent, SoundOutcome, SoundAmounts,
              Grounded, Ungrounded, IsGrounded, Columns
<1>6. SoundEvent(DocumentEvent(call))
  BY <1>1 DEF DocumentEvent, Event, SoundEvent, SoundOutcome, SoundAmounts,
              Grounded, Ungrounded, IsGrounded, Columns
<1> QED
  BY <1>2, <1>3, <1>4, <1>5, <1>6

\* A number of positions is at most the length.
LEMMA Positions ==
  ASSUME NEW n \in Nat, NEW s, s \in SUBSET (1 .. n)
  PROVE  Cardinality(s) \in Nat /\ Cardinality(s) <= n
<1>1. IsFiniteSet(1 .. n) /\ Cardinality(1 .. n) = n
  BY FS_Interval
<1>2. IsFiniteSet(s) /\ Cardinality(s) <= Cardinality(1 .. n)
  BY <1>1, FS_Subset
<1> QED
  BY <1>1, <1>2, FS_CardinalityType

\* A part in proportion is at most the whole.
LEMMA Proportion ==
  ASSUME NEW a \in Nat, NEW b \in Nat, NEW d \in Nat, b <= d, d > 0
  PROVE  (a * b) \div d \in Nat /\ (a * b) \div d <= a
<1> DEFINE p == a * b
           q == p \div d
<1>1. p \in Nat /\ p <= a * d
  BY Z3
<1> HIDE DEF p
<1>2. q \in Int /\ d * q <= p /\ p < d * q + d
  BY <1>1, Z3
<1> HIDE DEF q
<1>3. q >= 0
  BY <1>1, <1>2, Z3
<1>4. q <= a
  <2>1. SUFFICES ASSUME q >= a + 1 PROVE FALSE
    BY <1>2
  <2>2. d * q >= d * (a + 1)
    BY <1>2, <2>1, Z3
  <2>3. d * (a + 1) = a * d + d
    BY Z3
  <2> QED
    BY <1>1, <1>2, <2>2, <2>3, Z3
<1> QED
  BY <1>3, <1>4, <1>2 DEF p, q

\* The parts of a package's tokens make up the whole.
LEMMA SharesAddUp ==
  ASSUME NEW returned \in Nat, NEW structured \in Nat, NEW raw \in Nat, NEW typed, NEW citations
  PROVE  LET s == Shares(returned, structured, raw, typed, citations)
         IN  /\ s.structured \in Nat /\ s.raw \in Nat
             /\ s.structured + s.raw = returned
<1> DEFINE total == structured + raw
           half == returned \div 2
           part == IF total > 0 THEN (returned * structured) \div total
                   ELSE IF typed = 0 THEN 0 ELSE IF citations = 0 THEN returned ELSE half
<1>1. total \in Nat /\ structured <= total
  OBVIOUS
<1>2. half \in Nat /\ half <= returned
  OBVIOUS
<1>3. part \in Nat /\ part <= returned
  <2>1. CASE total > 0
    <3> HIDE DEF total
    <3>1. (returned * structured) \div total \in Nat
          /\ (returned * structured) \div total <= returned
      BY <1>1, <2>1, Proportion
    <3> QED
      BY <2>1, <3>1
  <2>2. CASE ~ (total > 0)
    <3> HIDE DEF total, half
    <3> QED
      BY <1>2, <2>2
  <2> QED
    BY <2>1, <2>2
<1>4. Shares(returned, structured, raw, typed, citations) = [structured |-> part, raw |-> returned - part]
  BY DEF Shares
<1> HIDE DEF part
<1> QED
  BY <1>3, <1>4

\* A number raised to at least another.
LEMMA AtLeast ==
  ASSUME NEW k \in Nat, NEW n \in Int
  PROVE  Max({k, n}) \in Nat /\ Max({k, n}) >= k
<1>1. k \in Int
  OBVIOUS
<1>2. Max({k, n}) \in Int /\ Max({k, n}) >= k
  BY ONLY <1>1, n \in Int, GreaterOfTwo
<1> QED
  BY <1>2

\* A status agrees with the counts it is made from.
LEMMA StatusAgrees ==
  ASSUME NEW citations \in Nat, NEW symbols \in Nat, NEW curated \in Nat, NEW recipes \in Nat,
         NEW coverage, citations = 0 /\ recipes = 0 => curated = 0
  PROVE  LET s == StatusFromCounts(citations, symbols, curated, recipes, coverage)
         IN  s \in Grounded \cup Ungrounded /\ s # "root_selection_required"
             /\ (curated > 0 => s \in Grounded)
<1>1. CASE citations = 0 /\ symbols = 0 /\ recipes = 0
  BY <1>1 DEF StatusFromCounts, Grounded, Ungrounded
<1>2. CASE ~ (citations = 0 /\ symbols = 0 /\ recipes = 0)
  BY <1>2 DEF StatusFromCounts, Grounded, Ungrounded
<1> QED
  BY <1>1, <1>2

\* The source estimate of a package.
LEMMA EstimateType ==
  ASSUME NEW returned \in Nat, NEW shares
  PROVE  SourceEstimate(returned, shares) \in Nat
<1> DEFINE k == IF shares.structured = 0 /\ shares.raw > 0 THEN 2
                ELSE IF shares.structured > 0 /\ shares.raw = 0 THEN 4 ELSE 3
<1>1. k \in 2 .. 4
  OBVIOUS
<1>2. SourceEstimate(returned, shares) = returned * k
  BY DEF SourceEstimate
<1> HIDE DEF k
<1> QED
  BY <1>1, <1>2

\* A package becomes an event.
LEMMA PackageEvents ==
  ASSUME NEW call \in Calls, CallAssumption, call.outcome = "package"
  PROVE  SoundEvent(FromImplementationContext(call))
<1> DEFINE p == call.package
           cites == Len(p.citations)
           symbols == Len(p.symbols)
           types == [i \in 1 .. cites |-> ClassifyCitation(p.citations[i])]
           Typed(set) == Cardinality({i \in 1 .. cites : types[i] \in set})
           pieces == Max({1, cites + symbols})
           perPiece == IF p.tokens = 0 THEN 0 ELSE Max({1, p.tokens \div pieces})
           reviewed == IF p.reviewed THEN 1 ELSE 0
           recipes == Typed({"recipe"}) + reviewed
           curated == Max({Typed({"recipe", "curated"}), reviewed})
           coverage == NormalizeCoverage(p.coverage, CoverageApplicableForTool(call.tool))
           ofTyped == perPiece * (Typed({"recipe", "curated"}) + symbols)
           ofRaw == perPiece * Typed({"citation"})
           shares == Shares(p.tokens, ofTyped, ofRaw, curated + recipes + symbols, cites)
           source == SourceEstimate(p.tokens, shares)
           avoided == Max({0, source - p.tokens})
           status == StatusFromCounts(cites, symbols, curated, recipes, coverage)
           evidence == [i \in 1 .. cites |->
                          Evidence(types[i], p.citations[i].uri, perPiece, TRUE)]
                       \o [i \in DOMAIN p.symbols |->
                            Evidence("symbol", p.symbols[i], perPiece, TRUE)]
           e == [Classified(call, [Event(call, status) EXCEPT !.coverage = coverage])
                 EXCEPT !.returned = p.tokens,
                        !.structured = shares.structured, !.raw = shares.raw,
                        !.source = source, !.avoided = avoided,
                        !.citations = cites, !.sources = cites, !.symbols = symbols,
                        !.curated = curated, !.recipes = recipes, !.evidence = evidence]
<1>1. FromImplementationContext(call) = e
  BY DEF FromImplementationContext
<1>2. p.tokens \in Nat /\ p.reviewed \in BOOLEAN /\ cites \in Nat /\ symbols \in Nat
  BY DEF CallAssumption, Sequence
<1>3. IsFiniteSet(call.roots)
  BY DEF CallAssumption
<1> HIDE DEF p, cites, symbols, types
<1>4. ASSUME NEW set PROVE Typed(set) \in Nat /\ Typed(set) <= cites
  <2> DEFINE s == {i \in 1 .. cites : types[i] \in set}
  <2>1. s \in SUBSET (1 .. cites)
    OBVIOUS
  <2> HIDE DEF s
  <2>2. Cardinality(s) \in Nat /\ Cardinality(s) <= cites
    BY <1>2, <2>1, Positions
  <2> QED
    BY <2>2 DEF s
<1> HIDE DEF Typed
<1>5. pieces \in Nat /\ pieces > 0
  <2> DEFINE n == cites + symbols
  <2>1. n \in Int
    BY <1>2
  <2> HIDE DEF n
  <2>2. Max({1, n}) \in Nat /\ Max({1, n}) >= 1
    <3>1. 1 \in Nat
      OBVIOUS
    <3> QED
      BY ONLY <2>1, <3>1, AtLeast
  <2> QED
    BY <2>2 DEF n
<1> HIDE DEF pieces
<1>6. perPiece \in Nat
  <2>1. p.tokens \div pieces \in Int
    BY <1>2, <1>5
  <2>2. Max({1, p.tokens \div pieces}) \in Int /\ Max({1, p.tokens \div pieces}) >= 1
    BY <2>1, GreaterOfTwo
  <2> QED
    BY <2>2
<1> HIDE DEF perPiece
<1>7. reviewed \in {0, 1}
  BY <1>2
<1> HIDE DEF reviewed
<1>8. recipes \in Nat /\ curated \in Nat /\ (cites = 0 /\ recipes = 0 => curated = 0)
  <2>1. Typed({"recipe"}) \in Nat
    BY <1>4
  <2>2. Typed({"recipe", "curated"}) \in Nat /\ Typed({"recipe", "curated"}) <= cites
    BY <1>4
  <2>3. curated \in {Typed({"recipe", "curated"}), reviewed}
    <3> DEFINE n == Typed({"recipe", "curated"})
    <3>1. n \in Int /\ reviewed \in Int
      BY <1>7, <2>2
    <3> HIDE DEF n
    <3>2. Max({n, reviewed}) \in {n, reviewed}
      BY <3>1, GreaterOfTwo
    <3> QED
      BY <3>2 DEF n
  <2> HIDE DEF curated
  <2> QED
    BY <1>2, <1>7, <2>1, <2>2, <2>3
<1> HIDE DEF recipes, curated, coverage
<1>9. /\ status \in Grounded \cup Ungrounded /\ status # "root_selection_required"
      /\ curated > 0 => status \in Grounded
  BY <1>2, <1>8, StatusAgrees
<1> HIDE DEF status
<1>10. ofTyped \in Nat /\ ofRaw \in Nat
  <2>1. Typed({"recipe", "curated"}) + symbols \in Nat /\ Typed({"citation"}) \in Nat
    BY <1>2, <1>4
  <2> QED
    BY <1>6, <2>1
<1> HIDE DEF ofTyped, ofRaw
<1>11. /\ shares.structured \in Nat /\ shares.raw \in Nat
       /\ shares.structured + shares.raw = p.tokens
  BY <1>2, <1>10, SharesAddUp
<1> HIDE DEF shares
<1>12. source \in Nat
  BY <1>2, EstimateType
<1> HIDE DEF source
<1>13. avoided \in Nat
  <2>1. source - p.tokens \in Int
    BY <1>2, <1>12
  <2>2. avoided \in Nat
    <3> DEFINE n == source - p.tokens
    <3>1. n \in Int
      BY <2>1
    <3> HIDE DEF n
    <3>2. Max({0, n}) \in Nat
      <4>1. 0 \in Nat
        OBVIOUS
      <4> QED
        BY ONLY <3>1, <4>1, AtLeast
    <3> QED
      BY <3>2 DEF n
  <2> HIDE DEF avoided
  <2> QED
    BY <2>2
<1> HIDE DEF avoided, evidence
<1>14. /\ DOMAIN e = Columns
       /\ e.status = status /\ e.choice = FALSE /\ e.curated = curated /\ e.roots = call.roots
       /\ e.returned = p.tokens /\ e.structured = shares.structured /\ e.raw = shares.raw
       /\ e.source = source /\ e.avoided = avoided
  BY DEF Classified, Event, Columns
<1> HIDE DEF e
<1>15. SoundOutcome(e)
  BY <1>3, <1>8, <1>9, <1>14 DEF SoundOutcome, IsGrounded
<1>16. SoundAmounts(e)
  BY <1>2, <1>11, <1>12, <1>13, <1>14 DEF SoundAmounts
<1>17. SoundEvent(e)
  BY <1>14, <1>15, <1>16 DEF SoundEvent
<1> QED
  BY <1>1, <1>17

\* Every row is sound, whatever handler built it.
LEMMA RowsAreSound ==
  ASSUME NEW call \in Calls, NEW at \in Times
  PROVE  LET e == EventRow(call, at) IN SoundOutcome(e) /\ SoundAmounts(e) /\ e.at = at
<1>1. CallAssumption
  BY ReportsAssumption
<1>2. call.outcome \in {"choice", "error", "package", "hits"}
  BY <1>1 DEF CallAssumption
<1>3. SoundEvent(EventOf(call))
  <2>1. CASE call.outcome = "choice"
    BY <1>1, <2>1, PlainEvents DEF EventOf
  <2>2. CASE call.outcome = "error"
    BY <1>1, <2>2, PlainEvents DEF EventOf
  <2>3. CASE call.outcome = "package"
    BY <1>1, <2>3, PackageEvents DEF EventOf
  <2>4. CASE call.outcome = "hits"
    <3>1. /\ SoundEvent(SymbolsEvent(call)) /\ SoundEvent(SearchEvent(call))
          /\ SoundEvent(DocumentEvent(call))
      BY <1>1, <2>4, PlainEvents
    <3>2. EventOf(call) \in {SymbolsEvent(call), DocumentEvent(call), SearchEvent(call)}
      BY <2>4 DEF EventOf
    <3> QED
      BY <3>1, <3>2
  <2> QED
    BY <1>2, <2>1, <2>2, <2>3, <2>4
<1> QED
  BY <1>3, RowColumns

\* A page is a part of one order of the rows that match.
LEMMA PageShape ==
  ASSUME NEW S, IsFiniteSet(S), NEW f \in Filters, NEW v \in Page(S, f)
  PROVE  v \in Seq(S) /\ Len(v) <= MaxPage
<1>1. f.limit \in Int /\ f.offset \in Int /\ MaxPage \in Nat /\ DefaultPage \in 0 .. MaxPage
  BY ReportsAssumption
<1> DEFINE skip == Max({0, f.offset})
           first == 1 + skip
           size == PageSize(f.limit)
           last(s) == Min({Len(s), first + size - 1})
<1>2. skip \in Nat
  <2>1. 0 \in Nat
    OBVIOUS
  <2> QED
    BY ONLY <1>1, <2>1, AtLeast
<1>3. size \in Int /\ size <= MaxPage
  <2>1. CASE f.limit <= 0
    BY <1>1, <2>1 DEF PageSize
  <2>2. CASE ~ (f.limit <= 0)
    <3>1. Min({MaxPage, f.limit}) \in Int /\ Min({MaxPage, f.limit}) <= MaxPage
      <4>1. MaxPage \in Int /\ f.limit \in Int
        BY <1>1
      <4> QED
        BY ONLY <4>1, LesserOfTwo
    <3> QED
      BY <2>2, <3>1 DEF PageSize
  <2> QED
    BY <2>1, <2>2
<1>4. \E s \in SetToSeqs(S) : v = SubSeq(s, first, last(s))
  <2> DEFINE Before(a, b) == IF f.order = "asc" THEN SortKey(a, f) <= SortKey(b, f)
                                              ELSE SortKey(a, f) >= SortKey(b, f)
             orders == {s \in SetToSeqs(S) : \A i, j \in DOMAIN s : i < j => Before(s[i], s[j])}
  <2>1. Page(S, f) = {SubSeq(s, first, last(s)) : s \in orders}
    BY DEF Page
  <2>2. orders \subseteq SetToSeqs(S)
    OBVIOUS
  <2> HIDE DEF orders, first, last
  <2> QED
    BY <2>1, <2>2
<1> HIDE DEF skip, size
<1>5. PICK s \in SetToSeqs(S) : v = SubSeq(s, first, last(s))
  BY <1>4
<1>6. s \in Seq(S)
  BY FS_CardinalityType DEF SetToSeqs
<1>7. first \in Nat /\ first >= 1 /\ first + size - 1 \in Int
  BY <1>2, <1>3
<1>8. last(s) \in Int /\ last(s) <= Len(s) /\ last(s) <= first + size - 1
  <2> DEFINE n == Len(s)
             m == first + size - 1
  <2>1. n \in Int /\ m \in Int
    BY <1>6, <1>7
  <2> HIDE DEF n, m
  <2>2. Min({n, m}) \in Int /\ Min({n, m}) <= n /\ Min({n, m}) <= m
    BY ONLY <2>1, LesserOfTwo
  <2> QED
    BY <2>2 DEF n, m
<1> DEFINE l == last(s)
<1>9. l \in Int /\ l <= Len(s) /\ l <= first + size - 1 /\ v = SubSeq(s, first, l)
  BY <1>5, <1>8
<1> HIDE DEF l, last, first
<1>10. CASE first <= l
  <2>1. v \in Seq(S) /\ Len(v) = l - first + 1
    BY <1>6, <1>7, <1>9, <1>10
  <2> QED
    BY <1>1, <1>3, <1>7, <1>9, <2>1
<1>11. CASE l < first
  <2>1. v = <<>>
    BY <1>7, <1>9, <1>11, SubSeqEmpty
  <2> QED
    BY <1>1, <2>1
<1> QED
  BY <1>7, <1>9, <1>10, <1>11
-----------------------------------------------------------------------------
(* The inductive invariant of the reports.                                 *)

Statements == {"summary", "timeseries", "coverage", "outcomes", "evidence", "efficiency",
               "successes", "sources", "series", "roots", "evidenceKeys", "count", "page",
               "row", "rootsOf", "piecesOf"}

\* Every kind of report has statements to run.
LEMMA PlanShape ==
  ASSUME NEW kind \in DOMAIN Plan
  PROVE  Plan[kind] \in Seq(Statements) /\ Plan[kind] # <<>>
<1>1. /\ EfficiencyPlan \in Seq(Statements) /\ KnowledgePlan \in Seq(Statements)
      /\ <<"summary", "timeseries", "coverage", "outcomes", "evidence">> \in Seq(Statements)
  BY DEF EfficiencyPlan, KnowledgePlan, Statements
<1> DEFINE five == <<"summary", "timeseries", "coverage", "outcomes", "evidence">>
           all == five \o EfficiencyPlan \o KnowledgePlan
<1>2. EfficiencyPlan # <<>> /\ KnowledgePlan # <<>>
  BY DEF EfficiencyPlan, KnowledgePlan
<1>3. all \in Seq(Statements) /\ all # <<>>
  <2>1. five # <<>>
    OBVIOUS
  <2> HIDE DEF five
  <2> QED
    BY <1>1, <1>2, <2>1 DEF five
<1> HIDE DEF all
<1>4. Plan[kind] \in {<<"summary">>, <<"timeseries">>, <<"coverage">>, <<"outcomes", "evidence">>,
                      EfficiencyPlan, KnowledgePlan, <<"count", "page">>,
                      <<"row", "rootsOf", "piecesOf">>, all}
  BY DEF Plan, all
<1>5. /\ \A t \in {<<"summary">>, <<"timeseries">>, <<"coverage">>} : t \in Seq(Statements) /\ t # <<>>
      /\ \A t \in {<<"outcomes", "evidence">>, <<"count", "page">>} : t \in Seq(Statements) /\ t # <<>>
      /\ <<"row", "rootsOf", "piecesOf">> \in Seq(Statements) /\ <<"row", "rootsOf", "piecesOf">> # <<>>
  BY DEF Statements
<1> QED
  BY <1>1, <1>2, <1>3, <1>4, <1>5

Known == {r \in Requests : events[r] # NoRow}

EventsSound ==
  \A r \in Known : SoundOutcome(events[r]) /\ SoundAmounts(events[r]) /\ events[r].at \in Times

Fields == {"at", "filter", "todo", "id", "answer", "kept", "seen", "changes"}

\* What a report is, between two of its statements.
ReportShape ==
  /\ DOMAIN report = Fields
  /\ report.at \in {"running", "done", "failed"} /\ report.filter \in Filters
  /\ report.todo \in Seq(Statements) /\ (report.at = "done" <=> report.todo = <<>>)
  /\ "page" \in DOMAIN report.answer => Len(report.answer["page"]) <= MaxPage

\* What the statements see lies between what stays and what ever was there.
ReportBetween == report.kept \subseteq present /\ present \subseteq report.seen
                 /\ report.seen \subseteq Known

ReportsInv ==
  /\ EventsSound /\ present \subseteq Known
  /\ report # NoReport => ReportShape /\ ReportBetween
-----------------------------------------------------------------------------
(* The steps.                                                              *)

\* A report whose tables were changed.
SameAnswers ==
  /\ report.answer' = report.answer /\ report.filter' = report.filter
  /\ report.kept' \subseteq report.kept /\ report.seen \subseteq report.seen'

\* A statement that was answered.
AnsweredOne(s, value) ==
  /\ report.answer' = Over([x \in {s} |-> value], report.answer)
  /\ report.filter' = report.filter /\ report.kept' = report.kept /\ report.seen' = report.seen

\* What answering a statement leaves of the report.
LEMMA AnswerShape ==
  ASSUME ReportShape, report.at = "running", NEW value, NEW s, s = Head(report.todo),
         s = "page" => value \in Seq(Known) /\ Len(value) <= MaxPage,
         report' = Answered(s, value)
  PROVE  ReportShape' /\ AnsweredOne(s, value) /\ report' # NoReport
<1>1. report.todo \in Seq(Statements) /\ report.todo # <<>>
  BY DEF ReportShape
<1> DEFINE left == CASE s = "row" /\ value = {} -> <<>>
                     [] s = "page" /\ value # <<>> -> [i \in DOMAIN value |-> "rootsOf"]
                     [] OTHER -> Tail(report.todo)
           id == IF left = <<>> \/ Head(left) # "rootsOf" \/ s = "row" THEN report.id
                 ELSE IF s = "page" THEN value[1]
                 ELSE report.answer["page"][Len(report.answer["page"]) - Len(left) + 1]
           answer == Over([x \in {s} |-> value], report.answer)
           at == IF left = <<>> THEN "done" ELSE report.at
<1>2. left \in Seq(Statements)
  <2>1. CASE s = "row" /\ value = {}
    BY <2>1
  <2>2. CASE s = "page" /\ value # <<>>
    <3>1. value \in Seq(Known)
      BY <2>2
    <3>2. [i \in DOMAIN value |-> "rootsOf"] \in Seq(Statements)
      BY <3>1 DEF Statements
    <3> QED
      BY <2>2, <3>2
  <2>3. CASE ~ (s = "row" /\ value = {}) /\ ~ (s = "page" /\ value # <<>>)
    <3>1. Tail(report.todo) \in Seq(Statements)
      BY <1>1
    <3> QED
      BY <2>3, <3>1
  <2> QED
    BY <2>1, <2>2, <2>3
<1>3. report' = [report EXCEPT !.todo = left, !.answer = answer, !.id = id, !.at = at]
  BY DEF Answered
<1> HIDE DEF left, id
<1>4. "page" \in DOMAIN answer => Len(answer["page"]) <= MaxPage
  <2>1. DOMAIN answer = {s} \cup DOMAIN report.answer
    BY DEF Over
  <2>2. \A x \in DOMAIN answer : answer[x] = IF x = s THEN value ELSE report.answer[x]
    BY DEF Over
  <2> HIDE DEF answer
  <2> QED
    BY <2>1, <2>2 DEF ReportShape
<1> HIDE DEF answer
<1>5. DOMAIN report = Fields
  BY DEF ReportShape
<1>6. /\ DOMAIN report' = Fields /\ report'.todo = left /\ report'.answer = answer
      /\ report'.at = at /\ report'.filter = report.filter /\ report'.kept = report.kept
      /\ report'.seen = report.seen
  BY <1>3, <1>5 DEF Fields
<1>7. report' # NoReport
  BY <1>6 DEF NoReport, Fields
<1>8. ReportShape'
  BY <1>2, <1>4, <1>6 DEF ReportShape
<1> QED
  BY <1>6, <1>7, <1>8 DEF AnsweredOne, answer

\* The statement s was answered, with what it selects or with what stands for that.
Answering(s, value) ==
  /\ report # NoReport /\ UNCHANGED <<events, present>> /\ AnsweredOne(s, value)
  /\ s \in DOMAIN Optional \/ value \in Answers(s)

\* What a step does to the answers.
Outcome ==
  \/ report' = NoReport
  \/ report'.answer = <<>>
  \/ report # NoReport /\ SameAnswers
  \/ \E s \in Statements : \E value : Answering(s, value)

RowsStay == \A r \in Known : events'[r] = events[r]

\* What a change of the tables does.
LEMMA TablesChange ==
  ASSUME ReportsInv, Noticed, EventsSound', RowsStay, present' \subseteq Known'
  PROVE  ReportsInv' /\ Outcome
<1>1. Known \subseteq Known'
  BY DEF RowsStay, Known
<1>2. CASE report = NoReport
  <2>1. report' = NoReport
    BY <1>2 DEF Noticed
  <2> QED
    BY <2>1 DEF ReportsInv, Outcome
<1>3. CASE report # NoReport
  <2>1. report.at = "running" /\ ReportShape /\ ReportBetween
    BY <1>3 DEF Noticed, ReportsInv
  <2>2. report' = [report EXCEPT !.changes = @ + 1, !.kept = @ \cap present', !.seen = @ \cup present']
    BY <1>3 DEF Noticed
  <2>3. /\ DOMAIN report' = Fields /\ report'.at = report.at /\ report'.filter = report.filter
        /\ report'.todo = report.todo /\ report'.answer = report.answer
        /\ report'.kept = report.kept \cap present' /\ report'.seen = report.seen \cup present'
    BY <2>1, <2>2 DEF ReportShape, Fields
  <2>4. ReportShape'
    BY <2>1, <2>3 DEF ReportShape
  <2>5. ReportBetween'
    BY <1>1, <2>1, <2>3 DEF ReportBetween
  <2>6. SameAnswers
    BY <2>3 DEF SameAnswers
  <2> QED
    BY <1>3, <2>4, <2>5, <2>6 DEF ReportsInv, Outcome
<1> QED
  BY <1>2, <1>3

\* A report that began has no answer yet.
LEMMA BeginShape ==
  ASSUME ReportsInv, NEW kind \in DOMAIN Plan, NEW f \in Filters, NEW r, Begin(kind, f, r)
  PROVE  ReportsInv' /\ Outcome
<1>1. report' = [at |-> "running", filter |-> f, todo |-> Plan[kind], id |-> r,
                answer |-> <<>>, kept |-> present, seen |-> present, changes |-> 0]
  BY DEF Begin
<1>2. Plan[kind] \in Seq(Statements) /\ Plan[kind] # <<>>
  BY PlanShape
<1> DEFINE plan == Plan[kind]
<1> HIDE DEF plan
<1>3. /\ DOMAIN report' = Fields /\ report'.at = "running" /\ report'.filter = f
      /\ report'.todo = Plan[kind] /\ report'.answer = <<>> /\ report'.kept = present
      /\ report'.seen = present
  BY <1>1 DEF Fields
<1>4. UNCHANGED <<events, present>>
  BY DEF Begin
<1>5. ReportShape'
  BY <1>2, <1>3 DEF ReportShape
<1>6. ReportBetween'
  BY <1>3, <1>4 DEF ReportBetween, ReportsInv, Known
<1>7. EventsSound' /\ present' \subseteq Known'
  BY <1>4 DEF EventsSound, ReportsInv, Known
<1> QED
  BY <1>3, <1>5, <1>6, <1>7 DEF ReportsInv, Outcome

\* A statement that is answered.
LEMMA StatementShape ==
  ASSUME ReportsInv, report # NoReport, report.at = "running", UNCHANGED <<events, present>>,
         NEW s, s = Head(report.todo), NEW value, s \in DOMAIN Optional \/ value \in Answers(s),
         report' = Answered(s, value)
  PROVE  ReportsInv' /\ Outcome
<1>1. ReportShape /\ ReportBetween /\ EventsSound /\ present \subseteq Known
  BY DEF ReportsInv
<1>2. s \in Statements
  <2>1. report.todo \in Seq(Statements) /\ report.todo # <<>>
    BY <1>1 DEF ReportShape
  <2> QED
    BY <2>1
<1>3. s = "page" => value \in Seq(Known) /\ Len(value) <= MaxPage
  <2>1. SUFFICES ASSUME s = "page" PROVE value \in Seq(Known) /\ Len(value) <= MaxPage
    OBVIOUS
  <2> DEFINE S == Selected(report.filter)
             f == report.filter
  <2>2. value \in Page(S, f)
    BY <2>1 DEF Answers, Optional
  <2>3. S \subseteq Known /\ IsFiniteSet(S)
    BY <1>1, ReportsAssumption, FS_Subset DEF Selected, Known
  <2>4. f \in Filters
    BY <1>1 DEF ReportShape
  <2> HIDE DEF S, f
  <2>5. value \in Seq(S) /\ Len(value) <= MaxPage
    BY <2>2, <2>3, <2>4, PageShape
  <2> QED
    BY <2>3, <2>5
<1>4. ReportShape' /\ AnsweredOne(s, value) /\ report' # NoReport
  BY <1>1, <1>3, AnswerShape
<1>5. ReportBetween'
  BY <1>1, <1>4 DEF AnsweredOne, ReportBetween, Known
<1>6. EventsSound' /\ present' \subseteq Known'
  BY <1>1 DEF EventsSound, Known
<1>7. Answering(s, value)
  BY <1>4 DEF Answering
<1> QED
  BY <1>2, <1>4, <1>5, <1>6, <1>7 DEF ReportsInv, Outcome

\* Every step preserves the invariant, and the rows that are there.
LEMMA ReportSteps ==
  ASSUME ReportsInv, [ReportsNext]_reportVars
  PROVE  ReportsInv' /\ RowsStay /\ Outcome
<1>1. EventsSound /\ present \subseteq Known
  BY DEF ReportsInv
<1>2. ASSUME UNCHANGED events
      PROVE  RowsStay /\ Known' = Known /\ EventsSound'
  BY <1>1, <1>2 DEF RowsStay, Known, EventsSound
<1>3. ASSUME NEW batch \in SUBSET {r \in Requests : events[r] = NoRow}, InsertBatch(batch)
      PROVE  ReportsInv' /\ RowsStay /\ Outcome
  <2>1. PICK call \in [batch -> Calls], at \in [batch -> Times] :
          events' = [r \in Requests |-> IF r \in batch THEN EventRow(call[r], at[r]) ELSE events[r]]
    BY <1>3 DEF InsertBatch
  <2>2. RowsStay
    BY <2>1 DEF RowsStay, Known
  <2>3. \A r \in batch : events'[r] = EventRow(call[r], at[r]) /\ call[r] \in Calls /\ at[r] \in Times
    BY <2>1
  <2>4. \A r \in batch : events'[r] # NoRow
    BY <2>3, ReportsAssumption
  <2>5. Known' = Known \cup batch
    BY <2>1, <2>4 DEF Known
  <2>6. EventsSound'
    <3>1. ASSUME NEW r \in Known'
          PROVE  SoundOutcome(events'[r]) /\ SoundAmounts(events'[r]) /\ events'[r].at \in Times
      <4>1. CASE r \in Known
        BY <1>1, <2>2, <4>1 DEF EventsSound, RowsStay
      <4>2. CASE r \in batch
        <5> DEFINE c == call[r]
                   t == at[r]
                   e == EventRow(c, t)
        <5>1. c \in Calls /\ t \in Times /\ events'[r] = e
          BY <2>3, <4>2
        <5> HIDE DEF c, t
        <5>2. SoundOutcome(e) /\ SoundAmounts(e) /\ e.at = t
          BY <5>1, RowsAreSound
        <5> QED
          BY <5>1, <5>2
      <4> QED
        BY <2>5, <4>1, <4>2
    <3> QED
      BY <3>1 DEF EventsSound
  <2>7. present' \subseteq Known'
    BY <1>1, <1>3, <2>5 DEF InsertBatch
  <2>8. Noticed
    BY <1>3 DEF InsertBatch
  <2> QED
    BY <2>2, <2>6, <2>7, <2>8, TablesChange
<1>4. ASSUME NEW cutoff \in Times, PurgeExpired(cutoff)
      PROVE  ReportsInv' /\ RowsStay /\ Outcome
  <2>1. UNCHANGED events /\ Noticed /\ present' \subseteq present
    BY <1>4 DEF PurgeExpired
  <2> QED
    BY <1>1, <1>2, <2>1, TablesChange
<1>5. ASSUME ClearAll
      PROVE  ReportsInv' /\ RowsStay /\ Outcome
  <2>1. UNCHANGED events /\ Noticed /\ present' \subseteq present
    BY <1>5 DEF ClearAll
  <2> QED
    BY <1>1, <1>2, <2>1, TablesChange
<1>6. ASSUME NEW kind \in DOMAIN Plan, NEW f \in Filters, NEW r \in Requests \cup {NoRow},
             Begin(kind, f, r)
      PROVE  ReportsInv' /\ RowsStay /\ Outcome
  BY <1>2, <1>6, BeginShape DEF Begin
<1>7. ASSUME Statement
      PROVE  ReportsInv' /\ RowsStay /\ Outcome
  <2>1. report.at = "running" /\ UNCHANGED <<events, present>>
    BY <1>7 DEF Statement
  <2>2. report # NoReport
    BY <2>1 DEF NoReport
  <2>3. PICK value \in Answers(Head(report.todo)) : report' = Answered(Head(report.todo), value)
    BY <1>7 DEF Statement
  <2> QED
    BY <1>2, <2>1, <2>2, <2>3, StatementShape
<1>8. ASSUME Fail
      PROVE  ReportsInv' /\ RowsStay /\ Outcome
  <2> DEFINE s == Head(report.todo)
  <2>1. report.at = "running" /\ UNCHANGED <<events, present>>
    BY <1>8 DEF Fail
  <2>2. report # NoReport
    BY <2>1 DEF NoReport
  <2>3. CASE s \in DOMAIN Optional
    <3>1. report' = Answered(s, Optional[s])
      BY <1>8, <2>3 DEF Fail
    <3> QED
      BY <1>2, <2>1, <2>2, <2>3, <3>1, StatementShape
  <2>4. CASE s \notin DOMAIN Optional
    <3>1. report' = [report EXCEPT !.at = "failed"]
      BY <1>8, <2>4 DEF Fail
    <3>2. ReportShape /\ ReportBetween
      BY <2>2 DEF ReportsInv
    <3>3. /\ DOMAIN report' = Fields /\ report'.at = "failed" /\ report'.filter = report.filter
          /\ report'.todo = report.todo /\ report'.answer = report.answer
          /\ report'.kept = report.kept /\ report'.seen = report.seen
      BY <3>1, <3>2 DEF ReportShape, Fields
    <3>4. ReportShape' /\ ReportBetween'
      BY <1>2, <2>1, <3>2, <3>3 DEF ReportShape, ReportBetween
    <3>5. SameAnswers
      BY <3>3 DEF SameAnswers
    <3> QED
      BY <1>1, <1>2, <2>1, <2>2, <3>4, <3>5 DEF ReportsInv, Outcome
  <2> QED
    BY <2>3, <2>4
<1>9. ASSUME Reply
      PROVE  ReportsInv' /\ RowsStay /\ Outcome
  <2>1. report' = NoReport /\ UNCHANGED <<events, present>>
    BY <1>9 DEF Reply
  <2> QED
    BY <1>1, <1>2, <2>1 DEF ReportsInv, Outcome
<1>10. ASSUME UNCHANGED reportVars
       PROVE  ReportsInv' /\ RowsStay /\ Outcome
  <2>1. UNCHANGED <<events, present, report>>
    BY <1>10 DEF reportVars
  <2>2. ReportsInv'
    BY <1>2, <2>1 DEF ReportsInv, ReportShape, ReportBetween
  <2>3. Outcome
    BY <2>1 DEF Outcome, SameAnswers
  <2> QED
    BY <1>2, <2>1, <2>2, <2>3
<1> QED
  BY <1>3, <1>4, <1>5, <1>6, <1>7, <1>8, <1>9, <1>10 DEF ReportsNext

\* Before anything is recorded.
LEMMA ReportsInitially ==
  ASSUME ReportsInit PROVE ReportsInv
<1>1. Known = {}
  BY DEF ReportsInit, Known
<1> QED
  BY <1>1 DEF ReportsInit, ReportsInv, EventsSound

\* The invariant gives the types.
LEMMA InvGivesTypes ==
  ASSUME ReportsInv PROVE ReportsTypeOK
<1>1. /\ EventsSound /\ present \subseteq Known
      /\ report # NoReport => ReportShape /\ ReportBetween
  BY DEF ReportsInv
<1>2. ASSUME NEW r \in Requests, events[r] # NoRow
      PROVE  /\ events[r].status \in Grounded \cup Ungrounded /\ events[r].at \in Times
             /\ \A amount \in {"returned", "structured", "raw", "source", "avoided"} :
                  events[r][amount] \in Nat
  BY <1>1, <1>2 DEF EventsSound, Known, SoundOutcome, SoundAmounts
<1>3. present \subseteq {r \in Requests : events[r] # NoRow}
  BY <1>1 DEF Known
<1>4. ASSUME report # NoReport
      PROVE  /\ report.at \in {"running", "done", "failed"}
             /\ (report.at = "done") <=> (report.todo = <<>>)
             /\ report.kept \subseteq report.seen
             /\ "page" \in DOMAIN report.answer => Len(report.answer["page"]) <= MaxPage
  BY <1>1, <1>4 DEF ReportShape, ReportBetween
<1> QED
  BY <1>2, <1>3, <1>4 DEF ReportsTypeOK

\* The rows, whatever handler recorded them, and the report being built have
\* their types: a running report has a statement to run, a finished one has
\* none, and a page is no longer than its limit (query.go).
THEOREM ReportTypes == ReportsSpec => []ReportsTypeOK
<1>1. ReportsInit => ReportsInv
  BY ReportsInitially
<1>2. ReportsInv /\ [ReportsNext]_reportVars => ReportsInv'
  BY ReportSteps
<1>3. ReportsInv => ReportsTypeOK
  BY InvGivesTypes
<1> QED
  BY <1>1, <1>2, <1>3, PTL DEF ReportsSpec
-----------------------------------------------------------------------------
(* ReportsReconcile: what each statement answers adds up.                  *)

\* Two parts of a finite set that share nothing.
LEMMA TwoSets ==
  ASSUME NEW a, NEW b, IsFiniteSet(a), IsFiniteSet(b), a \cap b = {}
  PROVE  IsFiniteSet(a \cup b) /\ Cardinality(a \cup b) = Cardinality(a) + Cardinality(b)
         /\ Cardinality(a) \in Nat /\ Cardinality(b) \in Nat
<1>1. IsFiniteSet(a \cup b) /\ Cardinality(a \cup b) = Cardinality(a) + Cardinality(b) - Cardinality({})
  BY FS_Union
<1>2. Cardinality({}) = 0 /\ Cardinality(a) \in Nat /\ Cardinality(b) \in Nat
  BY FS_EmptySet, FS_CardinalityType
<1> QED
  BY <1>1, <1>2

\* The requests of one status.
OfStatus(S, status) == {r \in S : events[r].status = status}

\* The grounded requests and the others, by their status.
LEMMA StatusesPartition ==
  ASSUME NEW S \in SUBSET Known, EventsSound, IsFiniteSet(S)
  PROVE  LET n(status) == Cardinality(OfStatus(S, status))
             grounded == Cardinality({r \in S : IsGrounded(events[r])})
         IN  /\ grounded = n("grounded_curated") + n("grounded_local") + n("grounded_mixed")
             /\ Cardinality(S) = grounded + n("root_selection_required") + n("no_local_match")
                                 + n("local_insufficient") + n("request_error")
             /\ \A status \in Grounded \cup Ungrounded : n(status) \in Nat
<1> DEFINE G == {r \in S : IsGrounded(events[r])}
           C == OfStatus(S, "root_selection_required")
           N == OfStatus(S, "no_local_match")
           I == OfStatus(S, "local_insufficient")
           E == OfStatus(S, "request_error")
           L == OfStatus(S, "grounded_local")
           M == OfStatus(S, "grounded_mixed")
           K == OfStatus(S, "grounded_curated")
<1>1. \A r \in S : events[r].status \in Grounded \cup Ungrounded
  BY DEF EventsSound, SoundOutcome
<1>2. \A status : OfStatus(S, status) \subseteq S
  BY DEF OfStatus
<1>3. \A status : IsFiniteSet(OfStatus(S, status)) /\ Cardinality(OfStatus(S, status)) \in Nat
  BY <1>2, FS_Subset, FS_CardinalityType
<1>4. /\ G = K \cup L \cup M /\ S = G \cup C \cup N \cup I \cup E
      /\ K \cap L = {} /\ (K \cup L) \cap M = {}
      /\ G \cap C = {} /\ (G \cup C) \cap N = {} /\ (G \cup C \cup N) \cap I = {}
      /\ (G \cup C \cup N \cup I) \cap E = {}
  BY <1>1 DEF OfStatus, IsGrounded, Grounded, Ungrounded
<1>5. IsFiniteSet(G)
  BY FS_Subset
<1>6. /\ IsFiniteSet(K) /\ IsFiniteSet(L) /\ IsFiniteSet(M) /\ IsFiniteSet(C) /\ IsFiniteSet(N)
      /\ IsFiniteSet(I) /\ IsFiniteSet(E)
      /\ Cardinality(K) \in Nat /\ Cardinality(L) \in Nat /\ Cardinality(M) \in Nat
      /\ Cardinality(C) \in Nat /\ Cardinality(N) \in Nat /\ Cardinality(I) \in Nat
      /\ Cardinality(E) \in Nat
  BY <1>3
<1>7. \A status \in Grounded \cup Ungrounded : Cardinality(OfStatus(S, status)) \in Nat
  BY <1>3
<1> HIDE DEF G, C, N, I, E, L, M, K
<1>8. IsFiniteSet(K \cup L) /\ Cardinality(K \cup L) = Cardinality(K) + Cardinality(L)
  BY <1>4, <1>6, TwoSets
<1>9. Cardinality(G) = Cardinality(K) + Cardinality(L) + Cardinality(M)
  BY <1>4, <1>6, <1>8, TwoSets
<1>10. IsFiniteSet(G \cup C) /\ Cardinality(G \cup C) = Cardinality(G) + Cardinality(C)
  BY <1>4, <1>5, <1>6, TwoSets
<1>11. /\ IsFiniteSet(G \cup C \cup N)
       /\ Cardinality(G \cup C \cup N) = Cardinality(G \cup C) + Cardinality(N)
  BY <1>4, <1>6, <1>10, TwoSets
<1>12. /\ IsFiniteSet(G \cup C \cup N \cup I)
       /\ Cardinality(G \cup C \cup N \cup I) = Cardinality(G \cup C \cup N) + Cardinality(I)
  BY <1>4, <1>6, <1>11, TwoSets
<1>13. Cardinality(S) = Cardinality(G \cup C \cup N \cup I) + Cardinality(E)
  BY <1>4, <1>6, <1>12, TwoSets
<1>14. Cardinality(S) = Cardinality(G) + Cardinality(C) + Cardinality(N) + Cardinality(I) + Cardinality(E)
  BY <1>10, <1>11, <1>12, <1>13
<1> QED
  BY <1>7, <1>9, <1>14 DEF G, C, N, I, E, L, M, K

\* The requests that had to choose a root have that status.
LEMMA ChoicesAreStatus ==
  ASSUME NEW S \in SUBSET Known, EventsSound
  PROVE  /\ {r \in S : IsChoice(events[r])} = OfStatus(S, "root_selection_required")
         /\ {r \in S : events[r].status # "request_error" /\ IsChoice(events[r])}
              = OfStatus(S, "root_selection_required")
  BY DEF EventsSound, SoundOutcome, IsChoice, OfStatus

\* The columns of a summary or of a point add up.
LEMMA RequestedAddsUp ==
  ASSUME NEW S \in SUBSET Known, EventsSound, IsFiniteSet(S)
  PROVE  AddsUp(Requested(S))
<1> DEFINE v == Requested(S)
           n(status) == Cardinality(OfStatus(S, status))
           grounded == Cardinality({r \in S : IsGrounded(events[r])})
<1>1. /\ v.total = Cardinality(S) /\ v.grounded = grounded
      /\ v.choice = Cardinality({r \in S : IsChoice(events[r])})
      /\ v.noMatch = n("no_local_match") /\ v.insufficient = n("local_insufficient")
      /\ v.errors = n("request_error")
  BY DEF Requested, Count, OfStatus
<1>2. v.choice = n("root_selection_required")
  BY <1>1, ChoicesAreStatus
<1>3. /\ Cardinality(S) = grounded + n("root_selection_required") + n("no_local_match")
                          + n("local_insufficient") + n("request_error")
  BY StatusesPartition
<1> HIDE DEF v, n
<1>4. AddsUp(v)
  BY <1>1, <1>2, <1>3 DEF AddsUp
<1> QED
  BY <1>4 DEF v

\* A part of a finite set has at most as many elements.
LEMMA FewerIn ==
  ASSUME NEW D, IsFiniteSet(D), NEW E, E \subseteq D
  PROVE  Cardinality(E) <= Cardinality(D) /\ Cardinality(E) \in Nat /\ Cardinality(D) \in Nat
BY FS_Subset, FS_CardinalityType

\* The columns that w shares with the requests q.
SameColumns(w, q) ==
  /\ w.total = q.total /\ w.grounded = q.grounded /\ w.choice = q.choice
  /\ w.noMatch = q.noMatch /\ w.insufficient = q.insufficient
  /\ w.errors = q.errors /\ w.served = q.served

\* The columns of the summary.
LEMMA SummaryColumns ==
  ASSUME NEW S
  PROVE  LET v == QuerySummary(S)
             q == Requested(S)
         IN  /\ SameColumns(v, q)
             /\ v.curated = Cardinality({r \in S : events[r].curated > 0
                                                   \/ events[r].status = "grounded_curated"})
             /\ v.unclassified = Cardinality({r \in S : IsGrounded(events[r])
                                                        /\ events[r].coverage \notin Rated})
<1> DEFINE g == [curated |-> Count(S, LAMBDA e : e.curated > 0 \/ e.status = "grounded_curated"),
                 unclassified |-> Count(S, LAMBDA e : IsGrounded(e) /\ e.coverage \notin Rated),
                 notApplicable |-> Count(S, LAMBDA e : e.coverage = "not_applicable"
                                                       \/ e.applicable = FALSE)]
           q == Requested(S)
           v == QuerySummary(S)
<1>1. v = Over(g, q)
  BY DEF QuerySummary
<1>2. DOMAIN g = {"curated", "unclassified", "notApplicable"}
  OBVIOUS
<1>3. DOMAIN q = {"total", "grounded", "choice", "noMatch", "insufficient", "errors", "high",
                  "medium", "low", "served"}
  BY DEF Requested
<1>4. /\ g.curated = Cardinality({r \in S : events[r].curated > 0
                                           \/ events[r].status = "grounded_curated"})
      /\ g.unclassified = Cardinality({r \in S : IsGrounded(events[r])
                                                /\ events[r].coverage \notin Rated})
  BY DEF Count
<1> HIDE DEF g, q
<1>5. \A x \in DOMAIN g : v[x] = g[x]
  BY <1>1 DEF Over
<1>6. \A x \in DOMAIN q \ DOMAIN g : v[x] = q[x]
  BY <1>1 DEF Over
<1> HIDE DEF v
<1>7. SameColumns(v, q)
  BY <1>2, <1>3, <1>6 DEF SameColumns
<1>8. v.curated = g.curated /\ v.unclassified = g.unclassified
  BY <1>2, <1>5
<1> QED
  BY <1>4, <1>7, <1>8 DEF v, q

\* What a report says of a summary.
SummaryAgrees(v) ==
  AddsUp(v) /\ v.curated <= v.grounded /\ v.unclassified <= v.grounded

\* The summary of any rows agrees with itself.
LEMMA SummaryReconciles ==
  ASSUME NEW S \in SUBSET Known, EventsSound, IsFiniteSet(S)
  PROVE  SummaryAgrees(QuerySummary(S))
<1> DEFINE v == QuerySummary(S)
           q == Requested(S)
           G == {r \in S : IsGrounded(events[r])}
           A == {r \in S : events[r].curated > 0 \/ events[r].status = "grounded_curated"}
           B == {r \in S : IsGrounded(events[r]) /\ events[r].coverage \notin Rated}
<1>1. SameColumns(v, q) /\ v.curated = Cardinality(A) /\ v.unclassified = Cardinality(B)
  BY SummaryColumns
<1>2. AddsUp(q)
  BY RequestedAddsUp
<1>3. q.grounded = Cardinality(G)
  BY DEF Requested, Count
<1>4. A \subseteq G
  BY DEF EventsSound, SoundOutcome, IsGrounded, Grounded
<1>5. B \subseteq G /\ IsFiniteSet(G)
  BY FS_Subset
<1> HIDE DEF A, B, G, v, q
<1>6. Cardinality(A) <= Cardinality(G) /\ Cardinality(B) <= Cardinality(G)
  BY <1>4, <1>5, FewerIn
<1>7. AddsUp(v)
  BY <1>1, <1>2 DEF AddsUp, SameColumns
<1>8. SummaryAgrees(v)
  BY <1>1, <1>3, <1>6, <1>7 DEF SummaryAgrees, SameColumns
<1> QED
  BY <1>8 DEF v

\* The requests of one time bucket.
InBucket(S, f, b) == {r \in S : Bucket(r, f) = b}

\* A point has the columns of its bucket.
LEMMA PointColumns ==
  ASSUME NEW S, NEW f
  PROVE  /\ DOMAIN QueryTimeseries(S, f) = {Bucket(r, f) : r \in S}
         /\ \A b \in DOMAIN QueryTimeseries(S, f) :
              SameColumns(QueryTimeseries(S, f)[b], Requested(InBucket(S, f, b)))
<1> DEFINE v == QueryTimeseries(S, f)
           keys == {Bucket(r, f) : r \in S}
           B(b) == {r \in S : Bucket(r, f) = b}
           g(b) == [source |-> Total(B(b), LAMBDA e : e.source),
                    avoided |-> Total(B(b), LAMBDA e : e.avoided)]
           q(b) == Requested(B(b))
<1>1. v = [b \in keys |-> Over(g(b), q(b))]
  BY DEF QueryTimeseries
<1>2. ASSUME NEW b \in keys
      PROVE  SameColumns(v[b], q(b))
  <2> DEFINE p == q(b)
             h == g(b)
             w == v[b]
  <2>1. w = Over(h, p)
    <3> HIDE DEF q, g, keys
    <3> QED
      BY <1>1
  <2>2. DOMAIN h = {"source", "avoided"}
    OBVIOUS
  <2>3. DOMAIN p = {"total", "grounded", "choice", "noMatch", "insufficient", "errors", "high",
                    "medium", "low", "served"}
    BY DEF Requested
  <2> HIDE DEF h, p
  <2>4. \A x \in DOMAIN p \ DOMAIN h : w[x] = p[x]
    BY <2>1 DEF Over
  <2> HIDE DEF w
  <2>5. SameColumns(w, p)
    BY <2>2, <2>3, <2>4 DEF SameColumns
  <2> QED
    BY <2>5 DEF w, p
<1>3. DOMAIN v = keys
  BY <1>1
<1> QED
  BY <1>2, <1>3 DEF InBucket

\* The points of any rows add up.
LEMMA SeriesReconciles ==
  ASSUME NEW S \in SUBSET Known, EventsSound, IsFiniteSet(S), NEW f
  PROVE  \A b \in DOMAIN QueryTimeseries(S, f) : AddsUp(QueryTimeseries(S, f)[b])
<1> DEFINE v == QueryTimeseries(S, f)
<1>1. ASSUME NEW b \in DOMAIN v
      PROVE  AddsUp(v[b])
  <2> DEFINE B == InBucket(S, f, b)
  <2>1. SameColumns(v[b], Requested(B))
    BY <1>1, PointColumns
  <2>2. B \in SUBSET Known /\ IsFiniteSet(B)
    BY FS_Subset DEF InBucket
  <2> HIDE DEF B, v
  <2>3. AddsUp(Requested(B))
    BY <2>2, RequestedAddsUp
  <2> QED
    BY <2>1, <2>3 DEF AddsUp, SameColumns
<1> QED
  BY <1>1

\* No outcome is left over.
LEMMA OutcomesReconcile ==
  ASSUME NEW S \in SUBSET Known, EventsSound, IsFiniteSet(S)
  PROVE  QueryOutcomes(S).other = 0
<1> DEFINE n(status) == Cardinality(OfStatus(S, status))
           choice == Cardinality({r \in S : events[r].status # "request_error" /\ IsChoice(events[r])})
           grounded == Cardinality({r \in S : IsGrounded(events[r])})
           classified == choice + n("request_error") + n("no_local_match")
                         + n("local_insufficient") + n("grounded_mixed")
                         + n("grounded_curated") + n("grounded_local")
           rest == Cardinality(S) - classified
<1>1. QueryOutcomes(S).other = Max({0, rest})
  BY DEF QueryOutcomes, Count, OfStatus
<1>2. choice = n("root_selection_required")
  BY ChoicesAreStatus
<1>3. /\ grounded = n("grounded_curated") + n("grounded_local") + n("grounded_mixed")
      /\ Cardinality(S) = grounded + n("root_selection_required") + n("no_local_match")
                          + n("local_insufficient") + n("request_error")
      /\ \A status \in Grounded \cup Ungrounded : n(status) \in Nat
  BY StatusesPartition
<1>4. /\ n("grounded_curated") \in Nat /\ n("grounded_local") \in Nat /\ n("grounded_mixed") \in Nat
      /\ n("root_selection_required") \in Nat /\ n("no_local_match") \in Nat
      /\ n("local_insufficient") \in Nat /\ n("request_error") \in Nat
  <2> HIDE DEF n
  <2> QED
    BY <1>3 DEF Grounded, Ungrounded
<1>5. rest = 0
  <2> HIDE DEF n, choice, grounded
  <2> QED
    BY <1>2, <1>3, <1>4
<1> HIDE DEF rest
<1>6. Max({0, rest}) \in {0, rest}
  <2>1. rest \in Int /\ 0 \in Int
    BY <1>5
  <2> QED
    BY ONLY <2>1, GreaterOfTwo
<1> QED
  BY <1>1, <1>5, <1>6

\* The structured and raw tokens are those served.
LEMMA EfficiencyReconciles ==
  ASSUME NEW S \in SUBSET Known, EventsSound, IsFiniteSet(S)
  PROVE  LET v == Efficiency(S) IN v.structured + v.raw = v.served
<1> DEFINE v == Efficiency(S)
           G == {r \in S : IsGrounded(events[r])}
           a == [r \in G |-> events[r].structured]
           b == [r \in G |-> events[r].raw]
           c == [r \in G |-> events[r].returned]
           d == [r \in S |-> Served(events[r])]
<1>1. v.structured = SumFunction(a) /\ v.raw = SumFunction(b) /\ v.served = SumFunction(d)
  BY DEF Efficiency, Total
<1>2. IsFiniteSet(G) /\ G \in SUBSET S
  BY FS_Subset
<1>3. /\ a \in [G -> Nat] /\ b \in [G -> Nat] /\ c \in [G -> Nat] /\ d \in [S -> Nat]
      /\ \A r \in G : c[r] = a[r] + b[r]
      /\ \A r \in G : c[r] = d[r]
      /\ \A r \in S \ G : d[r] = 0
  BY DEF EventsSound, SoundAmounts, Served
<1> HIDE DEF a, b, c, d, G
<1>4. SumFunction(c) = SumFunction(a) + SumFunction(b)
  BY <1>2, <1>3, SumAdded
<1>5. SumFunction(c) = SumFunction(d)
  BY <1>2, <1>3, SumOfPart
<1> QED
  BY <1>1, <1>4, <1>5
-----------------------------------------------------------------------------
(* What was answered stays as it is, so that it keeps adding up.           *)

\* What a report promises of the answer to a statement, whatever it selected.
Reconciled(s, v) ==
  /\ s \in {"summary", "coverage"} => SummaryAgrees(v)
  /\ s \in {"timeseries", "series"} => \A b \in DOMAIN v : AddsUp(v[b])
  /\ s = "outcomes" => v.other = 0
  /\ s = "efficiency" => v.structured + v.raw = v.served

AnswersReconcile ==
  report # NoReport => \A s \in DOMAIN report.answer : Reconciled(s, report.answer[s])

\* What a statement of a section answers.
LEMMA SectionAnswers ==
  ASSUME NEW s, NEW value, s \in DOMAIN Optional \/ value \in Answers(s)
  PROVE  LET f == report.filter
             S == Selected(f)
         IN  /\ s \in {"summary", "coverage"} => value = QuerySummary(S)
             /\ s \in {"timeseries", "series"} => value = QueryTimeseries(S, f)
             /\ s = "outcomes" => value = QueryOutcomes(S)
             /\ s = "efficiency" => value = Efficiency(S)
             /\ s = "count" => value = Cardinality(S)
             /\ s = "roots" => value \in RankRoots(S)
BY DEF Answers, Optional

\* The rows that a statement sees are finite in number and known.
LEMMA SelectedKnown ==
  ASSUME present \subseteq Known, NEW f
  PROVE  Selected(f) \in SUBSET Known /\ IsFiniteSet(Selected(f))
<1>1. Selected(f) \subseteq Known /\ Selected(f) \subseteq Requests
  BY DEF Selected, Known
<1>2. IsFiniteSet(Requests)
  BY ReportsAssumption
<1> QED
  BY <1>1, <1>2, FS_Subset

\* Every answer keeps the promise when it is given.
LEMMA AnswerReconciles ==
  ASSUME ReportsInv, NEW s, NEW value, s \in DOMAIN Optional \/ value \in Answers(s)
  PROVE  Reconciled(s, value)
<1> DEFINE f == report.filter
           S == Selected(f)
<1>1. S \in SUBSET Known /\ IsFiniteSet(S) /\ EventsSound
  BY SelectedKnown DEF ReportsInv
<1>2. /\ s \in {"summary", "coverage"} => value = QuerySummary(S)
      /\ s \in {"timeseries", "series"} => value = QueryTimeseries(S, f)
      /\ s = "outcomes" => value = QueryOutcomes(S)
      /\ s = "efficiency" => value = Efficiency(S)
  BY SectionAnswers
<1> HIDE DEF S
<1>3. SummaryAgrees(QuerySummary(S))
  BY <1>1, SummaryReconciles
<1>4. \A b \in DOMAIN QueryTimeseries(S, f) : AddsUp(QueryTimeseries(S, f)[b])
  BY <1>1, SeriesReconciles
<1>5. QueryOutcomes(S).other = 0
  BY <1>1, OutcomesReconcile
<1>6. Efficiency(S).structured + Efficiency(S).raw = Efficiency(S).served
  BY <1>1, EfficiencyReconciles
<1> QED
  BY <1>2, <1>3, <1>4, <1>5, <1>6 DEF Reconciled

\* An answer joins those that are there.
LEMMA AnswersAfter ==
  ASSUME NEW s, NEW value, AnsweredOne(s, value)
  PROVE  /\ DOMAIN report'.answer = {s} \cup DOMAIN report.answer
         /\ \A x \in DOMAIN report'.answer :
              report'.answer[x] = IF x = s THEN value ELSE report.answer[x]
<1> DEFINE new == report'.answer
           old == report.answer
           one == [x \in {s} |-> value]
<1>1. new = Over(one, old)
  BY DEF AnsweredOne
<1>2. DOMAIN one = {s} /\ one[s] = value
  OBVIOUS
<1> HIDE DEF new, old, one
<1>3. DOMAIN new = {s} \cup DOMAIN old
  BY <1>1, <1>2 DEF Over
<1>4. \A x \in DOMAIN new : new[x] = IF x = s THEN value ELSE old[x]
  BY <1>1, <1>2 DEF Over
<1> QED
  BY <1>3, <1>4 DEF new, old

\* And no step takes that back.
LEMMA ReconcileSteps ==
  ASSUME ReportsInv, AnswersReconcile, [ReportsNext]_reportVars
  PROVE  AnswersReconcile'
<1>1. Outcome
  BY ReportSteps
<1>2. CASE report' = NoReport
  BY <1>2 DEF AnswersReconcile
<1>3. CASE report'.answer = <<>>
  BY <1>3 DEF AnswersReconcile
<1>4. CASE report # NoReport /\ SameAnswers
  BY <1>4 DEF AnswersReconcile, SameAnswers, Reconciled
<1>5. CASE \E s \in Statements : \E value : Answering(s, value)
  <2>1. PICK s \in Statements : \E value : Answering(s, value)
    BY <1>5
  <2>2. PICK value : Answering(s, value)
    BY <2>1
  <2>3. Reconciled(s, value)
    BY <2>2, AnswerReconciles DEF Answering
  <2>4. \A x \in DOMAIN report.answer : Reconciled(x, report.answer[x])
    BY <2>2 DEF Answering, AnswersReconcile
  <2>5. /\ DOMAIN report'.answer = {s} \cup DOMAIN report.answer
        /\ \A x \in DOMAIN report'.answer :
             report'.answer[x] = IF x = s THEN value ELSE report.answer[x]
    BY <2>2, AnswersAfter DEF Answering
  <2>6. ASSUME NEW x \in DOMAIN report'.answer
        PROVE  Reconciled(x, report'.answer[x])
    <3>1. CASE x = s
      BY <2>3, <2>5, <3>1
    <3>2. CASE x # s
      BY <2>4, <2>5, <3>2
    <3> QED
      BY <3>1, <3>2
  <2>7. (\A x \in DOMAIN report.answer : Reconciled(x, report.answer[x]))'
    BY <2>6 DEF Reconciled
  <2> QED
    BY <2>7 DEF AnswersReconcile
<1> QED
  BY <1>1, <1>2, <1>3, <1>4, <1>5 DEF Outcome

\* The sections of a report agree as the property says.
LEMMA ReconcileGives ==
  ASSUME AnswersReconcile PROVE ReportsReconcile
<1>1. \A s : Has(s) => Reconciled(s, Answer(s))
  BY DEF AnswersReconcile, Has, Answer
<1> QED
  BY <1>1 DEF ReportsReconcile, Reconciled, SummaryAgrees

\* For any calls, filters and interleaving of inserts, purges and clears with the
\* statements of a report, the outcomes of every summary and of every time bucket
\* add up to its total, the grounding report leaves no other outcome, and the
\* structured and raw tokens add up to those served.
THEOREM SectionsReconcile == ReportsSpec => []ReportsReconcile
<1>1. ReportsInit => ReportsInv /\ AnswersReconcile
  BY ReportsInitially DEF ReportsInit, AnswersReconcile
<1>2. ReportsInv /\ AnswersReconcile /\ [ReportsNext]_reportVars
      => ReportsInv' /\ AnswersReconcile'
  BY ReportSteps, ReconcileSteps
<1>3. AnswersReconcile => ReportsReconcile
  BY ReconcileGives
<1> QED
  BY <1>1, <1>2, <1>3, PTL DEF ReportsSpec
-----------------------------------------------------------------------------
(* SectionsBracketed: weights of the rows that stay and of those ever      *)
(* there.                                                                  *)

\* What a request counts for in an amount.
Weight(w, e) ==
  CASE w = "one" -> 1
    [] w = "served" -> Served(e)
    [] w = "grounded" -> IF IsGrounded(e) THEN 1 ELSE 0
    [] w = "roots" -> Cardinality(e.roots)

Weights == {"one", "served", "grounded", "roots"}

Weighed(w, S) == SumFunction([r \in S |-> Weight(w, events[r])])

Matching(S) == {r \in S : Matches(r, report.filter)}

\* Between what stayed and what ever was there.
Bracketed(w, n) ==
  n \in Nat /\ Weighed(w, Matching(report.kept)) <= n /\ n <= Weighed(w, Matching(report.seen))

\* A weight is a number.
LEMMA WeightTypes ==
  ASSUME NEW e, SoundOutcome(e), SoundAmounts(e), NEW w \in Weights
  PROVE  Weight(w, e) \in Nat
<1>1. CASE w = "one"
  BY <1>1 DEF Weight
<1>2. CASE w = "served"
  BY <1>2 DEF Weight, Served, SoundAmounts
<1>3. CASE w = "grounded"
  BY <1>3 DEF Weight
<1>4. CASE w = "roots"
  <2>1. Cardinality(e.roots) \in Nat
    BY FS_CardinalityType DEF SoundOutcome
  <2> QED
    BY <1>4, <2>1 DEF Weight
<1> QED
  BY <1>1, <1>2, <1>3, <1>4 DEF Weights

\* Only so many requests are known.
LEMMA KnownFinite ==
  ASSUME NEW S, S \subseteq Known
  PROVE  IsFiniteSet(S)
BY ReportsAssumption, FS_Subset DEF Known

\* More requests weigh more.
LEMMA WeighedGrows ==
  ASSUME EventsSound, NEW w \in Weights, NEW D, NEW E, E \subseteq D, D \subseteq Known
  PROVE  Weighed(w, E) \in Nat /\ Weighed(w, D) \in Nat /\ Weighed(w, E) <= Weighed(w, D)
<1> DEFINE f == [r \in D |-> Weight(w, events[r])]
           g == [r \in E |-> Weight(w, events[r])]
<1>0. \A r \in D : Weight(w, events[r]) \in Nat
  BY WeightTypes DEF EventsSound
<1>1. f \in [D -> Nat] /\ g \in [E -> Nat]
  BY <1>0
<1>2. \A r \in E : g[r] <= f[r]
  BY <1>0
<1>3. IsFiniteSet(D) /\ IsFiniteSet(E) /\ E \in SUBSET D
  BY KnownFinite
<1>4. Weighed(w, E) = SumFunction(g) /\ Weighed(w, D) = SumFunction(f)
  BY DEF Weighed
<1> HIDE DEF f, g
<1>5. SumFunction(g) <= SumFunction(f)
  BY <1>1, <1>2, <1>3, SumGrows
<1>6. SumFunction(g) \in Nat /\ SumFunction(f) \in Nat
  BY <1>1, <1>3, SumType
<1> QED
  BY <1>4, <1>5, <1>6

\* The rows that a statement selects lie between those that stay and those ever there.
LEMMA SelectedBetween ==
  ASSUME ReportsInv, report # NoReport, NEW w \in Weights
  PROVE  Bracketed(w, Weighed(w, Selected(report.filter)))
<1> DEFINE S == Selected(report.filter)
           K == Matching(report.kept)
           A == Matching(report.seen)
<1>1. K \subseteq S /\ S \subseteq A /\ A \subseteq Known /\ EventsSound
  BY DEF ReportsInv, ReportBetween, Selected, Matching
<1>2. S \subseteq Known
  BY <1>1
<1> HIDE DEF S, K, A
<1>3. /\ Weighed(w, S) \in Nat /\ Weighed(w, K) <= Weighed(w, S)
      /\ Weighed(w, S) <= Weighed(w, A)
  BY <1>1, <1>2, WeighedGrows
<1> QED
  BY <1>3 DEF Bracketed, S, K, A

\* The rows known do not change.
LEMMA WeighedStays ==
  ASSUME RowsStay, NEW w, NEW S, S \subseteq Known
  PROVE  SumFunction([r \in S |-> Weight(w, events'[r])]) = Weighed(w, S)
<1>1. \A r \in S : events'[r] = events[r]
  BY DEF RowsStay
<1>2. [r \in S |-> Weight(w, events'[r])] = [r \in S |-> Weight(w, events[r])]
  BY <1>1
<1> QED
  BY <1>2 DEF Weighed

\* A bracket only widens while the tables change.
LEMMA BracketStays ==
  ASSUME ReportsInv, ReportsInv', report # NoReport, report' # NoReport, RowsStay,
         report'.filter = report.filter, report'.kept \subseteq report.kept,
         report.seen \subseteq report'.seen,
         NEW w \in Weights, NEW n, Bracketed(w, n)
  PROVE  Bracketed(w, n)'
<1> DEFINE K == Matching(report.kept)
           A == Matching(report.seen)
           L == Matching(report.kept)'
           B == Matching(report.seen)'
           wL == SumFunction([r \in L |-> Weight(w, events'[r])])
           wB == SumFunction([r \in B |-> Weight(w, events'[r])])
           wA == SumFunction([r \in A |-> Weight(w, events'[r])])
<1>1. /\ report.kept \subseteq Known /\ report.seen \subseteq Known /\ EventsSound
      /\ EventsSound' /\ report'.seen \subseteq Known'
  BY DEF ReportsInv, ReportBetween
<1>2. \A r \in Known : events'[r] = events[r]
  BY DEF RowsStay
<1>3. \A r \in Known : Matches(r, report.filter)' <=> Matches(r, report.filter)
  BY <1>2 DEF Matches
<1>4. L \subseteq K
  BY <1>1, <1>3 DEF Matching
<1>5. A \subseteq B
  BY <1>1, <1>3 DEF Matching
<1>6. K \subseteq Known /\ A \subseteq Known /\ B \subseteq Known'
  BY <1>1 DEF Matching
<1>7. Bracketed(w, n)' <=> n \in Nat /\ wL <= n /\ n <= wB
  BY DEF Bracketed, Weighed
<1>8. n \in Nat /\ Weighed(w, K) <= n /\ n <= Weighed(w, A)
  BY DEF Bracketed
<1> HIDE DEF K, A, L, B
<1>9. wL = Weighed(w, L)
  BY <1>4, <1>6, WeighedStays
<1>10. wA = Weighed(w, A)
  BY <1>6, WeighedStays
<1>11. Weighed(w, L) \in Nat /\ Weighed(w, K) \in Nat /\ Weighed(w, L) <= Weighed(w, K)
  BY <1>1, <1>4, <1>6, WeighedGrows
<1>12. wA \in Nat /\ wB \in Nat /\ wA <= wB
  <2> DEFINE f == [r \in B |-> Weight(w, events'[r])]
             g == [r \in A |-> Weight(w, events'[r])]
  <2>1. \A r \in Known' : Weight(w, events'[r]) \in Nat
    BY <1>1, WeightTypes DEF EventsSound
  <2>2. f \in [B -> Nat] /\ g \in [A -> Nat] /\ \A r \in A : g[r] <= f[r]
    BY <1>5, <1>6, <2>1
  <2>3. IsFiniteSet(B) /\ A \in SUBSET B
    BY <1>5, <1>6, ReportsAssumption, FS_Subset DEF Known
  <2>4. IsFiniteSet(A)
    BY <2>3, FS_Subset
  <2> HIDE DEF f, g
  <2>5. SumFunction(g) <= SumFunction(f)
    BY <2>2, <2>3, SumGrows
  <2>6. SumFunction(g) \in Nat /\ SumFunction(f) \in Nat
    BY <2>2, <2>3, <2>4, SumType
  <2> QED
    BY <2>5, <2>6 DEF f, g
<1>13. Weighed(w, A) \in Nat
  BY <1>10, <1>12
<1> HIDE DEF wL, wB, wA
<1>14. wL <= n /\ n <= wB
  BY <1>8, <1>9, <1>10, <1>11, <1>12
<1> QED
  BY <1>7, <1>8, <1>14
-----------------------------------------------------------------------------
(* What each section says is the weight of the rows it selected.           *)

\* The counts of a section are weights.
LEMMA CountsAreWeights ==
  ASSUME NEW S, S \subseteq Known, EventsSound
  PROVE  /\ Cardinality(S) = Weighed("one", S)
         /\ Cardinality({r \in S : IsGrounded(events[r])}) = Weighed("grounded", S)
<1> DEFINE G == {r \in S : IsGrounded(events[r])}
           f == [r \in S |-> Weight("one", events[r])]
           g == [r \in S |-> Weight("grounded", events[r])]
           h == [r \in G |-> 1]
<1>1. IsFiniteSet(S) /\ IsFiniteSet(G) /\ G \in SUBSET S
  BY KnownFinite
<1>2. f \in [S -> Nat] /\ \A r \in S : f[r] = 1
  BY DEF Weight
<1>3. /\ g \in [S -> Nat] /\ h \in [G -> Nat] /\ \A r \in G : h[r] = 1
      /\ \A r \in G : h[r] = g[r]
      /\ \A r \in S \ G : g[r] = 0
  BY DEF Weight
<1>4. Weighed("one", S) = SumFunction(f) /\ Weighed("grounded", S) = SumFunction(g)
  BY DEF Weighed
<1> HIDE DEF f, g, h, G
<1>5. SumFunction(f) = Cardinality(S)
  BY <1>1, <1>2, SumOfOnes
<1>6. SumFunction(h) = Cardinality(G)
  BY <1>1, <1>3, SumOfOnes
<1>7. SumFunction(h) = SumFunction(g)
  BY <1>1, <1>3, SumOfPart
<1> QED
  BY <1>4, <1>5, <1>6, <1>7 DEF G

\* The columns of a set of requests are weights.
LEMMA RequestedWeighs ==
  ASSUME NEW S, S \subseteq Known, EventsSound
  PROVE  /\ Requested(S).total = Weighed("one", S)
         /\ Requested(S).grounded = Weighed("grounded", S)
         /\ Requested(S).served = Weighed("served", S)
<1>1. /\ Requested(S).total = Cardinality(S)
      /\ Requested(S).grounded = Cardinality({r \in S : IsGrounded(events[r])})
      /\ Requested(S).served = SumFunction([r \in S |-> Served(events[r])])
  BY DEF Requested, Count, Total
<1>2. Weighed("served", S) = SumFunction([r \in S |-> Served(events[r])])
  BY DEF Weighed, Weight
<1> QED
  BY <1>1, <1>2, CountsAreWeights

\* The columns of the efficiency report are weights.
LEMMA EfficiencyWeighs ==
  ASSUME NEW S, S \subseteq Known, EventsSound
  PROVE  /\ Efficiency(S).grounded = Weighed("grounded", S)
         /\ Efficiency(S).served = Weighed("served", S)
<1>1. /\ Efficiency(S).grounded = Cardinality({r \in S : IsGrounded(events[r])})
      /\ Efficiency(S).served = SumFunction([r \in S |-> Served(events[r])])
  BY DEF Efficiency, Count, Total
<1>2. Weighed("served", S) = SumFunction([r \in S |-> Served(events[r])])
  BY DEF Weighed, Weight
<1> QED
  BY <1>1, <1>2, CountsAreWeights

\* The points of a timeseries weigh what its requests do.
LEMMA PointsWeigh ==
  ASSUME NEW S, S \subseteq Known, EventsSound, NEW f
  PROVE  LET v == QueryTimeseries(S, f)
         IN  /\ SumFunction([b \in DOMAIN v |-> v[b].total]) = Weighed("one", S)
             /\ SumFunction([b \in DOMAIN v |-> v[b].served]) = Weighed("served", S)
<1> DEFINE v == QueryTimeseries(S, f)
           B == {Bucket(r, f) : r \in S}
           key == [r \in S |-> Bucket(r, f)]
<1>1. DOMAIN v = B /\ \A b \in DOMAIN v : SameColumns(v[b], Requested(InBucket(S, f, b)))
  BY PointColumns
<1>2. key \in [S -> B] /\ \A b \in B : {y \in S : key[y] = b} = InBucket(S, f, b)
  BY DEF InBucket
<1>3. IsFiniteSet(S)
  BY KnownFinite
<1>4. IsFiniteSet(B)
  <2>1. key \in Surjection(S, B)
    BY DEF Surjection
  <2> HIDE DEF key, B
  <2> QED
    BY <1>3, <2>1, FS_Surjection
<1>5. \A b : InBucket(S, f, b) \subseteq S
  BY DEF InBucket
<1> HIDE DEF v, B, key
<1>6. ASSUME NEW w \in {"one", "served"}, NEW p,
             DOMAIN p = B, p = [b \in B |-> p[b]],
             \A b \in B : p[b] = Weighed(w, InBucket(S, f, b))
      PROVE  SumFunction(p) = Weighed(w, S)
  <2> DEFINE g == [r \in S |-> Weight(w, events[r])]
  <2>1. w \in Weights
    BY DEF Weights
  <2>2. \A r \in S : Weight(w, events[r]) \in Nat
    BY <2>1, WeightTypes DEF EventsSound
  <2>3. g \in [S -> Nat]
    BY <2>2
  <2>4. \A b \in B : [x \in {y \in S : key[y] = b} |-> g[x]]
                     = [x \in InBucket(S, f, b) |-> Weight(w, events[x])]
    BY <1>2, <1>5
  <2>5. \A b \in B : p[b] = SumFunction([x \in {y \in S : key[y] = b} |-> g[x]])
    BY <1>6, <2>4 DEF Weighed
  <2>6. p \in [B -> Nat]
    <3>1. ASSUME NEW b \in B PROVE p[b] \in Nat
      <4> DEFINE D == InBucket(S, f, b)
      <4>1. D \subseteq Known
        BY <1>5
      <4> HIDE DEF D
      <4>2. Weighed(w, D) \in Nat
        BY <2>1, <4>1, WeighedGrows
      <4> QED
        BY <1>6, <4>2 DEF D
    <3> QED
      BY <1>6, <3>1
  <2>7. Weighed(w, S) = SumFunction(g)
    BY DEF Weighed
  <2> HIDE DEF g
  <2>8. SumFunction(p) = SumFunction(g)
    BY <1>2, <1>3, <1>4, <2>3, <2>5, <2>6, SumByKey
  <2> QED
    BY <2>7, <2>8
<1>7. \A b \in B : /\ v[b].total = Weighed("one", InBucket(S, f, b))
                   /\ v[b].served = Weighed("served", InBucket(S, f, b))
  <2>1. ASSUME NEW b \in B
        PROVE  /\ v[b].total = Weighed("one", InBucket(S, f, b))
               /\ v[b].served = Weighed("served", InBucket(S, f, b))
    <3> DEFINE D == InBucket(S, f, b)
    <3>1. D \subseteq Known
      BY <1>5
    <3>2. SameColumns(v[b], Requested(D))
      BY <1>1
    <3> HIDE DEF D
    <3>3. Requested(D).total = Weighed("one", D) /\ Requested(D).served = Weighed("served", D)
      BY <3>1, RequestedWeighs
    <3> QED
      BY <3>2, <3>3 DEF SameColumns, D
  <2> QED
    BY <2>1
<1> DEFINE p == [b \in B |-> v[b].total]
           q == [b \in B |-> v[b].served]
<1>8. /\ DOMAIN p = B /\ p = [b \in B |-> p[b]]
      /\ \A b \in B : p[b] = Weighed("one", InBucket(S, f, b))
  BY <1>7
<1>9. /\ DOMAIN q = B /\ q = [b \in B |-> q[b]]
      /\ \A b \in B : q[b] = Weighed("served", InBucket(S, f, b))
  BY <1>7
<1> HIDE DEF p, q
<1>10. SumFunction(p) = Weighed("one", S) /\ SumFunction(q) = Weighed("served", S)
  BY <1>6, <1>8, <1>9
<1> QED
  BY <1>1, <1>10 DEF p, q, v

\* Counted by a key, a set has all its elements.
LEMMA CountByKey ==
  ASSUME NEW D, IsFiniteSet(D), NEW B, IsFiniteSet(B), NEW key \in [D -> B],
         NEW p, p = [b \in B |-> Cardinality({y \in D : key[y] = b})]
  PROVE  SumFunction(p) = Cardinality(D)
<1> DEFINE Of(b) == {y \in D : key[y] = b}
           f == [x \in D |-> 1]
<1>1. \A b \in B : IsFiniteSet(Of(b)) /\ Cardinality(Of(b)) \in Nat
  BY FS_Subset, FS_CardinalityType
<1>2. p \in [B -> Nat] /\ \A b \in B : p[b] = Cardinality(Of(b))
  BY <1>1
<1>3. f \in [D -> Nat] /\ \A x \in D : f[x] = 1
  OBVIOUS
<1>4. \A b \in B : p[b] = SumFunction([x \in Of(b) |-> f[x]])
  <2>1. ASSUME NEW b \in B PROVE p[b] = SumFunction([x \in Of(b) |-> f[x]])
    <3> DEFINE C == Of(b)
               g == [x \in C |-> f[x]]
    <3>1. g \in [C -> Nat] /\ \A x \in C : g[x] = 1
      OBVIOUS
    <3>2. IsFiniteSet(C)
      BY <1>1
    <3> HIDE DEF C, g
    <3>3. SumFunction(g) = Cardinality(C)
      BY <3>1, <3>2, SumOfOnes
    <3> QED
      BY <1>2, <3>3 DEF C, g
  <2> QED
    BY <2>1
<1> HIDE DEF f
<1>5. SumFunction(p) = SumFunction(f)
  <2>1. \A b \in B : p[b] = SumFunction([x \in {y \in D : key[y] = b} |-> f[x]])
    BY <1>4
  <2>2. p \in [B -> Nat] /\ f \in [D -> Nat]
    BY <1>2, <1>3
  <2>3. IsFiniteSet(D) /\ IsFiniteSet(B) /\ key \in [D -> B]
    OBVIOUS
  <2> QED
    BY ONLY <2>1, <2>2, <2>3, SumByKey
<1>6. SumFunction(f) = Cardinality(D)
  BY <1>3, SumOfOnes
<1> QED
  BY <1>5, <1>6

\* The rows of request_roots, by their request and by their root.
LEMMA RootRowsShape ==
  ASSUME NEW S, S \subseteq Known, EventsSound
  PROVE  /\ IsFiniteSet(RootRows(S))
         /\ \A p \in RootRows(S) : p[1] \in S
         /\ \A r \in S : {p \in RootRows(S) : p[1] = r} = {r} \X events[r].roots
<1> DEFINE Of(r) == {r} \X events[r].roots
           all == {Of(r) : r \in S}
           P == RootRows(S)
<1>1. P = UNION all
  BY DEF RootRows
<1>2. IsFiniteSet(S)
  BY KnownFinite
<1>3. \A r \in S : IsFiniteSet(Of(r))
  <2>1. ASSUME NEW r \in S PROVE IsFiniteSet(Of(r))
    <3>1. IsFiniteSet(events[r].roots)
      BY DEF EventsSound, SoundOutcome
    <3>2. IsFiniteSet({r})
      BY FS_Singleton
    <3> QED
      BY <3>1, <3>2, FS_Product
  <2> QED
    BY <2>1
<1>4. \A p : p \in P <=> \E r \in S : p \in Of(r)
  BY <1>1
<1>5. \A r, p : p \in Of(r) => p[1] = r
  OBVIOUS
<1>6. IsFiniteSet(all)
  <2> DEFINE h == [r \in S |-> Of(r)]
  <2>1. h \in Surjection(S, all)
    <3> HIDE DEF Of
    <3> QED
      BY DEF Surjection
  <2> HIDE DEF h, all
  <2> QED
    BY <1>2, <2>1, FS_Surjection
<1>7. \A T \in all : IsFiniteSet(T)
  BY <1>3
<1> HIDE DEF P, all, Of
<1>8. IsFiniteSet(P)
  BY <1>1, <1>6, <1>7, FS_UNION
<1>9. \A p \in P : p[1] \in S
  BY <1>4, <1>5
<1>10. \A r \in S : {p \in P : p[1] = r} = Of(r)
  BY <1>4, <1>5
<1> QED
  BY <1>8, <1>9, <1>10 DEF P, Of

\* A ranking that is not cut off has all the keys.
LEMMA RankingComplete ==
  ASSUME NEW keys, IsFiniteSet(keys), NEW top, top \subseteq keys,
         Cardinality(top) = Min({RankLimit, Cardinality(keys)}), Cardinality(top) < RankLimit
  PROVE  top = keys
<1> DEFINE n == Cardinality(keys)
           m == Cardinality(top)
<1>1. n \in Int /\ RankLimit \in Int
  BY FS_CardinalityType, ReportsAssumption
<1>2. n \in Int /\ m = Min({RankLimit, n}) /\ m < RankLimit
  BY <1>1
<1> HIDE DEF n, m
<1>3. Min({RankLimit, n}) \in {RankLimit, n}
  BY ONLY <1>1, LesserOfTwo
<1>4. m = n
  BY <1>1, <1>2, <1>3
<1> QED
  BY <1>4, FS_Subset DEF n, m

\* A ranking of the roots.
LEMMA RootRanking ==
  ASSUME NEW S, NEW v \in RankRoots(S)
  PROVE  LET keys == {p[2] : p \in RootRows(S)}
         IN  /\ DOMAIN v \subseteq keys
             /\ Cardinality(DOMAIN v) = Min({RankLimit, Cardinality(keys)})
             /\ v = [n \in DOMAIN v |-> Cardinality({p \in RootRows(S) : p[2] = n})]
<1> DEFINE Times_(n) == Cardinality({p \in RootRows(S) : p[2] = n})
           keys == {p[2] : p \in RootRows(S)}
           tops == Ranked(keys, Times_)
<1>1. RankRoots(S) = {[n \in top |-> Times_(n)] : top \in tops}
  BY DEF RankRoots
<1>2. \A top \in tops : top \subseteq keys /\ Cardinality(top) = Min({RankLimit, Cardinality(keys)})
  BY DEF Ranked
<1> HIDE DEF tops, Times_
<1>3. PICK top \in tops : v = [n \in top |-> Times_(n)]
  BY <1>1
<1>4. DOMAIN v = top
  BY <1>3
<1> QED
  BY <1>2, <1>3, <1>4 DEF Times_

\* Together they are used as often as the requests have roots.
LEMMA RootsWeigh ==
  ASSUME NEW S, S \subseteq Known, EventsSound, NEW v \in RankRoots(S),
         Cardinality(DOMAIN v) < RankLimit
  PROVE  SumFunction(v) = Weighed("roots", S)
<1> DEFINE P == RootRows(S)
           keys == {p[2] : p \in P}
           byRoot == [p \in P |-> p[2]]
           byRequest == [p \in P |-> p[1]]
           g == [r \in S |-> Weight("roots", events[r])]
<1>1. /\ IsFiniteSet(P) /\ \A p \in P : p[1] \in S
      /\ \A r \in S : {p \in P : p[1] = r} = {r} \X events[r].roots
  BY RootRowsShape
<1>2. IsFiniteSet(S)
  BY KnownFinite
<1>3. /\ DOMAIN v \subseteq keys /\ Cardinality(DOMAIN v) = Min({RankLimit, Cardinality(keys)})
      /\ v = [n \in DOMAIN v |-> Cardinality({p \in P : p[2] = n})]
  BY RootRanking
<1>4. byRoot \in [P -> keys] /\ byRequest \in [P -> S]
  BY <1>1
<1>5. IsFiniteSet(keys)
  <2>1. byRoot \in Surjection(P, keys)
    BY DEF Surjection
  <2> HIDE DEF byRoot, keys, P
  <2> QED
    BY <1>1, <2>1, FS_Surjection
<1>6. DOMAIN v = keys
  <2> HIDE DEF keys
  <2> QED
    BY <1>3, <1>5, RankingComplete
<1>7. v = [n \in keys |-> Cardinality({p \in P : byRoot[p] = n})]
  <2>1. \A n \in keys : {p \in P : byRoot[p] = n} = {p \in P : p[2] = n}
    OBVIOUS
  <2> HIDE DEF byRoot, keys, P
  <2> QED
    BY <1>3, <1>6, <2>1
<1>8. g = [r \in S |-> Cardinality({p \in P : byRequest[p] = r})]
  <2>1. ASSUME NEW r \in S
        PROVE  Weight("roots", events[r]) = Cardinality({p \in P : byRequest[p] = r})
    <3> DEFINE R == events[r].roots
    <3>1. IsFiniteSet(R) /\ IsFiniteSet({r}) /\ Cardinality({r}) = 1
      BY FS_Singleton DEF EventsSound, SoundOutcome
    <3>2. {p \in P : byRequest[p] = r} = {r} \X R
      BY <1>1
    <3>3. Weight("roots", events[r]) = Cardinality(R)
      BY DEF Weight
    <3> HIDE DEF R
    <3>4. Cardinality({r} \X R) = Cardinality({r}) * Cardinality(R) /\ Cardinality(R) \in Nat
      BY <3>1, FS_Product, FS_CardinalityType
    <3> HIDE DEF byRequest, P
    <3>5. Cardinality({r} \X R) = Cardinality(R)
      BY <3>1, <3>4
    <3> QED
      BY <3>2, <3>3, <3>5
  <2> HIDE DEF byRequest, P
  <2> QED
    BY <2>1
<1>9. Weighed("roots", S) = SumFunction(g)
  BY DEF Weighed
<1> HIDE DEF g, byRoot, byRequest, keys, P
<1>10. SumFunction(v) = Cardinality(P)
  BY <1>1, <1>4, <1>5, <1>7, CountByKey
<1>11. SumFunction(g) = Cardinality(P)
  BY <1>1, <1>2, <1>4, <1>8, CountByKey
<1> QED
  BY <1>9, <1>10, <1>11
-----------------------------------------------------------------------------
(* What was answered stays between its bounds, which only widen.           *)

\* What an answer must lie between, from its statement on.
SectionWithin(s, v) ==
  /\ s \in {"summary", "coverage", "outcomes"} => Bracketed("one", v.total)
  /\ s \in {"summary", "coverage", "efficiency"} =>
       Bracketed("served", v.served) /\ Bracketed("grounded", v.grounded)
  /\ s \in {"timeseries", "series"} =>
       /\ Bracketed("one", SumFunction([b \in DOMAIN v |-> v[b].total]))
       /\ Bracketed("served", SumFunction([b \in DOMAIN v |-> v[b].served]))
  /\ s = "count" => Bracketed("one", v)
  /\ s = "roots" /\ Cardinality(DOMAIN v) < RankLimit => Bracketed("roots", SumFunction(v))

AnswersWithin ==
  report # NoReport => \A s \in DOMAIN report.answer : SectionWithin(s, report.answer[s])

\* An answer lies there when it is given.
LEMMA AnswerWithin ==
  ASSUME ReportsInv, report # NoReport, NEW s, NEW value,
         s \in DOMAIN Optional \/ value \in Answers(s)
  PROVE  SectionWithin(s, value)
<1> DEFINE f == report.filter
           S == Selected(f)
<1>1. S \subseteq Known /\ EventsSound
  BY SelectedKnown DEF ReportsInv
<1>2. /\ s \in {"summary", "coverage"} => value = QuerySummary(S)
      /\ s \in {"timeseries", "series"} => value = QueryTimeseries(S, f)
      /\ s = "outcomes" => value = QueryOutcomes(S)
      /\ s = "efficiency" => value = Efficiency(S)
      /\ s = "count" => value = Cardinality(S)
      /\ s = "roots" => value \in RankRoots(S)
  BY SectionAnswers
<1>3. /\ Bracketed("one", Weighed("one", S)) /\ Bracketed("served", Weighed("served", S))
      /\ Bracketed("grounded", Weighed("grounded", S)) /\ Bracketed("roots", Weighed("roots", S))
  BY SelectedBetween DEF Weights
<1> HIDE DEF S, f
<1>4. CASE s \in {"summary", "coverage"}
  <2>1. /\ value.total = Requested(S).total /\ value.served = Requested(S).served
        /\ value.grounded = Requested(S).grounded
    BY <1>2, <1>4, SummaryColumns DEF SameColumns
  <2>2. /\ Requested(S).total = Weighed("one", S) /\ Requested(S).served = Weighed("served", S)
        /\ Requested(S).grounded = Weighed("grounded", S)
    BY <1>1, RequestedWeighs
  <2> QED
    BY <1>3, <1>4, <2>1, <2>2 DEF SectionWithin
<1>5. CASE s \in {"timeseries", "series"}
  <2>1. /\ SumFunction([b \in DOMAIN value |-> value[b].total]) = Weighed("one", S)
        /\ SumFunction([b \in DOMAIN value |-> value[b].served]) = Weighed("served", S)
    BY <1>1, <1>2, <1>5, PointsWeigh
  <2> QED
    BY <1>3, <1>5, <2>1 DEF SectionWithin
<1>6. CASE s = "outcomes"
  <2>1. value.total = Cardinality(S)
    BY <1>2, <1>6 DEF QueryOutcomes
  <2>2. Cardinality(S) = Weighed("one", S)
    BY <1>1, CountsAreWeights
  <2> QED
    BY <1>3, <1>6, <2>1, <2>2 DEF SectionWithin
<1>7. CASE s = "efficiency"
  <2>1. value.grounded = Weighed("grounded", S) /\ value.served = Weighed("served", S)
    BY <1>1, <1>2, <1>7, EfficiencyWeighs
  <2> QED
    BY <1>3, <1>7, <2>1 DEF SectionWithin
<1>8. CASE s = "count"
  <2>1. value = Weighed("one", S)
    BY <1>1, <1>2, <1>8, CountsAreWeights
  <2> QED
    BY <1>3, <1>8, <2>1 DEF SectionWithin
<1>9. CASE s = "roots"
  <2>1. Cardinality(DOMAIN value) < RankLimit => SumFunction(value) = Weighed("roots", S)
    BY <1>1, <1>2, <1>9, RootsWeigh
  <2> QED
    BY <1>3, <1>9, <2>1 DEF SectionWithin
<1> QED
  BY <1>4, <1>5, <1>6, <1>7, <1>8, <1>9 DEF SectionWithin

\* And it still does when the tables have changed.
LEMMA SectionStays ==
  ASSUME ReportsInv, ReportsInv', report # NoReport, report' # NoReport, RowsStay,
         report'.filter = report.filter, report'.kept \subseteq report.kept,
         report.seen \subseteq report'.seen,
         NEW s, NEW v, SectionWithin(s, v)
  PROVE  SectionWithin(s, v)'
<1>1. \A w \in Weights : \A n : Bracketed(w, n) => Bracketed(w, n)'
  BY BracketStays
<1>2. /\ \A n : Bracketed("one", n) => Bracketed("one", n)'
      /\ \A n : Bracketed("served", n) => Bracketed("served", n)'
      /\ \A n : Bracketed("grounded", n) => Bracketed("grounded", n)'
      /\ \A n : Bracketed("roots", n) => Bracketed("roots", n)'
  BY <1>1 DEF Weights
<1> QED
  BY <1>2 DEF SectionWithin

\* Every step keeps every answer between its bounds.
LEMMA WithinSteps ==
  ASSUME ReportsInv, AnswersWithin, [ReportsNext]_reportVars
  PROVE  AnswersWithin'
<1>1. Outcome /\ RowsStay /\ ReportsInv'
  BY ReportSteps
<1>2. CASE report' = NoReport
  BY <1>2 DEF AnswersWithin
<1>3. CASE report'.answer = <<>>
  BY <1>3 DEF AnswersWithin
<1>4. CASE report' # NoReport /\ report # NoReport /\ SameAnswers
  <2>1. ASSUME NEW s \in DOMAIN report.answer
        PROVE  SectionWithin(s, report.answer[s])'
    <3> DEFINE v == report.answer[s]
    <3>1. SectionWithin(s, v)
      BY <1>4 DEF AnswersWithin
    <3>2. v = v'
      BY <1>4 DEF SameAnswers
    <3> QED
      BY <1>1, <1>4, <3>1, <3>2, SectionStays DEF SameAnswers
  <2> QED
    BY <1>4, <2>1 DEF AnswersWithin, SameAnswers
<1>5. CASE report' # NoReport /\ \E s \in Statements : \E value : Answering(s, value)
  <2>1. PICK s \in Statements : \E value : Answering(s, value)
    BY <1>5
  <2>2. PICK value : Answering(s, value)
    BY <2>1
  <2>3. /\ report # NoReport /\ report'.filter = report.filter /\ report'.kept = report.kept
        /\ report'.seen = report.seen
    BY <2>2 DEF Answering, AnsweredOne
  <2>4. SectionWithin(s, value)
    BY <2>2, AnswerWithin DEF Answering
  <2>5. \A x \in DOMAIN report.answer : SectionWithin(x, report.answer[x])
    BY <2>3 DEF AnswersWithin
  <2>6. \A x : \A v : SectionWithin(x, v) => SectionWithin(x, v)'
    BY <1>1, <1>5, <2>3, SectionStays
  <2>7. /\ DOMAIN report'.answer = {s} \cup DOMAIN report.answer
        /\ \A x \in DOMAIN report'.answer :
             report'.answer[x] = IF x = s THEN value ELSE report.answer[x]
    BY <2>2, AnswersAfter DEF Answering
  <2>8. ASSUME NEW x \in DOMAIN report'.answer
        PROVE  SectionWithin(x, report.answer[x])'
    <3>1. PICK v : v = report'.answer[x] /\ SectionWithin(x, v)
      BY <2>4, <2>5, <2>7
    <3>2. SectionWithin(x, v)'
      BY <2>6, <3>1
    <3> QED
      BY <3>1, <3>2
  <2> QED
    BY <1>5, <2>8 DEF AnswersWithin
<1> QED
  BY <1>1, <1>2, <1>3, <1>4, <1>5 DEF Outcome

\* What lies between by weight lies between by the reports' own sums.
LEMMA WithinGives ==
  ASSUME AnswersWithin PROVE SectionsBracketed
<1>1. \A s : Has(s) => SectionWithin(s, Answer(s))
  BY DEF AnswersWithin, Has, Answer
<1>2. ASSUME NEW n, Bracketed("one", n) PROVE Within(n, LAMBDA e : 1)
  BY <1>2 DEF Bracketed, Within, Total, Weighed, Weight, Matching
<1>3. ASSUME NEW n, Bracketed("served", n) PROVE Within(n, Served)
  BY <1>3 DEF Bracketed, Within, Total, Weighed, Weight, Matching
<1>4. ASSUME NEW n, Bracketed("grounded", n)
      PROVE  Within(n, LAMBDA e : IF IsGrounded(e) THEN 1 ELSE 0)
  BY <1>4 DEF Bracketed, Within, Total, Weighed, Weight, Matching
<1>5. ASSUME NEW n, Bracketed("roots", n) PROVE Within(n, LAMBDA e : Cardinality(e.roots))
  BY <1>5 DEF Bracketed, Within, Total, Weighed, Weight, Matching
<1>6. \A s : /\ Points(s, "total") = SumFunction([b \in DOMAIN Answer(s) |-> Answer(s)[b].total])
             /\ Points(s, "served") = SumFunction([b \in DOMAIN Answer(s) |-> Answer(s)[b].served])
  BY DEF Points
<1>7. ASSUME NEW s \in {"summary", "coverage", "outcomes"}, Has(s)
      PROVE  Within(Answer(s).total, LAMBDA e : 1)
  BY <1>1, <1>2, <1>7 DEF SectionWithin
<1>8. ASSUME NEW s \in {"summary", "coverage", "efficiency"}, Has(s)
      PROVE  /\ Within(Answer(s).served, Served)
             /\ Within(Answer(s).grounded, LAMBDA e : IF IsGrounded(e) THEN 1 ELSE 0)
  BY <1>1, <1>3, <1>4, <1>8 DEF SectionWithin
<1>9. ASSUME NEW s \in {"timeseries", "series"}, Has(s)
      PROVE  Within(Points(s, "total"), LAMBDA e : 1) /\ Within(Points(s, "served"), Served)
  <2> DEFINE v == Answer(s)
             total == SumFunction([b \in DOMAIN v |-> v[b].total])
             served == SumFunction([b \in DOMAIN v |-> v[b].served])
  <2>1. Bracketed("one", total) /\ Bracketed("served", served)
    BY <1>1, <1>9 DEF SectionWithin
  <2>2. Points(s, "total") = total /\ Points(s, "served") = served
    BY <1>6
  <2> HIDE DEF total, served
  <2> QED
    BY <1>2, <1>3, <2>1, <2>2
<1>10. Has("count") => Within(Answer("count"), LAMBDA e : 1)
  BY <1>1, <1>2 DEF SectionWithin
<1>11. Has("roots") /\ Cardinality(DOMAIN Answer("roots")) < RankLimit =>
         Within(SumFunction(Answer("roots")), LAMBDA e : Cardinality(e.roots))
  BY <1>1, <1>5 DEF SectionWithin
<1> QED
  BY <1>7, <1>8, <1>9, <1>10, <1>11 DEF SectionsBracketed

\* Every section of a report counts the requests that match and stay while it is
\* built and none that never was there, in number, in tokens served, in grounded
\* requests and in uses of roots, although no transaction holds its statements
\* together.
THEOREM ReportsAreBracketed == ReportsSpec => []SectionsBracketed
<1>1. ReportsInit => ReportsInv /\ AnswersWithin
  BY ReportsInitially DEF ReportsInit, AnswersWithin
<1>2. ReportsInv /\ AnswersWithin /\ [ReportsNext]_reportVars => ReportsInv' /\ AnswersWithin'
  BY ReportSteps, WithinSteps
<1>3. AnswersWithin => SectionsBracketed
  BY WithinGives
<1> QED
  BY <1>1, <1>2, <1>3, PTL DEF ReportsSpec
=============================================================================
