------------------------------ MODULE PdfIngest ------------------------------
(***************************************************************************)
(* IngestPDF and RemovePDF over documents, pdf_sources and pdf_pages.  An  *)
(* ingest reads the file up to five times (inspection, hash, pages,        *)
(* outline, stat) and commits two transactions; a removal is two           *)
(* statements.  The requests run concurrently, without a lock, and stop    *)
(* with their context; the file may change, and another handler may delete *)
(* the document, at any time.                                              *)
(*                                                                         *)
(* A file is the page texts and the outline that the two PDF libraries     *)
(* return, and stands for its own hash.  Of a text only the length is      *)
(* kept: 0 blank, 1 below minTextRunesPerPage, 2 enough.  What goes on     *)
(* inside UpsertDocument is the subject of DocumentStore; here it is one   *)
(* step.  The chunks that a long section is cut into share its citation    *)
(* and count as one.                                                       *)
(***************************************************************************)
EXTENDS Integers, FiniteSets, Sequences, FiniteSetsExt

CONSTANTS
  Paths,     \* files on disk
  Uris,      \* pdf://{root}/{file name}
  UriOf,     \* of a path: files of one base name share a URI
  Files,     \* contents of a file
  Missing,   \* no file at the path
  Ranges,    \* the pairs pageStart, pageEnd that are asked for
  Requests,  \* concurrent HTTP or MCP requests
  MaxPages,  \* the page limit of the inspection
  MaxDocId,  \* bound on the document ids
  MaxStarts, \* bound on the requests that are made
  MaxEdits   \* bound on the edits of the files

ASSUME PdfAssumption ==
  /\ UriOf \in [Paths -> Uris] /\ Missing \notin Files
  /\ Ranges \subseteq Nat \X Nat
  /\ MaxPages \in Nat \ {0} /\ MaxDocId \in Nat /\ MaxStarts \in Nat /\ MaxEdits \in Nat

VARIABLES
  disk,       \* what is at each path
  documents,  \* rows of documents, with their chunks
  sources,    \* rows of pdf_sources, with the page numbers of pdf_pages
  nextId,     \* the next document id
  job,        \* what each request is doing
  unsettled,  \* URIs whose two transactions did not come from one request
  starts, edits

tables == <<documents, sources, nextId, unsettled>>
vars == <<disk, tables, job, starts, edits>>

Page == [own : 0..2, edge : STRING]
Mark == [from : Nat, thru : Nat, titled : BOOLEAN]
Chunk == [from : Nat, thru : Nat, pages : SUBSET Nat]
Document == [id : Nat, uri : Uris, hash : Files, chunks : SUBSET Chunk]
Source == [uri : Uris, doc : Nat, path : Paths, hash : Files, pages : SUBSET Nat]
Idle == [at |-> "idle"]

ASSUME FileAssumption ==
  /\ Files \subseteq [state : STRING, pages : Seq(Page), marks : Seq(Mark)]
  /\ \A f \in Files : f.state = "plain" => Len(f.pages) > 0

Stages == {"begun", "inspected", "hashed", "missed", "extracted", "chunked", "written",
           "found", "removing"}

PdfTypeOK ==
  /\ disk \in [Paths -> Files \cup {Missing}]
  /\ documents \subseteq Document /\ IsFiniteSet(documents)
  /\ sources \subseteq Source
  /\ \A d, e \in documents : d.uri = e.uri => d = e
  /\ \A r, s \in sources : r.uri = s.uri => r = s
  /\ nextId \in Nat /\ starts \in Nat /\ edits \in Nat
  /\ \A r \in Requests : job[r] = Idle \/ job[r].at \in Stages
  /\ unsettled \subseteq Uris

Init ==
  /\ disk \in [Paths -> Files]
  /\ documents = {} /\ sources = {} /\ nextId = 1 /\ unsettled = {}
  /\ job = [r \in Requests |-> Idle]
  /\ starts = 0 /\ edits = 0
-----------------------------------------------------------------------------
(* What an ingest computes.                                                *)

\* pageRange: one-based and inclusive, 0 for the first and the last page.
Selected(range, n) ==
  LET end == IF range[2] = 0 \/ range[2] > n THEN n ELSE range[2]
      start == IF range[1] = 0 THEN 1 ELSE range[1]
  IN  Min({start, end}) .. end

NoEdge == ""

RawLength(page) == IF page.edge = NoEdge THEN page.own ELSE 2

\* The classification of InspectPDF, which looks at the raw text.
Class(file, range) ==
  LET texts == {p \in Selected(range, Len(file.pages)) : RawLength(file.pages[p]) = 2}
  IN  CASE file.state # "plain" -> file.state
        [] file.state = "plain" /\ texts = {} -> "image-only"
        [] file.state = "plain" /\ texts = Selected(range, Len(file.pages)) -> "text"
        [] OTHER -> "mixed"

\* suppressHeadersFooters: a first or last line that half of the extracted
\* pages share, two at least, is cut from all of them.
Running(file, ps) ==
  {file.pages[p].edge : p \in
     {q \in ps : LET same == {x \in ps : file.pages[x].edge = file.pages[q].edge}
                 IN  Cardinality(same) >= Max({2, (Cardinality(ps) + 1) \div 2})}} \ {NoEdge}

\* ExtractPages: the length of the text that each page of the range keeps.
Texts(file, range) ==
  LET ps == Selected(range, Len(file.pages))
  IN  [p \in ps |-> IF file.pages[p].edge \in Running(file, ps) \cup {NoEdge}
                    THEN file.pages[p].own ELSE 2]

\* LoadBookmarks, which clamps to the page count of the inspection.
Bookmarks(file, pageCount) ==
  LET Normal(m) == [m EXCEPT !.thru = Min({Max({m.from, m.thru}), pageCount})]
  IN  [i \in DOMAIN file.marks |-> Normal(file.marks[i])]

\* The last page of section i: an outline entry without an end of its own
\* extends to the next entry.
EndOf(marks, i) ==
  LET m == marks[i]
  IN  IF i < Len(marks) /\ marks[i + 1].from > m.from /\ m.thru <= m.from
      THEN marks[i + 1].from - 1
      ELSE Max({m.from, m.thru})

\* Mutated form: no entry is skipped.
SectionsOfAll(first, last, marks) ==
  IF marks = <<>> THEN {[from |-> first, thru |-> last, titled |-> FALSE]}
  ELSE {[from |-> Max({marks[i].from, first}), thru |-> Min({EndOf(marks, i), last}),
         titled |-> marks[i].titled] : i \in DOMAIN marks}

\* BuildSections.  The section before the first entry ends at that entry even
\* when the selected range ends earlier.
Sections(first, last, marks) ==
  LET whole == [from |-> first, thru |-> last, titled |-> FALSE]
      gap == IF marks # <<>> /\ marks[1].from > first
             THEN {[from |-> first, thru |-> marks[1].from - 1, titled |-> FALSE]}
             ELSE {}
      entries == {[from |-> Max({marks[i].from, first}), thru |-> Min({EndOf(marks, i), last}),
                   titled |-> marks[i].titled] :
                    i \in {k \in DOMAIN marks :
                             marks[k].from <= last /\ Min({EndOf(marks, k), last}) >= first}}
  IN  IF gap \cup entries = {} THEN {whole} ELSE gap \cup entries

\* ChunkSections: a section without a word gives no chunk.
Chunks(texts, marks) ==
  LET ps == DOMAIN texts
      Spoken(s) == {p \in ps \cap (s.from .. s.thru) : texts[p] > 0}
  IN  {[from |-> s.from, thru |-> s.thru, pages |-> Spoken(s)] :
         s \in {t \in Sections(Min(ps), Max(ps), marks) : t.titled \/ Spoken(t) # {}}}
-----------------------------------------------------------------------------
(* IngestPDF, one action for each read of the file or the database.        *)

Uri(r) == UriOf[job[r].path]
File(r) == disk[job[r].path]
DocumentOf(u) == {d \in documents : d.uri = u}

\* Answer the request: with an error, as unchanged, or when all is done.
End(r) == job' = [job EXCEPT ![r] = Idle]
Go(r, next) == job' = [job EXCEPT ![r] = next]

Begin(r) ==
  /\ job[r] = Idle /\ starts < MaxStarts
  /\ starts' = starts + 1
  /\ \E p \in Paths, range \in Ranges, force \in BOOLEAN :
       Go(r, [at |-> "begun", path |-> p, range |-> range, force |-> force,
              count |-> 0, hash |-> Missing, texts |-> <<>>, chunks |-> {}, doc |-> 0])
  /\ UNCHANGED <<disk, tables, edits>>

InspectPDF(r) ==
  /\ job[r].at = "begun"
  /\ IF File(r) # Missing /\ Class(File(r), job[r].range) \in {"text", "mixed"}
        /\ Len(File(r).pages) <= MaxPages
     THEN Go(r, [job[r] EXCEPT !.at = "inspected", !.count = Len(File(r).pages)])
     ELSE End(r)
  /\ UNCHANGED <<disk, tables, starts, edits>>

HashFile(r) ==
  /\ job[r].at = "inspected"
  /\ IF File(r) # Missing
     THEN Go(r, [job[r] EXCEPT !.at = "hashed", !.hash = File(r)])
     ELSE End(r)
  /\ UNCHANGED <<disk, tables, starts, edits>>

GetHashByURI(r) ==
  /\ job[r].at = "hashed"
  /\ IF ~ job[r].force /\ \E d \in DocumentOf(Uri(r)) : d.hash = job[r].hash
     THEN End(r)
     ELSE Go(r, [job[r] EXCEPT !.at = "missed"])
  /\ UNCHANGED <<disk, tables, starts, edits>>

\* The file is opened again: a corrupt or encrypted one is refused here too.
ExtractPages(r) ==
  /\ job[r].at = "missed"
  /\ IF /\ File(r) # Missing
        /\ File(r).state = "plain"
        /\ \E p \in DOMAIN Texts(File(r), job[r].range) : Texts(File(r), job[r].range)[p] = 2
     THEN Go(r, [job[r] EXCEPT !.at = "extracted", !.texts = Texts(File(r), job[r].range)])
     ELSE End(r)
  /\ UNCHANGED <<disk, tables, starts, edits>>

\* LoadBookmarks, whose errors leave no outline, then the sections, the
\* chunks, and the stat.
BuildChunks(r) ==
  /\ job[r].at = "extracted"
  /\ LET plain == File(r) # Missing /\ File(r).state = "plain"
         marks == IF plain THEN Bookmarks(File(r), job[r].count) ELSE <<>>
         cs    == Chunks(job[r].texts, marks)
     IN  IF cs # {} /\ File(r) # Missing
         THEN Go(r, [job[r] EXCEPT !.at = "chunked", !.chunks = cs])
         ELSE End(r)
  /\ UNCHANGED <<disk, tables, starts, edits>>
-----------------------------------------------------------------------------
\* Requests for u whose document is written and whose source row is not.
Between(u) == {r \in Requests : job[r].at \in {"written", "found"} /\ Uri(r) = u}

\* UpsertDocument.  An equal hash writes nothing, not even under force; force
\* then goes on to replace the source row.
UpsertDocument(r) ==
  /\ job[r].at = "chunked"
  /\ LET old == DocumentOf(Uri(r))
         id  == IF old = {} THEN nextId ELSE (CHOOSE d \in old : TRUE).id
     IN  \/ /\ \E d \in old : d.hash = job[r].hash
            /\ IF job[r].force THEN Go(r, [job[r] EXCEPT !.at = "written"]) ELSE End(r)
            /\ unsettled' = IF job[r].force THEN unsettled \cup {Uri(r)} ELSE unsettled
            /\ UNCHANGED <<documents, nextId>>
         \/ /\ \A d \in old : d.hash # job[r].hash
            /\ id <= MaxDocId
            /\ documents' = (documents \ old) \cup
                 {[id |-> id, uri |-> Uri(r), hash |-> job[r].hash, chunks |-> job[r].chunks]}
            /\ nextId' = Max({nextId, id + 1})
            /\ Go(r, [job[r] EXCEPT !.at = "written"])
            /\ unsettled' = IF Between(Uri(r)) = {} THEN unsettled \ {Uri(r)}
                            ELSE unsettled \cup {Uri(r)}
  /\ UNCHANGED <<disk, sources, starts, edits>>

GetDocumentByURI(r) ==
  /\ job[r].at = "written"
  /\ IF DocumentOf(Uri(r)) = {} THEN End(r)
     ELSE \E d \in DocumentOf(Uri(r)) :
            Go(r, [job[r] EXCEPT !.at = "found", !.doc = d.id])
  /\ UNCHANGED <<disk, tables, starts, edits>>

\* Mutated form: no rows for the pages without enough text.
NewSourceOfText(r) ==
  [uri |-> Uri(r), doc |-> job[r].doc, path |-> job[r].path, hash |-> job[r].hash,
   pages |-> {p \in DOMAIN job[r].texts : job[r].texts[p] = 2}]

NewSource(r) ==
  [uri |-> Uri(r), doc |-> job[r].doc, path |-> job[r].path, hash |-> job[r].hash,
   pages |-> DOMAIN job[r].texts]

\* Mutated form: the link is not checked against documents.
UpsertUnlinked(r) ==
  /\ job[r].at = "found"
  /\ sources' = {s \in sources : s.uri # Uri(r)} \cup {NewSource(r)}
  /\ End(r)
  /\ UNCHANGED <<disk, documents, nextId, unsettled, starts, edits>>

\* Mutated form: the row of the URI is not looked up first.
InsertSource(r) ==
  /\ job[r].at = "found"
  /\ IF \E d \in documents : d.id = job[r].doc
     THEN sources' = sources \cup {NewSource(r)}
     ELSE UNCHANGED sources
  /\ End(r)
  /\ UNCHANGED <<disk, documents, nextId, unsettled, starts, edits>>

\* UpsertPDFSource.  The foreign key refuses a document that is gone.
UpsertPDFSource(r) ==
  /\ job[r].at = "found"
  /\ IF \E d \in documents : d.id = job[r].doc
     THEN sources' = {s \in sources : s.uri # Uri(r)} \cup {NewSource(r)}
     ELSE UNCHANGED sources
  /\ End(r)
  /\ UNCHANGED <<disk, documents, nextId, unsettled, starts, edits>>

\* A request ends with its context, or with the process.
Stop(r) ==
  /\ job[r] # Idle
  /\ End(r)
  /\ unsettled' = IF job[r].at \in {"written", "found"} THEN unsettled \cup {Uri(r)} ELSE unsettled
  /\ UNCHANGED <<disk, documents, sources, nextId, starts, edits>>
-----------------------------------------------------------------------------
(* Deletes.                                                                *)

\* ON DELETE SET NULL for the document of u.
DropDocument(u) ==
  /\ documents' = documents \ DocumentOf(u)
  /\ sources' = {IF s.doc \in {d.id : d \in DocumentOf(u)} THEN [s EXCEPT !.doc = 0] ELSE s :
                   s \in sources}

\* RemovePDF: DeletePDFSourceByURI, whose pages follow by cascade.
RemoveSource(r) ==
  /\ job[r] = Idle /\ starts < MaxStarts
  /\ starts' = starts + 1
  /\ \E p \in Paths :
       /\ sources' = {s \in sources : s.uri # UriOf[p]}
       /\ Go(r, [at |-> "removing", path |-> p])
  /\ UNCHANGED <<disk, documents, nextId, unsettled, edits>>

\* The second statement of RemovePDF, DeleteDocument.
RemoveDocument(r) ==
  /\ job[r].at = "removing"
  /\ DropDocument(Uri(r))
  /\ End(r)
  /\ UNCHANGED <<disk, nextId, unsettled, starts, edits>>

\* delete_by_uri_prefix and the other deletes of documents.
DeleteByPrefix(u) ==
  /\ DocumentOf(u) # {}
  /\ DropDocument(u)
  /\ UNCHANGED <<disk, nextId, unsettled, job, starts, edits>>

\* The owner of the files replaces or removes one.
EditFile(p) ==
  /\ edits < MaxEdits
  /\ edits' = edits + 1
  /\ \E f \in (Files \cup {Missing}) \ {disk[p]} : disk' = [disk EXCEPT ![p] = f]
  /\ UNCHANGED <<tables, job, starts>>

Next ==
  \/ \E r \in Requests :
       \/ Begin(r) \/ InspectPDF(r) \/ HashFile(r) \/ GetHashByURI(r) \/ ExtractPages(r)
       \/ BuildChunks(r) \/ UpsertDocument(r) \/ GetDocumentByURI(r) \/ UpsertPDFSource(r)
       \/ Stop(r) \/ RemoveSource(r) \/ RemoveDocument(r)
  \/ \E u \in Uris : DeleteByPrefix(u)
  \/ \E p \in Paths : EditFile(p)

Spec == Init /\ [][Next]_vars
-----------------------------------------------------------------------------
(* The link of a source is NULL or the document of its own URI, whatever   *)
(* deletes and ingests ran between the lookup of the document and the      *)
(* transaction that stores the link.                                       *)
LinkIsOwnDocument ==
  \A s \in sources : s.doc # 0 => \E d \in DocumentOf(s.uri) : d.id = s.doc

(* Every chunk cites a range of pages, in order, that holds all the text   *)
(* it was made of: a hit of the search can be looked up in the PDF.        *)
CitationsCoverText ==
  \A d \in documents : \A c \in d.chunks :
    1 <= c.from /\ c.from <= c.thru /\ c.pages \subseteq c.from .. c.thru

(* A source whose two transactions came from one undisturbed request tells *)
(* the truth about its document: the hash is that of the index, and every  *)
(* page that a chunk was made of has its row in pdf_pages.  A stop between *)
(* the two, a second request between them, or force, may break this.       *)
RowDescribesDocument ==
  \A s \in sources : \A d \in DocumentOf(s.uri) :
    s.doc = d.id /\ s.uri \notin unsettled /\ Between(s.uri) = {} =>
      s.hash = d.hash /\ \A c \in d.chunks : c.pages \subseteq s.pages
=============================================================================
